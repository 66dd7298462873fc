# A formal model of the ANPR engine

TLA+ specifications of the number-plate recognition engine in
`src/cmake/anpr` (C++17) and of what surrounds it, the TLC configurations
that check them on small instances, and theorems proved with TLAPS for every
value of the constants. Paths below are relative to `src/cmake/anpr` unless
they start with `proj/`. `ARCH` is `docs/ARCHITECTURE.md`.

## 1. The system

One process, `anpr`, reads up to 64 cameras, looks for moving frames,
recognizes plates in them and reports each plate once: to a ring that a REST
API shows, to the log, and over TCP to a site server, which can send commands
back. `AnprStudio` is a Windows front end that starts and kills that process
and polls its API.

```
 capture thread 1 --\                              /-- worker 1 --\   tracker per camera
 capture thread 2 ---+-- BoundedQueue<AlprJob> ---+--- worker 2 ---+-- or one deduplicator
 capture thread N --/    (drop-oldest)             \-- worker M --/          |
                                                                             v
 main thread: wall / 200 ms sleep, finalizePlates() --------------> reportPlate()
                                                                     |        |
 REST thread: status, set ALPR                        ring of 1000 plates   TcpNetworkTransport
                                                                              |  I/O thread
                                                                         site server
```

### 1.1 Components

| Component | State it keeps | Operations | What makes it correct |
|---|---|---|---|
| Bounded queue, `core/include/core/BoundedQueue.h` | `queue_`, `closed_`, the waiters of a condition variable | `pushDropOldest`, `tryPush`, `waitPop`, `tryPop`, `close` | FIFO; never above capacity; every eviction reported; only stale values evicted; no lost wake-up; `close` releases everybody |
| Camera pipeline, `control/src/MultiCameraPipeline.cpp` | `stopRequested`, `activeCaptures`, per camera `alprEnabled`, counters and tracker; the ring; a plain pointer to the transport | `captureLoop`, `processFrame`, `workerLoop`, `reportPlate`, `finalizePlates`, `onMouse`, startup and shutdown | a frame recognized at most once; drops counted; the last camera closes the queue; a reading reported once; shutdown in order; the run ends |
| TCP uplink, `network/src/TcpNetworkTransport.cpp` | `running_`, `state_`, `sendQueue_`; on the I/O thread's stack `toSend` and `inbound` | `start`, `send`, `stop`, `ioLoop`, `serveConnection` | messages in order and once; losses accounted for; commands whole; nothing after `stop()`; `stop()` returns |
| Message schema, transport factory, `network/src` | none | build and parse JSON | parse what was built |
| Plate tracker, `processing/src/PlateTracker.cpp` | `tracks_` of one camera | `add`, `collectFinalized`, `flushAll`, `consolidate`, `editDistance` | one track per plate; the vote recovers the text; a reading in one track; the image fits the box |
| Plate deduplicator, `processing/include/processing/PlateDeduplicator.h` | `lastReported_` | `shouldReport`, `pruneExpired` | reports of a plate a window apart; a sighting withheld only inside a window |
| Motion gate, `processing/src/MotionGate.cpp` | background model, `warmupFrames_`, `lastMotionAt_`, `sawMotion_` | `shouldProcess` | everything passes during warm-up; motion opens the gate for the cooldown |
| Plate recognizer, `processing/src/OpenCvDnnPlateRecognizer.cpp` | networks, charset | `initialize`, `recognize` | one plate per vehicle; suppressed boxes stay suppressed |
| Frame sources, `capture/src` | a `cv::VideoCapture`, pacing, sequence number | `open`, `getNextFrame`, `close` | end of stream distinguished from failure; looping; pacing never bursts |
| Camera discovery, `capture/src/HikvisionDiscovery.cpp` | answers by serial number | multicast probe, TCP scan in batches of 128 non-blocking connects | every subnet scanned once; an answer once |
| Configuration, `core/src/Config.cpp` | the parsed record | `load` | limits and duplicates refused |
| Logger, `core/src/Logger.cpp` | level, sink | `log` | lines not mixed |
| Command line, `control/src/main.cpp` | `g_stopRequested` | arguments, signal handler, mode dispatch | a signal sets the flag |
| Mock site server, `tools/mock_server/mock_server.cpp` | `g_client`, `g_running` | accept loop, stdin loop | commands go to the connected device |
| AnprStudio, `proj/AnprStudio/MainWindow.xaml.cs` | `_process`, `_liveAlpr`, `_wallImages`, `_pendingLines`, the edited configuration | start, stop, poll, toggle, add and remove cameras | the window agrees with the process |
| Training scripts, installer, build files | none at run time | | |

### 1.2 What is hard

* *Interleaving.* N capture threads, M workers, the main thread, the REST
  thread and the uplink's I/O thread share atomics, four mutexes and one plain
  pointer. Notifications run after their lock is released, or, in `stop()`,
  without ever taking it.
* *Ordering.* Startup sets `activeCaptures` before any capture thread exists;
  shutdown joins captures, then workers, flushes the trackers, detaches the
  transport, stops it, and stops the API, in this order.
* *Failure.* A source that cannot be created, a camera that reconnects
  forever, a worker without a model, a connection that breaks at any call on
  the socket, in the middle of a message or a command.
* *Limits.* The drop-oldest queues, the ring of 1000 plates, capacity 0.
* *Liveness.* Waits with timeouts hide lost notifications; blocking calls
  without a timeout do not.
* *Stale state.* The front end's handlers await between a test and what relies
  on it; the RTSP options of every camera go through one environment variable.

`PROJECT.json` lists each hazard at its line, with the properties that cover
it, or a note saying why none does.

## 2. The modules

| Module | Models | Built on |
|---|---|---|
| `DropOldest` | eviction of the oldest element, shared by both queues (`BoundedQueue.h:44-54`, `TcpNetworkTransport.cpp:111-115`) | |
| `BoundedQueue` | the queue, its lock and its condition variable | `DropOldest` |
| `AlprPipeline` | all threads of `runMultiCameraPipeline` | `DropOldest`, refines `PlateLog` |
| `PlateLog` | *abstract:* what reporting promises | |
| `TcpTransport` | the uplink, its callers, the network and the server's end | `DropOldest`, refines `LossyChannel` |
| `LossyChannel` | *abstract:* what the uplink promises | |
| `PlateText` | edit distance and the confidence-weighted vote, as functions | |
| `PlateTracker` | one camera's tracker and its caller | `PlateText`, refines `PlateLog` |
| `PlateDeduplicator` | `shouldReport` and its pruning | |
| `PlateReporting` | composes the last two as `workerLoop` does: consolidation on or off | both |
| `MotionGate` | `shouldProcess`, as operators on a record | |
| `CameraCapture` | the capture threads with both frame sources and the gate | `MotionGate` |
| `Configuration` | `AppConfig::loadFromFile`, as operators | |
| `Discovery` | the SADP probe and the TCP scan | |
| `Recognizer` | what is made of the networks' answers, as operators | |
| `CommandLine` | `main()` up to the start of the pipeline, with what it calls | the last three |
| `Studio` | the front end's window, the engine's process and the API calls | |
| `MC*` | instances for TLC | the module they are named after |
| `Subsequences` | what an erase or filter loop leaves of a sequence, used by the tracker, the discovery, the recognizer and the configuration | |
| `CommonLemmas` | lemmas on the queue operator, increasing sequences, induction, folds, sums and subsequences | `DropOldest`, `Subsequences` |
| `BoundedQueueProofs`, `TcpTransportProofs`, `AlprPipelineProofs`, `CameraCaptureProofs`, `PlateReportingProofs`, `StudioProofs`, `CommandLineProofs` | theorems | the module they are named after, `CommonLemmas` |

No module declares a RECURSIVE operator. A definition whose comment begins
with "Deviant" is a wrong variant of the one beside it; the specification does
not use it, and the mutants of `PROJECT.json` put it in place of the right one.

### 2.1 How states and actions correspond to the code

**BoundedQueue.** A critical section under `mutex_` is an action; the
`notify_one` or `notify_all` after it is another (`prod[p]` says that it is
still due). `wait_for` is a wait set: `cons[c]` is "waiting", then "woken" (by a
notification or spuriously) or "expired" (by the timeout), and then re-evaluates
its predicate under the lock. Values are numbered in the order of the pushes;
`offered`, `refused`, `taken` and `dropped` are history.

**AlprPipeline.** Each thread has a program counter (`capture[c]`,
`worker[w]`, `main`), with a step between every two points at which another
thread can matter: an atomic access, a critical section, a blocking call. The
`stop` flag read by a loop's condition and the body it admits are separate
steps for the workers; in the capture loops a stop may arrive at every step.
The queue appears through its critical sections only, and a worker that finds it
empty goes on to `isClosed()` (the 100 ms timeout). A job is
<<camera, frame number>>; a reading is named after its job, a track is the set
of its readings, a report the track it came from. What the motion gate, the
recognizer, the deduplicator and the sources answer is free. `RequestQuit`
stands for the signal handler of `main.cpp` and for q / ESC; `SetAlpr` for the
API and the site server; `ClickLoad` and `ClickStore` for the two halves of
`onMouse`.

**TcpTransport.** `io` is where the I/O thread is. `wait_for` is split in
three: "check" evaluates the predicate under `mutex_`, "drowsy" has found it
false and still holds the mutex, "asleep" has released it. `Push` needs the
mutex; `Stop` does not take it, as in the code. `wire` is what the kernel has
taken and the server has not read; a broken connection leaves any prefix of it
readable. Commands come in two fragments, so that a line can be cut by a read or
by the end of a connection. `Destroy` is the end of the object after `stop()`: what is
still in `sendQueue_` then becomes `discarded`. `state_` changes with the step it belongs to.

**PlateText, PlateTracker.** A text is a sequence of numbers, a box has one
coordinate, a confidence is a natural number, time is ticks. `add`,
`collectFinalized` and `flushAll` are one action each (they run under
`trackerMutex`); reports are made one after the other afterwards.
`std::max_element` over a `std::map` is the least of the best keys, over a vector
the first of the best.

**PlateDeduplicator.** `shouldReport` prunes first; the code's second test of
the window can then never succeed, which the module says and the properties do
not depend on.

**CameraCapture.** `at[c]` is where the thread of camera c is: opening, between
the two steps of a live camera's `open()`, reading, waiting for a video frame's
time ("pacing"), about to copy and stamp it ("paced"), holding a frame, or finishing a
source. The clock that moves `nextFrameDue_` and the frame's time stamp are read in
different steps, and the thread may stall between them. `options` is
the environment variable `OPENCV_FFMPEG_CAPTURE_OPTIONS`, which `open()` sets
in one step and OpenCV reads in the next; there is one for all threads.
The steady clock is `now`, and a thread may lose ticks between any two steps.
What `cv::VideoCapture` does is free: every open may fail, every read too, and a
video may end early. `AlprPipeline` leaves the sources and the gate
free; this module is what may stand in their place. `used`, `crossed` (the
transports that other threads have set since this one's `open()` set its own),
`outcome`, `delivered` and `judged` are history.

**Configuration, CommandLine.** A configuration file is a record of what
`loadFromFile` decides on; keys it only copies are left out. `Parse` reads all
arguments before anything is done with them, `Load` applies the overrides after
the file was validated (so that `--source` is never validated), and the last
three steps are the discovery, the image test and the tests with which the
pipeline starts.

**Discovery.** A device is a record of what it says of itself and of what it has
open. Answers are kept under the serial number, or the address where there is
none, and the last one counts. What the network loses or delays is free.
`scanTcpPort` runs on the caller's thread: it starts the connects of a batch and
selects on them until a deadline, so a scan is the set of hosts that connected in
time, and the order within it decides nothing.

**Recognizer.** A box is the set of cells it covers on one axis, a score a
percentage, and a network is what it marks. Cropping, thresholds, the
class filter, non-maximum suppression, the vehicle's region and the way back to
frame coordinates are as in the code.

**Studio.** The UI has one thread: a handler is one action up to its first
await, and what follows the await is another, in the window as it has become by
then. A camera's node has an identity (`uid`) beside its id, and remembers whose
detail boxes were last written into it (`from`): both are history. .NET's
Exited event of a run is "off", "armed" (`EnableRaisingEvents`), then "posted" to
the UI thread, or "lost" when no handler was attached yet, then "handled". A call
to the API is answered by whichever engine listens when it arrives. A kill succeeds
on a live process; where it throws, the process is "already exiting"
(`MainWindow.xaml.cs:779`) and the step changes nothing.

## 3. The runs

Every passing run finishes within five minutes on two workers; TLC explores all of it.

| Run | Instance | Distinct states | Question |
|---|---|---|---|
| `queue` | 2 producers, 3 consumers, capacity 2, 4 values | 22 thousand | Does the queue keep its promises under every mix of operations, and nobody sleep for good without the timeout's help? |
| `pipeline` | 2 videos, one with ALPR, 2 workers, capacity 1, 2 frames, consolidation, ring of 1, uplink | 328 thousand | Are jobs run once, drops counted, the queue closed by the last camera, each reading reported once, `PlateLog` implemented, and does the run end by itself? |
| `pipeline_fallback` | a live camera, 2 workers, capacity 2, 2 frames, no consolidation, ring of 1, API, display and uplink | 268 thousand | When workers report themselves and ALPR is switched from three sides: does the ring agree with the counters, is every report sent, shutdown ordered, a stop obeyed, every job served? |
| `transport` | 1 sender, queue of 2, wire of 2, 4 messages, 2 commands | 233 thousand | Order, accounting to the transport's end, whole commands, quiet after `stop()`, `LossyChannel`; with a server that reads, does `stop()` return and the queue empty? |
| `plate_reporting` | 5 sightings of 3 vehicles, 4 readings, 3 ticks, reports of 2 readings | 64 thousand | One track per plate, majority vote, image, edit distance, `PlateLog`, and the deduplicator's window |
| `camera` | 2 cameras with different transports, or a video that loops, ends, skips frames or has none; 4 ticks, 5 frames | 1.1 million | Are frames paced without bursts, cameras opened with their own transport, and does motion reach the recognizer? |
| `one_shot` | 7 command lines, every combination of accepted and refused configurations, 5 hosts, 3 images | 46 thousand | What is a pipeline started with, what does discovery list, which plate is reported for which vehicle? |
| `studio` | 2 camera nodes, 2 runs of the engine, a call in flight | 426 thousand | Is an engine ever out of reach, is what is shown the current run's, do edits reach their camera, is an engine's end noticed? |
| `pipeline_bad_source` | 2 videos, one whose source cannot be created | violation | finding 1 |
| `transport_reconnect` | 1 message | violation | finding 2 |
| `transport_sleep` | 1 message | violation | finding 3 |
| `studio_ids` | 3 nodes | violation | finding 4 |

### 3.1 The bounds, and why they are enough

* `MaxOffered = 4` with `Capacity = 2`: two evictions after the queue has been
  full, and a pop between them. Three consumers, so that a notification can go
  to one that does not need it while another sleeps. Theorems cover the rest.
* `pipeline`: two capture threads of which either may be the last, and a queue of
  one job that the next frame evicts while a worker has another in its hands. The
  camera without ALPR only has to end, which keeps the run small;
  `JobsAreRunOnce`, `QueueClosesLast` and `ReadingsAreReportedOnce` are
  proved for any number of cameras, workers and frames. `MinSightings = 1`: every
  track is reported, so `PlateLog` lets none be given up; `plate_reporting`, with
  `MinSightings = 2`, has tracks of both kinds, and `ImplementsPlateLog` and
  `TrackerKeepsPromise` hold for any value.
* `pipeline_bad_source`: two videos with ALPR. The second opens, runs and ends; as the
  only thread left it has to close the queue, and its `fetch_sub` returns 2.
* `pipeline_fallback`: `MaxPlates = 1` below the number of reports, so that the
  ring is trimmed; two workers that report at the same time; `QueueCapacity = 2` so that
  jobs wait. `EveryN = 1` in both: a larger one makes fewer of the frames jobs,
  which the motion gate's free verdict already does.
* `MaxMessages = 4` with a queue of 2 and a wire of 2: a batch of two, half of
  it written, and two more queued behind it, across any number of reconnects
  (these are not bounded). `MaxCommands = 2` for a command cut by a connection's
  end with another behind it. One sender: two differ only in who holds the
  pending notification, and `SendersWakeTheIoThread` holds for any number.
* The scene of `plate_reporting` is chosen against the tracker's tests: two
  readings of one plate that differ by a substitution or by a lost
  character, another plate beside it, and its double out of reach. Track times of
  1 and 2 ticks within 3 ticks make both ways to finish a track happen.
* `camera`: `Period = 1`, so that four ticks hold a stall and the frames behind it;
  `EveryN = 2` and `Cooldown = 2`, so that a movement can fall on a frame
  the stride leaves out and the cooldown just reaches the next; `WarmUp = 1` for
  one frame of each kind. A frameless video is one that ends at every rewind.
* `one_shot`: the lists have an id given twice (by hand and by place), a camera
  that is disabled, one too many, and a source that does not exist; the LAN has two
  devices at the factory's address, one without a serial number, one that
  speaks RTSP only, and one behind a tunnel that is not scanned. The images have
  vehicles side by side, one over another, and marks that only partly lie in a region.
* `studio`: "10.0.0.1" is part of "10.0.0.12"; two runs, so that an answer can
  come from another engine than the one it was asked of. `studio_ids` needs three
  nodes: one removed in the middle and one added.

`CHECK_DEADLOCK FALSE` is set where the system may stop: the transport after
`stop()`, the tracker, the captures when readings, frames or ticks are used up,
`main()` after its exit, the window when it is closed. In the pipeline
and the queue deadlock is checked; `Returned` is the pipeline's only way to rest.

### 3.2 Fairness

* `BoundedQueue!Fairness`: a producer past its unlock notifies, a woken or
  expired consumer gets the lock. Nobody is made to begin an operation, and
  neither timeouts nor spurious wake-ups are relied on, so `SleepersAreServed`
  holds by the notifications alone.
* `AlprPipeline!Fairness`: weak fairness for every thread. That its calls
  return is what the code relies on too: FFmpeg's timeouts for a read, the
  sleeps' and `waitPop`'s durations, the model for a recognition. `EndTurn` is
  strongly fair: `waitKey` returns after its delay, however many clicks it handles
  meanwhile. The threads that switch ALPR, and the user, are not fair, except
  that a mouse handler finishes.
* `TcpTransport!Fairness`: the I/O thread's own steps (its timeouts fire), the
  rest of a `send()` and of a `stop()`. A blocked `::send` is disabled until there
  is room. `ServedSpec` adds a server that keeps reading; without it `StopReturns`
  does not hold (see section 5).
* `Studio!Fairness`: the UI thread finishes `Start_Click` and takes a posted
  event, .NET notices the end of a process it watches. Nothing is assumed of the
  user, the engine or the network.
* `CameraCapture` and `CommandLine` state none: their properties are about
  safety, and a thread may stall.

## 4. What is proved

Every safety property of the passing runs is a theorem, with both refinements
of `PlateLog` and the one of `LossyChannel`. All
theorems are checked by TLAPS to the last leaf, from the assumptions the
modules name and nothing else:

* `QueueAssumption`, `PipelineAssumption`, `TransportAssumption`: finite sets of
  producers, consumers and workers, positive numbers of cameras and a positive
  send-queue capacity;
* `CaptureAssumption`: a stride of at least 1 and configurations of the right type;
* `TrackerAssumption`, `ReportingAssumption`: sightings of the right type, limits and
  a window that are natural numbers;
* `StudioAssumption`: at least one camera allowed, configuration files whose
  cameras carry their own values;
* `ConfigurationAssumption`, `CommandAssumption`: natural limits and thresholds, camera
  lists and marks of the right type, finitely many scores;
* `DiscoveryAssumption`: finitely many devices, serial numbers distinct, and an address
  on one subnet only.

`RingShowsReports` also asks that the model
value `None` is no report. Bounds such as `MaxMessages`, `MaxFrames` and
`MaxTime` are arbitrary naturals, so the results do not depend on them.

**CommonLemmas.** The library's induction rules take a predicate as parameter, which
the provers cannot instantiate. Induction is stated here for the *set* of values
the predicate holds of (`NatInductionSet`, `SubsetInductionSet`,
`PrefixInduction`); a predicate is used by naming that set. A recursive function, a
fold or a sum is a CHOOSE of a function that satisfies a recurrence: `RecursionExists`,
`FoldExists`, `FoldLeftExists` and `AddsUpExists` show by induction on the
domain that there is one, and the definitions then satisfy their recurrences. From
this follow what a sum is of a union or a part (`SumOfUnion`, `SumOfPart`) and where
the elements that a filter keeps stand (`SelectPlaces`).

**BoundedQueueProofs** (`TypeCorrect`, `FifoOrder`, `NothingLostSilently`,
`EvictsOnlyStale`, `WakeupsNotLost`). The invariant is `TypeOK /\ Contents`:
the queue is increasing and consists of the *latest* accepted values
(`LatestInOrder`), and what was taken is accepted and no longer queued. "Latest" is
what `Fifo` and `OnlyStaleEvicted` need: an accepted value outside the queue is
older than every value in it. The counting properties
(`EvictionsReported`, `NoLostWakeup`) are inductive once it is there. Their
steps rest on cardinalities of sets that one thread enters or leaves.

**AlprPipelineProofs**, in six layers, each an invariant relative to those before it.

1. `Safe` (`TypeCorrect`, `QueueClosesLast`) joins the types with `Captures`
   (`activeCaptures` is the number of capture threads that have not given back
   their share, leaked ones included, from before the first is started; the one
   that closes the queue has every other behind it), `JobsInHand`,
   `ClosedOnlyWhenDone` and `StopFirst` (the shutdown sets the flag before it closes
   the queue). `activeCaptures` is a count and the property is about where each
   thread is; without `Captures` nothing relates them.
2. `Shutdown` (`ShutsDownInOrder`) has three parts for the three lines of
   `ShutdownInOrder`: `Joined`, `Flushed` (the flush has emptied the trackers of the
   cameras below `next`) and `Unlinked`. `Attachment` (`EveryReportIsSent`) adds that
   the uplink is attached wherever a report can be made, and that what was sent is
   what was counted.
3. `Placed` (`JobsAreRunOnce`): a job is in at most one of the queue, the workers'
   hands, what was recognized and what was swallowed. `Numbers` and `Offers` make the
   next frame's job a new one, which is what a push needs.
4. `Held` (`ReadingsAreReportedOnce`): a track has its own camera's readings
   (`Owned`), any two open, collected or reported tracks are disjoint (`Apart`), and
   what has been reported is in no tracker (`Unreported`). `FromRecognized` and
   `Lone` make a worker's reading a new one: a job
   is not added twice because, by `Placed`, it is not recognized twice.
5. `ImplementsPlateLog` maps jobs to `PlateLog`'s readings and the trackers' tracks
   to its open groups: an addition is a grouping, a report a report, everything
   else stutters. `PlateLog` reports groups of `Needed` readings, `MinSightings` with
   consolidation and 1 without, and gives up only smaller ones. `Untracked` serves the
   case without consolidation, and `Substantial` says that whatever was collected is
   enough for a report, so that a track that goes without one was too small. The theorem takes
   all jobs as readings where the runs take the bounded set. `Shown` (`RingShowsReports`) relates the
   ring to the log up to the reports being recorded.
6. `Counted` (`DropsAreCounted`): the sum of the cameras' drop counters, and one for
   each capture thread that has evicted a job and not yet counted it
   (`Paying`), is the number of jobs offered that are neither queued nor taken. An
   eviction is counted for the camera that pushed, not the one whose job is lost,
   so only the sum can be kept, and `Placed` makes the jobs it counts distinct.

**TcpTransportProofs** (`TypeCorrect`, `MessagesInOrder`, `LossesAccounted`,
`ImplementsChannel`, `SendersWakeTheIoThread`, `NoHandlerAfterStop`,
`CommandsAreWhole`). `Control` says that only a
sending I/O thread holds a batch: without it `Drain` might overwrite one.
`Flow` is `Ordered` (received, wire, batch and queue are each increasing and each
lies below the next) and `Accounted` (what these keep, was evicted, cut or
discarded is exactly what was accepted, disjointly). Stated piece by piece,
it is preserved by moving a prefix from one piece to the next, which is all that
`Drain`, `Send` and `ServerReads` do; `InOrder` and `NothingElseLost` follow for
the concatenation. The refinement maps `Push` to `Accept`, `ServerReads` to
`Deliver` (the head of the wire is the least outstanding message, by
`Ordered`), a failure or the transport's end to `Lose`, and everything else to a
stutter. `Attentive` adds
to `SendsAreNoticed` that a thread about to sleep, which holds the mutex, has
an empty queue. `Halted` says that a `stop()` that has returned left no I/O
thread. `Commands` speaks of `Stream`, what is buffered followed by what is still to be
read: its fragments alternate from the first on (`Lines`), only its last line may be
unfinished (`Unfinished`), every command in it is younger than what was
dispatched (`Behind`), and so what is dispatched is whole (`Told`) and grows
(`Growing`). A read moves a prefix inside the stream, a line leaves at its front, and
a new connection starts an empty one; where the reads cut it does not matter.

**CameraCaptureProofs** (`TypeCorrect`, `VideosArePaced`,
`ConnectionsHaveTheirTransport`, `EndsAreNotFailures`, `GateIsMotion`,
`MotionIsSubmitted`, `FramesAreNumbered`). `Schedule` strengthens `Paced`: the next
frame is due no earlier than the time of all frames since any delivered one
but one (`Ahead`), and once the clock has been looked at for it, the time of all of
them, while the clock has reached all but one (`Sampled`). This is what makes
`NoCatchUp` sufficient; a stall between that look and the stamp costs `Paced` the second
of its two intervals. `Links` holds `used` against
`options` in every state of an open. `Follows` reconstructs the gate's record
from the verdicts given so far: the warm-up counter is their number, up to
`WarmUp`, and `at` the time of the last movement behind them; `Explained` says of every
verdict why it was given. `MotionReachesAlpr` then needs that of `EveryN`
consecutive counters one is a multiple (`MultipleNear`).

**PlateReportingProofs**, in four parts.

1. *The deduplicator* (`ReportsStayApart`, `WithheldInsideWindow`): an
   entry is the time of the plate's latest report (`EntryIsLatest`), and a plate
   without an entry was last reported a window ago (`PrunedWhenOld`): pruning
   loses nothing. The composition implements the deduplicator's
   specification (`UsesDeduplicator`), with the tracker's steps as stutters or ticks,
   and so inherits both (`ReportedApart`, `WithheldOnlyClose`).
2. *The tracker* (`TrackerTypes`, `OnePlateOneTrack`, `ImageAndBoxAgree`,
   `MajorityIsReported`). `TrackerInv` says what an open track is (`TracksSound`: its
   image is that of the *first* of its strongest readings, as a strict comparison
   in `add` keeps it), what a finished one is (`FinalsSound`, `LogSound`), that no
   reading is in two of them (`ReadingsApart`), and what the flush leaves
   (`PhasesInOrder`). The box is chosen at the end by `max_element` and the
   image along the way; `StrongestIsFirst` makes both the same reading. For the
   vote, `Total` is a sum, so readings that hold more than half of
   the confidence outweigh all others together, at the length and then
   at every position (`HasMajority`).
3. *The refinement* (`TrackerKeepsPromise`): the tracker implements `PlateLog` with the
   readings' numbers, open and finished tracks as its open groups. Adding to a track
   or opening one is a grouping, a report a report, and finishing a
   track, which only moves its readings, a stutter; by `ReadingsApart` none is lost
   when two groups would be one. `Numbered` says that a track has as many numbers as
   readings, so what `collectFinalized` and `flushAll` erase without returning is a track
   of fewer than `MinSightings`, the only kind `PlateLog` gives up.
4. *The edit distance* (`DistanceIsEdits`). The table `editDistance` fills satisfies its
   recurrence (`IsTable`), and what holds of a cell whenever it holds of those above
   and to the left holds of all (`TableInduction`). An edit changes the distance by at most one (`EditIsOneStep`); a text that is not
   t is one edit from a text that is nearer (`EditTowards`, along the table's path).
   So the texts within k + 1 of t are those within k and their edits
   (`NearByEdits`), which is how `Within` counts them (`WithinIsNear`).

**StudioProofs** (`WindowTypes`, `EngineStaysUnderControl`, `LiveStateIsOfThisRun`,
`EditsStayInTheirCamera`). `RunInv` holds that a run whose end has not been handled is
the one the window holds (`HeldUntilHandled`), that Exited follows the end (`ExitedAfterEnd`), and
that between the halves of `Start_Click` the window is open and holds a run whose
Exited is not yet armed (`StartHoldsWindow`). `CallInv` adds that an answer under way is of
the current run or marked late. `EditInv` says that every camera carries its own
values and the boxes are of the selected one, also while a handler
awaits (`BoxesOfSelected`, `SelectedIsListed`); writing them back then changes
nothing (`FlushedIsClean`).

**CommandLineProofs** (`StartsSound`, `EveryAnswerIsListedOnce`, `OnePlateEach`).
`Loaded` carries what `LoadFromFile` has checked through the overrides
that come after it: `--source` changes the first camera, hence the exception for it.
`Discovers` has an invariant for each half: what was heard is listed under its
key (`Listening`), and what the scan has found is what it has reached in time
(`Scanning`); `BasesOnce` gives each subnet one turn. For the recognizer:
the candidates begin with the best (`BestComesFirst`), suppression never
removes the first (`KeepsTheBest`), the coordinates of a region lead back to the
frame (`ThereAndBack`), and so each plate is the strongest mark of its vehicle's region
(`PlateOfIsStrongest`, `EachHasAnOwner`).

### 4.1 Only model-checked

* All liveness: `SleepersAreServed`, `StopEndsRun`, `VideosEnd`,
  `JobsAreServed`, `StopReturns`, `QueueFlushed`, `ExitIsNoticed`. TLAPS 1.4.5 does
  not reason about ENABLED, hence not about fairness.
* The properties of section 5, which are false of the code and which TLC refutes.

## 5. Findings

Each is a run that checks what the repository says and finds it violated.

1. `LastOutCloses`: `captureLoop` returns at `MultiCameraPipeline.cpp:221`, when
   `createFrameSource` throws, without `activeCaptures.fetch_sub`. The last of the other
   capture threads then sees a count above 1 and does not close the queue ("Last capture
   thread out closes the queue.", line 272): a run on video files does not end by
   itself.
2. `UnwrittenSurvives`: `INetworkTransport.h:59-60` says that messages are
   queued while disconnected and flushed after reconnecting;
   when `::send` fails, the rest of the batch, never written, is dropped with the
   local `toSend`.
3. `SleepIsInterrupted`: "Interruptible sleep so stop() is responsive."
   `stop()` notifies without the mutex, so the notification can fall between the
   predicate and the sleep; the thread sleeps the whole reconnect interval.
4. `IdsUnique`: "Unique key, used in reports and the API." (`Config.h:141`).
   `AddCamera_Click` and `Discover_Click` name a camera after the number of
   cameras; after one was removed in the middle the id is a second one's, and the
   engine refuses the saved file.

Met while modelling and not given a run of their own:

* *Shutdown.* ARCH:250-252 says that at shutdown processing empties its queue
  and the network sends its last messages; `workerLoop` leaves as soon as
  `stopRequested` is set, and `serveConnection` tests `running_` before it looks at
  the queue, so both discard what is queued. `NothingElseLost` counts such
  messages as `discarded` and bounds them: they are the newest, and no more than a
  queue holds.
* *Blocking.* ARCH:343-344 says no thread blocks without a time limit;
  `::send` on a socket without a send timeout waits as long as the server does not
  read, and `stop()` joins that thread.
* *Eviction.* ARCH:270-271 and 340-342 say that a full report queue refuses the
  new report and warns, because reports must never be lost; `send()` evicts the
  oldest, whose caller was told true. `NothingElseLost` admits this only when a whole
  queue of newer messages was accepted. `sendQueueCapacity` 0 is accepted by `Config`, and `send()` then calls
  `pop_front` on an empty deque; `TransportAssumption` excludes it.
* *ALPR switch.* `onMouse` loads `alprEnabled` and stores its negation in two
  atomic operations: a switch from the API in between is lost. Both steps are in the
  model; the repository states no requirement that this breaks.
* *Configuration.* `Config.h:237-238` says that an empty camera list is
  synthesized from the capture block; `"cameras": []` gives no camera, and the
  pipeline exits with 1. `--source` is applied after the validation.
* *Recognizer.* `Config.h:39-41` says the vehicle stage stops one physical plate
  from being reported as several; the regions of two overlapping vehicles
  may each report the same plate. `OnePlatePerVehicle` states what does hold.
  The pads of the OCR's slots count in the mean confidence, though not in the text.
* *Capture.* The RTSP options are process-wide, so another camera's `open()` may
  replace them before they are read; `OwnTransport` admits the
  transports set by such a crossing `open()`, and no others. Motion
  seen during the warm-up is not remembered.
* *Front end.* `MainWindow.xaml.cs:599` asks whether a camera's URL contains the
  found address, so 10.0.0.1 is "already configured" beside 10.0.0.12;
  `Discover_Click` ignores the limit of 64 cameras and the unwritten detail
  boxes; a cooldown that is no number ends the window in `SelectionChanged`, and
  the engine runs on; the Exited handler is attached after `EnableRaisingEvents`, so
  an engine that ends at once may never be noticed. `EngineUnderControl` and
  `ExitIsNoticed` are stated up to the last two, and `LiveStateOfThisRun` up to an
  answer that was under way when the run's end was handled.

## 6. What is not modelled

* Tiles, drawing, statistics, the log and the REST endpoints that only read: no
  control depends on them. In the front end likewise the wall's pictures, the log
  and the plate table.
* JSON formatting and parsing (messages and commands are numbers, a file is what
  `Configuration` decides on) and the transport factory.
* The networks behind the recognizer, the background subtractor, FFmpeg, the LAN:
  their answers are free choices, or inputs.
* Two-dimensional geometry: boxes lie on one axis, where overlap, containment and
  the edges of the image already occur.
* Floating point: confidences are whole numbers, so ties are exact. Rounding
  in sums of floats could order two nearly equal weights otherwise.
* `PlateTracker`'s `lastFrame`: workers may add frames out of order, and
  nothing reads it in a decision.
* A `Process.Kill` that fails on a live process (the code takes every exception for
  "Already exiting") and exceptions of the front end's handlers other than
  `ParseDouble`'s: the first would leave an engine behind a closed window, which
  nothing in the window can prevent.
* The race of `setenv` in one capture thread with FFmpeg's `getenv` in another, as a race on
  memory; that the value may be another camera's is in `CameraCapture`.
* The mock server's accept loop and stdin thread, a development tool;
  `TcpTransport` has its end of a connection.
* Crash recovery: the program keeps nothing on disk that it reads back, except
  the configuration file that the front end writes.
* Training scripts, installer, build files: no state of the running system.

## 7. Plan

The order followed the importance of the behaviour: first the path a plate takes.

1. Done: `BoundedQueue`, `AlprPipeline` and `PlateLog`, `TcpTransport` and
   `LossyChannel`, `PlateText`, `PlateTracker`, `PlateDeduplicator` and
   `PlateReporting`, with the proofs of their safety that section 4 lists.
2. Done: `MotionGate` and `CameraCapture` with their proofs.
3. Done: `Configuration`, `Discovery`, `Recognizer`, composed in `CommandLine`;
   `Studio`.
4. Left: `SiteServer`, the mock server's accept loop and stdin thread, composed
   with `TcpTransport` (a command goes to the connected device or to none).
5. Done: the proofs about the drop counter, the tracker and its refinement of
   `PlateLog`, the edit distance, `Studio` and `CommandLine`.
6. Left: theorems that use the abstract specifications, what `PlateLog` and
   `LossyChannel` promise carried over to the components that implement them.
