---------------------------- MODULE AlprPipeline ----------------------------
(***************************************************************************)
(* control/MultiCameraPipeline.cpp: one capture thread per camera, a pool  *)
(* of ALPR workers, the main thread that finalizes plates and shuts the    *)
(* pipeline down, and the threads that switch ALPR on and off (REST API,   *)
(* site server, mouse).                                                    *)
(*                                                                         *)
(* Every action is what one thread does between two points at which        *)
(* another can be seen to run: an atomic access, a critical section, a     *)
(* blocking call.  The job queue is used through its critical sections,    *)
(* which module BoundedQueue models in detail; waitPop's 100 ms timeout    *)
(* means that an empty queue never blocks a worker for good.               *)
(*                                                                         *)
(* A job is a pair <<camera, frame number>>.  A recognized job carries at  *)
(* most one plate reading, named after the job; a track is the set of the  *)
(* readings consolidated in it, and a report is the track it was made of.  *)
(* Tile images, boxes and timings are left out: no control depends on      *)
(* them.                                                                   *)
(***************************************************************************)
EXTENDS DropOldest, FiniteSets, Functions

CONSTANTS
    NumCameras,      \* shared.cameras.size(): the enabled cameras
    Workers,         \* the ALPR worker threads
    Live,            \* cameras with source == "camera": they reconnect forever
    BadSources,      \* cameras for which createFrameSource throws
    QueueCapacity,   \* processing.queueCapacity
    EveryN,          \* processing.processEveryNFrames, at least 1
    Consolidate,     \* processing.consolidation.enabled
    MinSightings,    \* processing.consolidation.minSightings
    MaxPlates,       \* bound of recentPlates (1000)
    Uplink,          \* a network transport is configured
    Api,             \* api.enabled
    Display,         \* display.enabled
    AlprOn,          \* cameras configured with alprEnabled
    Switchable,      \* bound: cameras whose ALPR is switched during the run
    None,            \* no job, no report, no click
    MaxFrames        \* bound: frames read by all cameras in one behaviour

ASSUME PipelineAssumption ==
    /\ NumCameras \in Nat \ {0}
    /\ IsFiniteSet(Workers)
    /\ Live \subseteq 1..NumCameras
    /\ BadSources \subseteq 1..NumCameras
    /\ AlprOn \subseteq 1..NumCameras
    /\ Switchable \subseteq 1..NumCameras
    /\ QueueCapacity \in Nat
    /\ EveryN \in Nat \ {0}
    /\ MinSightings \in Nat
    /\ MaxPlates \in Nat \ {0}
    /\ MaxFrames \in Nat
    /\ {Consolidate, Uplink, Api, Display} \subseteq BOOLEAN

VARIABLES
    stop,            \* stopRequested
    fatalError,
    activeCaptures,
    alprQueue,       \* the queue's contents ...
    closed,          \* ... and its closed_ flag
    capture,         \* where each capture thread is
    counter,         \* captureLoop's counter, per camera
    alprEnabled,     \* per camera
    alprDropped,     \* per camera
    worker,          \* where each worker thread is
    job,             \* the job in a worker's hands
    main,            \* where the main thread is
    next,            \* the camera the main thread's loop is at
    finals,          \* tracks collected by the main thread, not yet reported
    current,         \* the report the main thread has sent, not yet recorded
    click,           \* a toggle begun by onMouse: the value it loaded
    tracks,          \* tracker->tracks_, per camera
    recentPlates,    \* newest first
    uplink,          \* shared.transport and the transport behind it
    api,             \* the ApiServer thread
    offered,         \* history: jobs handed to pushDropOldest
    swallowed,       \* history: those that met a closed queue
    recognized,      \* history: jobs run through the recognizer
    log,             \* history: every report counted, in order
    sent             \* history: reports handed to transport->send

pushVars == <<alprDropped, offered, swallowed>>
captureVars == <<activeCaptures, capture, counter, pushVars>>
queueVars == <<alprQueue, closed>>
workerVars == <<fatalError, worker, job, recognized>>
mainVars == <<main, next, finals, current, click>>
plateVars == <<recentPlates, log, sent>>
linkVars == <<uplink, api>>
vars == <<stop, captureVars, queueVars, workerVars, mainVars, plateVars,
          linkVars, alprEnabled, tracks>>

Cameras == 1..NumCameras
Jobs == Cameras \X (Nat \ {0})
Cap == IF QueueCapacity = 0 THEN 1 ELSE QueueCapacity

Init ==
    /\ stop = FALSE
    /\ fatalError = FALSE
    /\ activeCaptures = 0
    /\ alprQueue = <<>>
    /\ closed = FALSE
    /\ capture = [c \in Cameras |-> "unborn"]
    /\ counter = [c \in Cameras |-> 0]
    /\ alprEnabled = [c \in Cameras |-> c \in AlprOn]
    /\ alprDropped = [c \in Cameras |-> 0]
    /\ worker = [w \in Workers |-> "unborn"]
    /\ job = [w \in Workers |-> None]
    /\ main = "start"
    /\ next = 1
    /\ finals = {}
    /\ current = None
    /\ click = None
    /\ tracks = [c \in Cameras |-> {}]
    /\ recentPlates = <<>>
    /\ uplink = "none"
    /\ api = "off"
    /\ offered = {}
    /\ swallowed = {}
    /\ recognized = {}
    /\ log = <<>>
    /\ sent = {}

-----------------------------------------------------------------------------
(* Capture threads: captureLoop and processFrame.                          *)

CaptureGoto(c, here, there) ==
    /\ capture[c] = here
    /\ capture' = [capture EXCEPT ![c] = there]

(* createFrameSource throws for an unknown source: the thread returns      *)
(* without giving back its share of activeCaptures.                        *)
CreateFails(c) == c \in BadSources /\ CaptureGoto(c, "outer", "leaked")

(* Deviant: a camera that is to be opened does not look at stop. *)
OpensRegardless(c) == c \in Live

(* while (!stop && !finished) *)
KeepsOpening(c) == ~stop

(* source->open(): a live camera that fails sleeps, however long stop has  *)
(* been set, and tries again; a simulation that fails is over.             *)
OpenSource(c) ==
    /\ c \notin BadSources
    /\ \/ ~KeepsOpening(c) /\ CaptureGoto(c, "outer", "exit")
       \/ KeepsOpening(c) /\ CaptureGoto(c, "outer", "inner")
       \/ KeepsOpening(c) /\ CaptureGoto(c, "outer", IF c \in Live THEN "outer" ELSE "exit")

(* The inner loop ends - because of stop, the end of the stream or an      *)
(* error of the source - and the source is closed: a simulation is         *)
(* finished, a live camera goes back to opening.                           *)
CloseSource(c) == CaptureGoto(c, "inner", IF c \in Live THEN "outer" ELSE "exit")

(* while (!stop): getNextFrame delivers; processFrame counts the frame and *)
(* decides, with the motion gate's verdict and alprEnabled as it is now,   *)
(* whether it becomes a job.                                               *)
NextFrame(c) ==
    /\ ~stop
    /\ SumFunction(counter) < MaxFrames
    /\ counter' = [counter EXCEPT ![c] = @ + 1]
    /\ \E motion \in BOOLEAN :
         CaptureGoto(c, "inner", IF motion /\ alprEnabled[c] /\ counter[c] % EveryN = 0
                                 THEN "push" ELSE "inner")

(* Deviant: pushDropOldest's answer is ignored. *)
NeverEvicts == FALSE

(* What pushDropOldest is about to return. *)
Evicts == ~closed /\ Full(alprQueue, Cap)

(* alprQueue.pushDropOldest(job).  A closed queue swallows the job. *)
PushJob(c) ==
    LET new == <<c, counter[c]>> IN
    /\ offered' = offered \cup {new}
    /\ \/ closed /\ swallowed' = swallowed \cup {new} /\ UNCHANGED alprQueue
       \/ ~closed /\ alprQueue' = PushDropOldest(alprQueue, new, Cap) /\ UNCHANGED swallowed
    /\ CaptureGoto(c, "push", IF Evicts THEN "count_drop" ELSE "count")

(* The camera that pushed pays, whosever job was evicted. *)
CountJob(c) ==
    \/ CaptureGoto(c, "count", "inner") /\ UNCHANGED alprDropped
    \/ /\ CaptureGoto(c, "count_drop", "inner")
       /\ alprDropped' = [alprDropped EXCEPT ![c] = @ + 1]

(* Deviant: every capture thread that ends closes the queue. *)
AnyOut == TRUE

(* activeCaptures.fetch_sub(1) == 1 *)
LastOut == activeCaptures = 1

LeaveCapture(c) ==
    /\ CaptureGoto(c, "exit", IF LastOut THEN "last" ELSE "done")
    /\ activeCaptures' = activeCaptures - 1

(* "Last capture thread out closes the queue." *)
LastCaptureCloses(c) == CaptureGoto(c, "last", "done") /\ closed' = TRUE

CaptureStep(c) ==
    /\ \/ /\ CreateFails(c) \/ OpenSource(c) \/ CloseSource(c)
          /\ UNCHANGED <<activeCaptures, counter, pushVars, queueVars>>
       \/ NextFrame(c) /\ UNCHANGED <<activeCaptures, pushVars, queueVars>>
       \/ PushJob(c) /\ UNCHANGED <<activeCaptures, counter, alprDropped, closed>>
       \/ CountJob(c) /\ UNCHANGED <<activeCaptures, counter, offered, swallowed, queueVars>>
       \/ LeaveCapture(c) /\ UNCHANGED <<counter, pushVars, queueVars>>
       \/ LastCaptureCloses(c) /\ UNCHANGED <<activeCaptures, counter, pushVars, alprQueue>>
    /\ UNCHANGED <<stop, workerVars, mainVars, plateVars, linkVars, alprEnabled, tracks>>

-----------------------------------------------------------------------------
(* Reporting: reportPlate, called by the main thread for finalized tracks  *)
(* and, without consolidation, by the workers.                             *)

(* if (shared.transport) *)
Attached == uplink = "up"

(* The counters and transport->send. *)
CountAndSend(report) ==
    /\ log' = Append(log, report)
    /\ sent' = IF Attached THEN sent \cup {report} ELSE sent
    /\ UNCHANGED recentPlates

(* Deviant: the ring is not trimmed. *)
Untrimmed(ring) == ring

(* if (recentPlates.size() > 1000) recentPlates.pop_back() *)
Trimmed(ring) == IF Len(ring) > MaxPlates THEN SubSeq(ring, 1, MaxPlates) ELSE ring

Record(report) ==
    /\ recentPlates' = Trimmed(<<report>> \o recentPlates)
    /\ UNCHANGED <<log, sent>>

-----------------------------------------------------------------------------
(* Workers: workerLoop.                                                    *)

WorkerGoto(w, here, there) ==
    /\ worker[w] = here
    /\ worker' = [worker EXCEPT ![w] = there]

(* createPlateRecognizer and initialize(): a worker without a model stops  *)
(* the whole program.                                                      *)
InitWorker(w) ==
    \/ WorkerGoto(w, "init", "loop") /\ UNCHANGED <<stop, fatalError>>
    \/ WorkerGoto(w, "init", "done") /\ fatalError' = TRUE /\ stop' = TRUE

(* while (!stop) *)
TestStop(w) == WorkerGoto(w, "loop", IF stop THEN "done" ELSE "pop")

(* Deviant: the front is read but stays in the queue. *)
Peek(q) == q

(* front(), pop_front() *)
Pop(q) == Tail(q)

(* alprQueue.waitPop(100ms): a job, or nothing after the timeout or        *)
(* because the queue is closed and empty.                                  *)
WaitPop(w) ==
    \/ /\ alprQueue # <<>>
       /\ job' = [job EXCEPT ![w] = Head(alprQueue)]
       /\ alprQueue' = Pop(alprQueue)
       /\ WorkerGoto(w, "pop", "work")
    \/ /\ alprQueue = <<>>
       /\ WorkerGoto(w, "pop", "check")
       /\ UNCHANGED <<job, alprQueue>>

(* Deviant: a worker that finds nothing to do leaves the pool. *)
GivesUp == TRUE

(* if (isClosed()) break; else continue; *)
LeavesPool == closed

CheckClosed(w) == WorkerGoto(w, "check", IF LeavesPool THEN "done" ELSE "loop")

(* The job goes out of scope at the end of the loop's body. *)
Release(w) == job' = [job EXCEPT ![w] = None]

(* tracker->add: the reading joins an open track or starts one. *)
AddReading(c, r) ==
    \/ tracks' = [tracks EXCEPT ![c] = @ \cup {{r}}]
    \/ \E t \in tracks[c] : tracks' = [tracks EXCEPT ![c] = (@ \ {t}) \cup {t \cup {r}}]

(* recognizer->recognize(frame): nothing found, or one plate, which goes   *)
(* to the camera's tracker or, without consolidation, to the deduplicator, *)
(* which may let it through.                                               *)
Recognize(w) ==
    /\ recognized' = recognized \cup {job[w]}
    /\ \/ WorkerGoto(w, "work", "loop") /\ UNCHANGED tracks /\ Release(w)
       \/ /\ Consolidate
          /\ WorkerGoto(w, "work", "loop") /\ AddReading(job[w][1], job[w]) /\ Release(w)
       \/ ~Consolidate /\ WorkerGoto(w, "work", "report") /\ UNCHANGED <<tracks, job>>

WorkerReports(w) ==
    WorkerGoto(w, "report", "record") /\ CountAndSend({job[w]}) /\ UNCHANGED job

(* The next detection, or the next job: a reading is reported once. *)
AfterReport == "loop"

WorkerRecords(w) ==
    WorkerGoto(w, "record", AfterReport) /\ Record({job[w]}) /\ Release(w)

WorkerStep(w) ==
    /\ \/ /\ InitWorker(w)
          /\ UNCHANGED <<job, recognized, alprQueue, tracks, plateVars>>
       \/ /\ TestStop(w) \/ CheckClosed(w)
          /\ UNCHANGED <<stop, fatalError, job, recognized, alprQueue, tracks, plateVars>>
       \/ WaitPop(w) /\ UNCHANGED <<stop, fatalError, recognized, tracks, plateVars>>
       \/ Recognize(w) /\ UNCHANGED <<stop, fatalError, alprQueue, plateVars>>
       \/ /\ WorkerReports(w) \/ WorkerRecords(w)
          /\ UNCHANGED <<stop, fatalError, recognized, alprQueue, tracks>>
    /\ UNCHANGED <<captureVars, closed, mainVars, linkVars, alprEnabled>>

-----------------------------------------------------------------------------
(* The main thread: runMultiCameraPipeline.                                *)

MainGoto(here, there) == main = here /\ main' = there

(* The transport and the workers are started, and activeCaptures is set    *)
(* before any capture thread exists ...                                    *)
Start ==
    /\ MainGoto("start", "launch")
    /\ uplink' = IF Uplink THEN "up" ELSE "none"
    /\ worker' = [w \in Workers |-> "init"]
    /\ activeCaptures' = NumCameras
    /\ UNCHANGED <<capture, next, api>>

(* ... then the capture threads, one after the other ... *)
LaunchCapture ==
    /\ main = "launch" /\ next \in Cameras
    /\ next' = next + 1
    /\ capture' = [capture EXCEPT ![next] = "outer"]
    /\ UNCHANGED <<main, uplink, worker, activeCaptures, api>>

(* ... and the API server; its port may be taken, the run goes on without. *)
StartApi ==
    /\ next > NumCameras
    /\ MainGoto("launch", "loop")
    /\ api' \in IF Api THEN {"on", "off"} ELSE {"off"}
    /\ UNCHANGED <<capture, next, uplink, worker, activeCaptures>>

(* Deviant: the loop looks at stopRequested only. *)
StopSeen == stop

(* stopRequested || allCapturesDone() *)
LoopOver == stop \/ closed

LoopTest == MainGoto("loop", IF LoopOver THEN "stopping" ELSE "turn") /\ UNCHANGED next

(* The wall refresh or the 200 ms sleep is over: finalizePlates(). *)
EndTurn == click = None /\ MainGoto("turn", "finalize") /\ next' = 1

Idle == finals = {} /\ current = None

(* Deviant: finalized tracks stay in the tracker. *)
Keep(open, gone) == open

(* Deviant: collectFinalized clears the tracker as flushAll does. *)
Cleared(open, gone) == {}

(* tracks_.erase *)
Erase(open, gone) == open \ gone

(* collectFinalized takes the tracks that have gone idle, flushAll takes   *)
(* all; those with enough sightings are reported, one after the other.     *)
Collect ==
    /\ main \in {"finalize", "flush"} /\ Idle /\ next \in Cameras
    /\ \E gone \in IF main = "flush" THEN {tracks[next]} ELSE SUBSET tracks[next] :
         /\ tracks' = [tracks EXCEPT ![next] = Erase(@, gone)]
         /\ finals' = {t \in gone : Cardinality(t) >= MinSightings}
    /\ next' = next + 1
    /\ UNCHANGED <<main, current, plateVars>>

MainReports ==
    /\ current = None
    /\ \E t \in finals : current' = t /\ finals' = finals \ {t} /\ CountAndSend(t)
    /\ UNCHANGED <<main, next, tracks>>

MainRecords ==
    /\ current # None
    /\ Record(current)
    /\ current' = None
    /\ UNCHANGED <<main, next, finals, tracks>>

EndCollect ==
    /\ Idle /\ next > NumCameras
    /\ MainGoto("finalize", "loop") \/ MainGoto("flush", "detach")
    /\ UNCHANGED next

(* Shutdown: stopRequested = true ... *)
RequestStop == MainGoto("stopping", "close_queue") /\ stop' = TRUE /\ UNCHANGED closed

(* ... alprQueue.close() ... *)
CloseQueue == MainGoto("close_queue", "join_captures") /\ closed' = TRUE /\ UNCHANGED stop

(* ... every capture thread is joined (a leaked one has returned too) ... *)
CapturesOver == \A c \in Cameras : capture[c] \in {"done", "leaked"}
JoinCaptures == CapturesOver /\ MainGoto("join_captures", "join_workers") /\ UNCHANGED next

(* Deviant: nobody waits for the workers. *)
NotAwaited == TRUE

WorkersOver == \A w \in Workers : worker[w] = "done"
WorkersJoined == WorkersOver

FlushNext == IF Consolidate THEN "flush" ELSE "detach"

(* ... and every worker. *)
JoinWorkers == WorkersJoined /\ MainGoto("join_workers", FlushNext) /\ next' = 1

(* shared.transport = nullptr: "No more sends after this point." *)
Detach ==
    /\ MainGoto("detach", "stop_uplink")
    /\ uplink' = IF Uplink THEN "detached" ELSE uplink
    /\ UNCHANGED api

(* transport->stop() joins the I/O thread that runs the message handler. *)
StopUplink ==
    /\ MainGoto("stop_uplink", "stop_api")
    /\ uplink' = IF Uplink THEN "stopped" ELSE uplink
    /\ UNCHANGED api

(* Deviant: the API server is left running. *)
ApiLeft == api

ApiStopped == "off"

(* api.stop(); the function returns and PipelineShared is gone. *)
StopApi == MainGoto("stop_api", "done") /\ api' = ApiStopped /\ UNCHANGED uplink

MainStep ==
    /\ \/ /\ Start \/ LaunchCapture \/ StartApi
          /\ UNCHANGED <<stop, closed, finals, current, plateVars, tracks>>
       \/ /\ LoopTest \/ EndTurn \/ EndCollect \/ JoinCaptures \/ JoinWorkers
          /\ UNCHANGED <<stop, closed, activeCaptures, capture, worker, finals, current,
                         plateVars, linkVars, tracks>>
       \/ /\ Collect \/ MainReports \/ MainRecords
          /\ UNCHANGED <<stop, closed, activeCaptures, capture, worker, linkVars>>
       \/ /\ RequestStop \/ CloseQueue
          /\ UNCHANGED <<activeCaptures, capture, worker, next, finals, current,
                         plateVars, linkVars, tracks>>
       \/ /\ Detach \/ StopUplink \/ StopApi
          /\ UNCHANGED <<stop, closed, activeCaptures, capture, worker, next, finals,
                         current, plateVars, tracks>>
    /\ UNCHANGED <<counter, pushVars, alprQueue, fatalError, job, recognized, click,
                   alprEnabled>>

-----------------------------------------------------------------------------
(* The outside world, and the threads that act on its behalf.              *)

(* SIGINT, SIGTERM (main.cpp's handler), or q / ESC in the camera wall. *)
RequestQuit == stop' = TRUE /\ UNCHANGED <<click, alprEnabled>>

(* POST /api/cameras/<id>/alpr or the site server's set_alpr command. *)
SetAlpr(c) ==
    /\ api = "on" \/ uplink \in {"up", "detached"}
    /\ \E enabled \in BOOLEAN : alprEnabled' = [alprEnabled EXCEPT ![c] = enabled]
    /\ UNCHANGED <<stop, click>>

(* onMouse, called from waitKey on the main thread: alprEnabled is loaded, *)
ClickLoad(c) ==
    /\ Display /\ main = "turn" /\ click = None
    /\ click' = <<c, alprEnabled[c]>>
    /\ UNCHANGED <<stop, alprEnabled>>

(* and its negation stored, whatever was stored in between. *)
ClickStore ==
    /\ click # None
    /\ alprEnabled' = [alprEnabled EXCEPT ![click[1]] = ~click[2]]
    /\ click' = None
    /\ UNCHANGED stop

UserStep ==
    /\ RequestQuit \/ ClickStore \/ \E c \in Switchable : SetAlpr(c) \/ ClickLoad(c)
    /\ UNCHANGED <<captureVars, queueVars, workerVars, main, next, finals, current,
                   plateVars, linkVars, tracks>>

(* The function has returned: nothing is left to run. *)
Returned == main = "done" /\ UNCHANGED vars

Next ==
    \/ \E c \in Cameras : CaptureStep(c)
    \/ \E w \in Workers : WorkerStep(w)
    \/ MainStep
    \/ UserStep
    \/ Returned

(* Every thread is scheduled.  That its blocking calls return is what the  *)
(* code relies on: a frame read is bounded by FFmpeg's 5 s timeout, the    *)
(* sleeps and waitPop by their durations, recognition by the model.  A     *)
(* click handler finishes, and waitKey returns after its delay however     *)
(* many clicks it handles.  Nothing else is assumed of the user.           *)
Fairness ==
    /\ \A c \in Cameras : WF_vars(CaptureStep(c))
    /\ \A w \in Workers : WF_vars(WorkerStep(w))
    /\ WF_vars(MainStep)
    /\ SF_vars(EndTurn /\ MainStep)
    /\ WF_vars(ClickStore /\ UserStep)

Spec == Init /\ [][Next]_vars

FairSpec == Spec /\ Fairness

-----------------------------------------------------------------------------
(* Properties.                                                             *)

CaptureStates == {"unborn", "outer", "inner", "push", "count", "count_drop",
                  "exit", "last", "done", "leaked"}
WorkerStates == {"unborn", "init", "loop", "pop", "check", "work", "report", "record", "done"}
MainStates == {"start", "launch", "loop", "turn", "finalize", "stopping",
               "close_queue", "join_captures", "join_workers", "flush", "detach",
               "stop_uplink", "stop_api", "done"}
Tracks == SUBSET Jobs

(* The type of every variable, with the bounds of the queue and the ring. *)
TypeOK ==
    /\ stop \in BOOLEAN /\ fatalError \in BOOLEAN /\ closed \in BOOLEAN
    /\ activeCaptures \in 0..NumCameras
    /\ alprQueue \in Seq(Jobs) /\ Len(alprQueue) <= Cap
    /\ capture \in [Cameras -> CaptureStates]
    /\ counter \in [Cameras -> Nat]
    /\ alprEnabled \in [Cameras -> BOOLEAN]
    /\ alprDropped \in [Cameras -> Nat]
    /\ worker \in [Workers -> WorkerStates]
    /\ job \in [Workers -> Jobs \cup {None}]
    /\ main \in MainStates
    /\ next \in 1..(NumCameras + 1)
    /\ finals \subseteq Tracks
    /\ current \in Tracks \cup {None}
    /\ click \in (Cameras \X BOOLEAN) \cup {None}
    /\ tracks \in [Cameras -> SUBSET Tracks]
    /\ recentPlates \in Seq(Tracks) /\ Len(recentPlates) <= MaxPlates
    /\ uplink \in {"none", "up", "detached", "stopped"}
    /\ api \in {"on", "off"}
    /\ offered \subseteq Jobs /\ swallowed \subseteq Jobs /\ recognized \subseteq Jobs
    /\ log \in Seq(Tracks)
    /\ sent \subseteq Tracks

Busy == {w \in Workers : worker[w] = "work"}
Queued == Elements(alprQueue)
InHand == {job[w] : w \in Busy}
Evicted == offered \ (Queued \cup InHand \cup recognized \cup swallowed)

(* No frame is recognized twice, whichever workers pop it and however      *)
(* capture threads push: a job is in one place only, and in one worker's   *)
(* hands only.                                                             *)
JobsRunOnce ==
    /\ \A i, j \in 1..Len(alprQueue) : alprQueue[i] = alprQueue[j] => i = j
    /\ \A v, w \in Busy : job[v] = job[w] => v = w
    /\ Queued \cap InHand = {}
    /\ (Queued \cup InHand) \cap (recognized \cup swallowed) = {}
    /\ recognized \cap swallowed = {}

(* The alpr_dropped counters miss no eviction: summed over the cameras     *)
(* they are the jobs that left the queue unprocessed, up to the increments *)
(* that capture threads are about to make.                                 *)
DropsCounted ==
    SumFunction(alprDropped) + Cardinality({c \in Cameras : capture[c] = "count_drop"})
      = Cardinality(Evicted)

(* While nobody asked to stop, a closed queue means that every camera has  *)
(* finished: no capture thread is cut short by another one's end, and no   *)
(* frame is swallowed by a closed queue.                                   *)
ClosedOnlyWhenDone ==
    ~stop => /\ closed => \A c \in Cameras : capture[c] = "done"
             /\ swallowed = {}

(* A reading ends up in at most one report: open tracks, collected tracks  *)
(* and everything ever reported never share one ("tek nihai sonuc": one    *)
(* consolidated result).                                                   *)
ReadingsReportedOnce ==
    LET reported == UNION Elements(log)
        open == UNION {tracks[c] : c \in Cameras}
    IN  /\ \A i, j \in 1..Len(log) : log[i] \cap log[j] # {} => i = j
        /\ \A s, t \in open \cup finals : s \cap t # {} => s = t
        /\ (UNION (open \cup finals)) \cap reported = {}
        /\ open \cap finals = {}

(* Shutdown goes through the threads in order: the final flush finds no    *)
(* capture thread and no worker alive, the transport is detached only when *)
(* nothing is left to report, and when the function returns - and the      *)
(* state the threads share is destroyed - none of them is left running.    *)
ShutdownInOrder ==
    /\ main \in {"flush", "detach", "stop_uplink", "stop_api", "done"}
         => CapturesOver /\ WorkersOver
    /\ uplink \in {"detached", "stopped"}
         => Idle /\ (Consolidate => \A c \in Cameras : tracks[c] = {})
    /\ main = "done" => uplink \in {"none", "stopped"} /\ api = "off"

(* Every report that was counted was handed to the transport, the ones of  *)
(* the final flush included, when there is a transport at all.             *)
UplinkMissesNoReport ==
    Uplink => sent = Elements(log)

Unrecorded == Cardinality({w \in Workers : worker[w] = "record"})
                + (IF current = None THEN 0 ELSE 1)

(* What /api/plates shows agrees with reports_total: up to the reports     *)
(* being recorded right now, the ring holds as many of the counted reports *)
(* as it can.                                                              *)
RingMatchesCount ==
    /\ Elements(recentPlates) \subseteq Elements(log)
    /\ LET recorded == Len(log) - Unrecorded
       IN  Len(recentPlates) = IF recorded < MaxPlates THEN recorded ELSE MaxPlates

(* Reporting as PlateLog promises it: an open track with enough sightings  *)
(* is reported, not dropped, whichever thread extends or takes it.  A      *)
(* reading the deduplicator let through is a track of its own, and enough, *)
(* until the worker reports it.                                            *)
Pending == {{job[w]} : w \in {v \in Workers : worker[v] = "report"}}
OpenTracks == (UNION {tracks[c] : c \in Cameras}) \cup finals \cup Pending

Promise == INSTANCE PlateLog
             WITH Readings <- Cameras \X (1..MaxFrames),
                  Needed <- IF Consolidate THEN MinSightings ELSE 1,
                  open <- OpenTracks, ended <- main = "done"

KeepsPromise == Promise!Spec

(* Setting the stop flag - by a signal, a key, a worker without a model or *)
(* the end of all videos - ends the run, whatever the threads are doing.   *)
StopEndsRun == stop ~> main = "done"

(* A run on video files ends by itself. *)
VideosEnd == Live = {} => <>(main = "done")

(* No job waits in the queue forever: it is recognized or evicted, unless  *)
(* the run is stopped.                                                     *)
JobsAreServed == \A j \in Cameras \X (1..MaxFrames) : j \in Queued ~> (j \notin Queued \/ stop)

(* "Last capture thread out closes the queue." (MultiCameraPipeline.cpp:272): *)
(* when every capture thread has ended, one of them through the count, the *)
(* queue is closed.                                                        *)
LastOutCloses == CapturesOver /\ (\E c \in Cameras : capture[c] = "done") ~> closed
=============================================================================
