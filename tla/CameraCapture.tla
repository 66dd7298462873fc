---------------------------- MODULE CameraCapture ----------------------------
(***************************************************************************)
(* The frame sources (capture/src) and the motion gate, as captureLoop and *)
(* processFrame (control/MultiCameraPipeline.cpp) use them: one thread per *)
(* camera, which opens its source, reads, and closes it.  AlprPipeline     *)
(* leaves open, getNextFrame and the gate's verdict free; here they are    *)
(* the code's.  What is behind cv::VideoCapture is free: any open or read  *)
(* may fail, and a video may end early.                                    *)
(*                                                                         *)
(* Time is in ticks.  A thread may lose time between any two steps.        *)
(***************************************************************************)
EXTENDS MotionGate, Sequences

CONSTANTS
    Cameras,
    Sites,       \* bound: the camera configurations considered
    Period,      \* 1 / fps, in ticks
    EveryN,      \* processing.processEveryNFrames, at least 1
    MaxFrames,   \* bound: frames delivered by a video
    MaxTime      \* bound: ticks

Transports == {"tcp", "udp", "unset"}
NoCapture == -1

(* frames: those a video has behind startTimeSeconds; for a camera a bound *)
(* on those it delivers.                                                   *)
CameraConfig ==
    [enabled : BOOLEAN, source : {"simulation", "camera"}, transport : Transports,
     frames : Nat, skip : Nat, loop : BOOLEAN, realtime : BOOLEAN, gated : BOOLEAN]

ASSUME CaptureAssumption ==
    /\ Sites \subseteq [Cameras -> CameraConfig]
    /\ {Period, MaxFrames, MaxTime, WarmUp, Cooldown} \subseteq Nat
    /\ EveryN \in Nat \ {0}

VARIABLES
    config,          \* cam.cfg, for every camera
    now,             \* the steady clock
    options,         \* OPENCV_FFMPEG_CAPTURE_OPTIONS: one for the whole process
    at,              \* where each capture thread is
    left,            \* capture_: the frames it has still to read, or NoCapture
    lastError,       \* "" or what failed
    nextFrameDue,
    nextSequence,
    gate,            \* captureLoop's MotionGate
    counter,         \* captureLoop's counter
    used,            \* history: the options the open capture was made with
    crossed,         \* history: the transports that others set in between
    outcome,         \* history: what captureLoop logged when a source ended
    delivered,       \* history: time and number of every frame
    judged           \* history: the gate's verdicts

linkVars == <<options, used, crossed>>
gateVars == <<gate, counter, judged>>
frameVars == <<nextFrameDue, nextSequence, delivered>>
vars == <<config, now, at, left, lastError, outcome, linkVars, gateVars, frameVars>>

Live(c) == config[c].source = "camera"

Init ==
    /\ config \in Sites
    /\ now = 0
    /\ options = "unset"
    /\ at = [c \in Cameras |-> IF config[c].enabled THEN "outer" ELSE "ended"]
    /\ left = [c \in Cameras |-> NoCapture]
    /\ lastError = [c \in Cameras |-> ""]
    /\ nextFrameDue = [c \in Cameras |-> 0]
    /\ nextSequence = [c \in Cameras |-> 0]
    /\ gate = [c \in Cameras |-> NewGate]
    /\ counter = [c \in Cameras |-> 0]
    /\ used = [c \in Cameras |-> "unset"]
    /\ crossed = [c \in Cameras |-> {}]
    /\ outcome = [c \in Cameras |-> "none"]
    /\ delivered = [c \in Cameras |-> <<>>]
    /\ judged = [c \in Cameras |-> <<>>]

Goto(c, here, there) == at[c] = here /\ at' = [at EXCEPT ![c] = there]

Put(f, c, x) == [f EXCEPT ![c] = x]

-----------------------------------------------------------------------------
(* SimulatedFileFrameSource.                                               *)

(* open(): a path that is empty, missing or not a video is an error, and   *)
(* captureLoop gives the camera up.                                        *)
OpenFile(c) ==
    /\ ~Live(c)
    /\ \/ /\ Goto(c, "outer", "inner")
          /\ left' = Put(left, c, config[c].frames)
          /\ nextFrameDue' = Put(nextFrameDue, c, now)
          /\ nextSequence' = Put(nextSequence, c, 0)
          /\ lastError' = Put(lastError, c, "")
          /\ UNCHANGED outcome
       \/ /\ Goto(c, "outer", "ended")
          /\ lastError' = Put(lastError, c, "open")
          /\ outcome' = Put(outcome, c, "failed")
          /\ UNCHANGED <<left, nextFrameDue, nextSequence>>
    /\ UNCHANGED delivered

(* read() takes one of the n frames that are left, grab() skips the next. *)
ReadFrame(c, n) ==
    /\ n > 0
    /\ left' = Put(left, c, IF n > 1 + config[c].skip THEN n - 1 - config[c].skip ELSE 0)
    /\ Goto(c, "inner", "pacing")
    /\ UNCHANGED lastError

(* close(), and false. *)
GiveUp(c, error) ==
    /\ left' = Put(left, c, NoCapture)
    /\ lastError' = Put(lastError, c, error)
    /\ Goto(c, "inner", "over")

(* "Reopen instead of seeking": the file may be gone, or have no frame     *)
(* behind the start time.                                                  *)
RewindFails(c) == GiveUp(c, "rewind")

(* getNextFrame() up to the frame: read() fails at the end of the video,   *)
(* or before it where the rest cannot be decoded.  "Normal end-of-stream:  *)
(* not an error, lastError_ stays empty."                                  *)
ReadVideo(c) ==
    /\ ~Live(c)
    /\ \/ ReadFrame(c, left[c])
       \/ ~config[c].loop /\ GiveUp(c, lastError[c])
       \/ config[c].loop /\ (ReadFrame(c, config[c].frames) \/ RewindFails(c))

Interval(c) == (1 + config[c].skip) * Period

(* Deviant: after a stall the lost time is caught up. *)
CatchUp(due) == due

(* "Fell behind (slow decode); don't try to catch up." *)
NoCatchUp(due) == IF due < now THEN now ELSE due

(* The frame leaves getNextFrame. *)
Produce(c) ==
    /\ Len(delivered[c]) < IF Live(c) THEN config[c].frames ELSE MaxFrames
    /\ delivered' = [delivered EXCEPT ![c] = Append(@, [at |-> now, seq |-> nextSequence[c]])]
    /\ nextSequence' = [nextSequence EXCEPT ![c] = @ + 1]

(* sleep_until(nextFrameDue_), the clock, and the next frame's time;       *)
(* without realtime as fast as frames can be read ...                      *)
Pace(c) ==
    /\ Goto(c, "pacing", "paced")
    /\ \/ /\ config[c].realtime
          /\ now >= nextFrameDue[c]
          /\ nextFrameDue' = [nextFrameDue EXCEPT ![c] = NoCatchUp(@ + Interval(c))]
       \/ ~config[c].realtime /\ UNCHANGED nextFrameDue
    /\ UNCHANGED <<nextSequence, delivered>>

(* ... and after that the image is copied, numbered and stamped.           *)
Deliver(c) == Goto(c, "paced", "frame") /\ Produce(c) /\ UNCHANGED nextFrameDue

-----------------------------------------------------------------------------
(* HikvisionRtspFrameSource.                                               *)

(* Deviant: options that are already set are kept. *)
FirstOptions(c) == IF options = "unset" THEN config[c].transport ELSE options

(* The demuxer options name the transport when it is tcp or udp. *)
OwnOptions(c) == config[c].transport

(* open(): applyFfmpegOptions sets an environment variable of the process  *)
(* (a configuration without a URL fails before that) ...                   *)
ApplyOptions(c) ==
    /\ Goto(c, "outer", "opening")
    /\ options' = OwnOptions(c)
    /\ crossed' = [d \in Cameras |-> IF d = c THEN {}
                                     ELSE IF at[d] = "opening"
                                     THEN crossed[d] \cup {config[c].transport}
                                     ELSE crossed[d]]
    /\ UNCHANGED <<lastError, used, nextSequence>>

NoUrl(c) ==
    /\ Goto(c, "outer", "outer")
    /\ lastError' = Put(lastError, c, "open")
    /\ UNCHANGED <<linkVars, nextSequence>>

(* open() leaves nextSequence_ alone. *)
Numbering(c) == nextSequence

(* ... which OpenCV reads when the capture is made.  A camera that cannot  *)
(* be opened is tried again.                                               *)
Connect(c) ==
    /\ \/ /\ Goto(c, "opening", "inner")
          /\ used' = Put(used, c, options)
          /\ lastError' = Put(lastError, c, "")
          /\ nextSequence' = Numbering(c)
       \/ /\ Goto(c, "opening", "outer")
          /\ lastError' = Put(lastError, c, "open")
          /\ UNCHANGED <<used, nextSequence>>
    /\ UNCHANGED <<options, crossed>>

OpenCamera(c) ==
    /\ Live(c)
    /\ NoUrl(c) \/ ApplyOptions(c) \/ Connect(c)
    /\ UNCHANGED <<nextFrameDue, delivered>>

(* getNextFrame() *)
ReadStream(c) ==
    /\ Live(c)
    /\ \/ Goto(c, "inner", "frame") /\ Produce(c) /\ UNCHANGED lastError
       \/ /\ Goto(c, "inner", "over")
          /\ lastError' = Put(lastError, c, "read")
          /\ UNCHANGED <<delivered, nextSequence>>
    /\ UNCHANGED nextFrameDue

-----------------------------------------------------------------------------
(* The capture thread.                                                     *)

(* (counter - 1) % everyN == 0 *)
Turn(c) == counter[c] % EveryN = 0

(* processFrame: whether the frame becomes an ALPR job. *)
Judge(c) ==
    /\ Goto(c, "frame", "inner")
    /\ counter' = [counter EXCEPT ![c] = @ + 1]
    /\ \/ /\ config[c].gated
          /\ \E moved \in BOOLEAN :
               LET passed == ShouldProcess(gate[c], moved, now) IN
               /\ gate' = Put(gate, c, AfterFrame(gate[c], moved, now))
               /\ judged' = [judged EXCEPT ![c] = Append(@,
                    [at |-> now, moved |-> moved, passed |-> passed, job |-> passed /\ Turn(c)])]
       \/ ~config[c].gated /\ UNCHANGED <<gate, judged>>

(* getNextFrame() was false: an error or the end is logged, the source is  *)
(* closed; a simulation is finished, a camera goes back to opening.        *)
Finish(c) ==
    /\ Goto(c, "over", IF Live(c) THEN "outer" ELSE "ended")
    /\ outcome' = Put(outcome, c, IF lastError[c] = "" THEN "end of stream" ELSE "failed")
    /\ left' = Put(left, c, NoCapture)

CaptureStep(c) ==
    \/ OpenFile(c) /\ UNCHANGED <<linkVars, gateVars>>
    \/ OpenCamera(c) /\ UNCHANGED <<left, outcome, gateVars>>
    \/ at[c] = "inner" /\ ReadVideo(c) /\ UNCHANGED <<outcome, linkVars, gateVars, frameVars>>
    \/ (Pace(c) \/ Deliver(c)) /\ UNCHANGED <<left, lastError, outcome, linkVars, gateVars>>
    \/ ReadStream(c) /\ UNCHANGED <<left, outcome, linkVars, gateVars>>
    \/ Judge(c) /\ UNCHANGED <<left, lastError, outcome, linkVars, frameVars>>
    \/ Finish(c) /\ UNCHANGED <<lastError, linkVars, gateVars, frameVars>>

Tick ==
    /\ now < MaxTime
    /\ now' = now + 1
    /\ UNCHANGED <<config, at, left, lastError, outcome, linkVars, gateVars, frameVars>>

Next ==
    \/ Tick
    \/ \E c \in Cameras :
         /\ CaptureStep(c)
         /\ UNCHANGED <<config, now>>

Spec == Init /\ [][Next]_vars

-----------------------------------------------------------------------------
(* Properties.                                                             *)

Gate == [warmed : Nat, saw : BOOLEAN, at : Nat]
Delivery == [at : Nat, seq : Nat]
Verdict == [at : Nat, moved : BOOLEAN, passed : BOOLEAN, job : BOOLEAN]
CaptureStates == {"outer", "opening", "inner", "pacing", "paced", "frame", "over", "ended"}

(* The type of every variable. *)
TypeOK ==
    /\ config \in [Cameras -> CameraConfig]
    /\ now \in Nat
    /\ options \in Transports
    /\ at \in [Cameras -> CaptureStates]
    /\ left \in [Cameras -> Nat \cup {NoCapture}]
    /\ lastError \in [Cameras -> {"", "open", "rewind", "read"}]
    /\ nextFrameDue \in [Cameras -> Nat]
    /\ nextSequence \in [Cameras -> Nat]
    /\ gate \in [Cameras -> Gate]
    /\ counter \in [Cameras -> Nat]
    /\ used \in [Cameras -> Transports]
    /\ crossed \in [Cameras -> SUBSET Transports]
    /\ outcome \in [Cameras -> {"none", "failed", "end of stream"}]
    /\ delivered \in [Cameras -> Seq(Delivery)]
    /\ judged \in [Cameras -> Seq(Verdict)]

(* "Pace delivery to the effective FPS": after a stall the frames do not   *)
(* come in a burst.  Whatever the delays and wherever they fall - a thread *)
(* may also stall between looking at the clock and stamping the frame -    *)
(* between the i-th and the j-th frame of a video lies the time of all     *)
(* frames between them but two.                                            *)
Paced ==
    \A c \in Cameras : ~Live(c) /\ config[c].realtime =>
      \A i, j \in DOMAIN delivered[c] :
        i < j => delivered[c][j].at - delivered[c][i].at >= (j - i - 2) * Interval(c)

(* "Monotonic frame counter per source" (core/Types.h:27): over any number *)
(* of reconnects a camera's frames are numbered without gap or repetition. *)
FramesNumbered ==
    \A c \in Cameras : \A k \in DOMAIN delivered[c] : delivered[c][k].seq = k - 1

(* "A looping simulated source never reports end-of-stream", nor does a    *)
(* camera; a video that does not loop is not reported as failing once it   *)
(* has been opened (IFrameSource.h:41-42).                                 *)
EndIsNotFailure ==
    \A c \in Cameras :
      /\ outcome[c] = "end of stream" => ~Live(c) /\ ~config[c].loop
      /\ at[c] = "over" /\ ~Live(c) /\ ~config[c].loop => lastError[c] = ""

(* A camera is opened with its own transport (Config.h:111) or, as the     *)
(* environment is the process's, with that of a camera whose open() began  *)
(* between the two steps of its own: never with what an earlier open(), of *)
(* whichever camera, has left there.                                       *)
OwnTransport ==
    \A c \in Cameras :
      Live(c) /\ at[c] \in {"inner", "frame"} => used[c] \in {config[c].transport} \cup crossed[c]

(* Frames pass while the background settles, and then exactly for the      *)
(* cooldown behind each movement.                                          *)
GateFollowsMotion ==
    \A c \in Cameras : config[c].gated =>
      \A k \in DOMAIN judged[c] :
        judged[c][k].passed <=>
          \/ k <= WarmUp
          \/ \E j \in (WarmUp + 1)..k :
               judged[c][j].moved /\ (j = k \/ judged[c][k].at - judged[c][j].at < Cooldown)

(* "Slowing/stopping vehicles are not cut off mid-read": of EveryN frames  *)
(* that follow a movement within the cooldown, one is submitted.           *)
MotionReachesAlpr ==
    \A c \in Cameras : \A j \in DOMAIN judged[c] :
      LET last == j + EveryN - 1 IN
      /\ judged[c][j].moved /\ j > WarmUp
      /\ last <= Len(judged[c]) /\ judged[c][last].at - judged[c][j].at < Cooldown
      => \E k \in j..last : judged[c][k].job
=============================================================================
