------------------------- MODULE AlprPipelineProofs -------------------------
(***************************************************************************)
(* Theorems about AlprPipeline for any number of cameras and workers, any  *)
(* capacity and any number of frames.                                      *)
(***************************************************************************)
EXTENDS AlprPipeline, CommonLemmas

(* TypeOK in the pieces that the steps change together. *)
CaptureTypes ==
    /\ activeCaptures \in 0..NumCameras
    /\ capture \in [Cameras -> CaptureStates]
    /\ counter \in [Cameras -> Nat]
    /\ alprDropped \in [Cameras -> Nat]
    /\ offered \subseteq Jobs /\ swallowed \subseteq Jobs

QueueTypes == alprQueue \in Seq(Jobs) /\ Len(alprQueue) <= Cap /\ closed \in BOOLEAN

WorkerTypes ==
    /\ fatalError \in BOOLEAN
    /\ worker \in [Workers -> WorkerStates]
    /\ job \in [Workers -> Jobs \cup {None}]
    /\ recognized \subseteq Jobs

MainTypes ==
    /\ main \in MainStates
    /\ next \in 1..(NumCameras + 1)
    /\ finals \subseteq Tracks
    /\ current \in Tracks \cup {None}
    /\ click \in (Cameras \X BOOLEAN) \cup {None}

PlateTypes ==
    /\ recentPlates \in Seq(Tracks) /\ Len(recentPlates) <= MaxPlates
    /\ log \in Seq(Tracks)
    /\ sent \subseteq Tracks

SharedTypes ==
    /\ stop \in BOOLEAN
    /\ alprEnabled \in [Cameras -> BOOLEAN]
    /\ tracks \in [Cameras -> SUBSET Tracks]
    /\ uplink \in {"none", "up", "detached", "stopped"}
    /\ api \in {"on", "off"}

LEMMA TypeParts ==
  /\ TypeOK <=> CaptureTypes /\ QueueTypes /\ WorkerTypes /\ MainTypes /\ PlateTypes /\ SharedTypes
  /\ TypeOK' <=> CaptureTypes' /\ QueueTypes' /\ WorkerTypes' /\ MainTypes' /\ PlateTypes'
                 /\ SharedTypes'
BY DEF TypeOK, CaptureTypes, QueueTypes, WorkerTypes, MainTypes, PlateTypes, SharedTypes

(* A part is kept by a step that leaves its variables alone. *)
LEMMA Untouched ==
  /\ CaptureTypes /\ UNCHANGED captureVars => CaptureTypes'
  /\ QueueTypes /\ UNCHANGED queueVars => QueueTypes'
  /\ WorkerTypes /\ UNCHANGED workerVars => WorkerTypes'
  /\ MainTypes /\ UNCHANGED mainVars => MainTypes'
  /\ PlateTypes /\ UNCHANGED plateVars => PlateTypes'
  /\ SharedTypes /\ UNCHANGED <<stop, linkVars, alprEnabled, tracks>> => SharedTypes'
BY DEF CaptureTypes, QueueTypes, WorkerTypes, MainTypes, PlateTypes, SharedTypes,
       captureVars, pushVars, queueVars, workerVars, mainVars, plateVars, linkVars

(* The capture threads that still count. *)
Inside == {c \in Cameras : capture[c] \notin {"last", "done"}}

(* activeCaptures counts the capture threads inside - the leaked ones      *)
(* included - from before the first is started; a thread about to push has *)
(* counted a frame; and the thread that closes the queue is the last.      *)
Captures ==
    /\ main = "start" => activeCaptures = 0 /\ next = 1
    /\ main \in {"start", "launch"} => \A c \in Cameras : c >= next => capture[c] = "unborn"
    /\ main # "start" => activeCaptures = Cardinality(Inside)
    /\ \A c \in Cameras : capture[c] = "last" => \A d \in Cameras \ {c} : capture[d] = "done"
    /\ \A c \in Cameras : capture[c] = "push" => counter[c] > 0

JobsInHand == \A w \in Workers : worker[w] \in {"work", "report", "record"} => job[w] \in Jobs

LEMMA CamerasFinite ==
  /\ IsFiniteSet(Cameras) /\ Cardinality(Cameras) = NumCameras
  /\ \A S \in SUBSET Cameras : IsFiniteSet(S) /\ Cardinality(S) \in 0..NumCameras
<1>1. NumCameras \in Nat
  BY PipelineAssumption
<1>2. IsFiniteSet(Cameras) /\ Cardinality(Cameras) = NumCameras
  BY <1>1, FS_Interval DEF Cameras
<1>3. ASSUME NEW S \in SUBSET Cameras PROVE IsFiniteSet(S) /\ Cardinality(S) \in 0..NumCameras
  BY <1>1, <1>2, FS_Subset, FS_CardinalityType
<1> QED BY <1>2, <1>3

(* The threads inside, as one moves within or leaves. *)
LEMMA InsideStep ==
  ASSUME CaptureTypes, NEW c \in Cameras, NEW there \in CaptureStates,
         capture' = [capture EXCEPT ![c] = there], capture[c] \notin {"last", "done"}
  PROVE  /\ there \notin {"last", "done"} => Inside' = Inside
         /\ there \in {"last", "done"}
              => Inside' = Inside \ {c} /\ Cardinality(Inside') = Cardinality(Inside) - 1
         /\ Cardinality(Inside) \in 1..NumCameras
         /\ capture' \in [Cameras -> CaptureStates]
         /\ Cardinality(Inside) = 1 => Inside = {c}
<1>1. /\ c \in Inside /\ Inside \in SUBSET Cameras /\ IsFiniteSet(Inside)
      /\ Cardinality(Inside) \in 0..NumCameras
  BY CamerasFinite DEF Inside
<1>2. Cardinality(Inside \ {c}) = Cardinality(Inside) - 1 /\ IsFiniteSet(Inside \ {c})
      /\ Cardinality(Inside \ {c}) \in Nat
  BY <1>1, FS_RemoveElement, FS_CardinalityType
<1>3. Cardinality(Inside) \in 1..NumCameras
  BY <1>1, <1>2
<1>4. \A d \in Cameras : capture'[d] = IF d = c THEN there ELSE capture[d]
  BY DEF CaptureTypes
<1>5. there \notin {"last", "done"} => Inside' = Inside
  BY <1>4 DEF Inside
<1>6. there \in {"last", "done"} => Inside' = Inside \ {c}
  BY <1>4 DEF Inside
<1>7. Cardinality(Inside) = 1 => Inside = {c}
  <2>1. Cardinality(Inside) = 1 => Inside \ {c} = {}
    BY <1>2, FS_EmptySet
  <2> QED BY <1>1, <2>1
<1> QED BY <1>2, <1>3, <1>5, <1>6, <1>7 DEF CaptureTypes

-----------------------------------------------------------------------------
(* Capture threads.                                                        *)

(* A capture thread that moves without leaving. *)
LEMMA MovesInside ==
  ASSUME CaptureTypes, Captures, NEW c \in Cameras, NEW here, NEW there \in CaptureStates,
         here \notin {"unborn", "last", "done"}, there \notin {"last", "done"},
         CaptureGoto(c, here, there), UNCHANGED <<main, next, activeCaptures>>,
         there = "push" => counter'[c] > 0,
         \A d \in Cameras \ {c} : counter'[d] = counter[d]
  PROVE  capture' \in [Cameras -> CaptureStates] /\ Captures'
<1>1. capture' = [capture EXCEPT ![c] = there] /\ capture[c] = here
  BY DEF CaptureGoto
<1>2. capture' \in [Cameras -> CaptureStates] /\ Inside' = Inside
  BY <1>1, InsideStep
<1>3. \A d \in Cameras : capture'[d] = IF d = c THEN there ELSE capture[d]
  BY <1>1 DEF CaptureTypes
<1>4. /\ main # "start"
      /\ main = "launch" => \A d \in Cameras : d >= next => capture'[d] = "unborn"
  <2>1. main = "start" => c >= next
    BY PipelineAssumption DEF Captures, Cameras
  <2> QED BY <1>1, <1>3, <2>1 DEF Captures
<1>5. activeCaptures' = Cardinality(Inside') /\ main' # "start"
  BY <1>2, <1>4 DEF Captures
<1>6. \A d \in Cameras : capture'[d] = "last" => \A e \in Cameras \ {d} : capture'[e] = "done"
  <2>1. \A d \in Cameras : capture[d] # "last"
    BY <1>1 DEF Captures
  <2> QED BY <1>3, <2>1
<1>7. \A d \in Cameras : capture'[d] = "push" => counter'[d] > 0
  <2>1. \A d \in Cameras : d # c => capture'[d] = capture[d] /\ counter'[d] = counter[d]
    BY <1>3
  <2>2. capture'[c] = "push" => counter'[c] > 0
    BY <1>3
  <2> QED BY <2>1, <2>2 DEF Captures
<1> QED BY <1>2, <1>4, <1>5, <1>6, <1>7 DEF Captures

(* A capture thread that leaves, or that closes the queue and is done. *)
LEMMA Leaves ==
  ASSUME CaptureTypes, Captures, NEW c \in Cameras, LeaveCapture(c),
         UNCHANGED <<main, next, counter>>
  PROVE  /\ capture' \in [Cameras -> CaptureStates] /\ activeCaptures' \in 0..NumCameras
         /\ Captures'
<1> DEFINE there == IF LastOut THEN "last" ELSE "done"
<1>1. /\ capture' = [capture EXCEPT ![c] = there] /\ capture[c] = "exit"
      /\ activeCaptures' = activeCaptures - 1
      /\ there \in {"last", "done"} /\ there \in CaptureStates
  BY DEF LeaveCapture, CaptureGoto, CaptureStates
<1> HIDE DEF there
<1>2. main # "start" /\ activeCaptures = Cardinality(Inside)
  <2>1. main = "start" => c >= next
    BY PipelineAssumption DEF Captures, Cameras
  <2> QED BY <1>1, <2>1 DEF Captures
<1>3. /\ capture' \in [Cameras -> CaptureStates]
      /\ Cardinality(Inside') = Cardinality(Inside) - 1 /\ Cardinality(Inside) \in 1..NumCameras
      /\ Cardinality(Inside) = 1 => Inside = {c}
  BY <1>1, InsideStep
<1>4. \A d \in Cameras : capture'[d] = IF d = c THEN there ELSE capture[d]
  BY <1>1 DEF CaptureTypes
<1>5. activeCaptures' \in 0..NumCameras /\ activeCaptures' = Cardinality(Inside')
  <2>1. NumCameras \in Nat
    BY PipelineAssumption
  <2> QED BY <1>1, <1>2, <1>3, <2>1
<1>6. \A d \in Cameras : capture[d] # "last"
  BY <1>1 DEF Captures
<1>7. there = "last" => \A d \in Cameras \ {c} : capture[d] = "done"
  <2>1. there = "last" => activeCaptures = 1
    BY DEF there, LastOut
  <2> QED BY <1>2, <1>3, <1>6, <2>1 DEF Inside
<1>8. \A d \in Cameras : capture'[d] = "last" => \A e \in Cameras \ {d} : capture'[e] = "done"
  BY <1>4, <1>6, <1>7
<1>9. main = "launch" => \A d \in Cameras : d >= next => capture'[d] = "unborn"
  BY <1>1, <1>4 DEF Captures
<1>10. \A d \in Cameras : capture'[d] = "push" => counter'[d] > 0
  BY <1>1, <1>4 DEF Captures
<1> QED BY <1>2, <1>3, <1>5, <1>8, <1>9, <1>10 DEF Captures

LEMMA LastCloses ==
  ASSUME CaptureTypes, Captures, NEW c \in Cameras, LastCaptureCloses(c),
         UNCHANGED <<main, next, counter, activeCaptures>>
  PROVE  /\ capture' \in [Cameras -> CaptureStates] /\ Captures'
         /\ \A d \in Cameras : capture'[d] = "done"
<1>1. capture' = [capture EXCEPT ![c] = "done"] /\ capture[c] = "last"
  BY DEF LastCaptureCloses, CaptureGoto
<1>2. capture' \in [Cameras -> CaptureStates]
  BY <1>1 DEF CaptureTypes, CaptureStates
<1>3. \A d \in Cameras : capture'[d] = IF d = c THEN "done" ELSE capture[d]
  BY <1>1 DEF CaptureTypes
<1>4. Inside' = Inside /\ main # "start"
  <2>1. main = "start" => c >= next
    BY PipelineAssumption DEF Captures, Cameras
  <2> QED BY <1>1, <1>3, <2>1 DEF Inside, Captures
<1>5. \A d \in Cameras : capture'[d] = "done"
  BY <1>1, <1>3 DEF Captures
<1>6. main = "launch" => \A d \in Cameras : d >= next => capture'[d] = "unborn"
  BY <1>1, <1>3 DEF Captures
<1> QED BY <1>2, <1>4, <1>5, <1>6 DEF Captures

(* The queue is closed by the last capture thread or during shutdown. *)
StopFirst ==
    main \in {"close_queue", "join_captures", "join_workers", "flush", "detach",
              "stop_uplink", "stop_api", "done"} => stop

(* Every step of a capture thread. *)
LEMMA CaptureStepKeeps ==
  ASSUME TypeOK, Captures, ClosedOnlyWhenDone, NEW c \in Cameras, CaptureStep(c)
  PROVE  CaptureTypes' /\ QueueTypes' /\ Captures' /\ ClosedOnlyWhenDone'
<1>1. CaptureTypes /\ QueueTypes /\ UNCHANGED <<main, next>> /\ stop' = stop
  BY TypeParts DEF CaptureStep, mainVars
<1>2. CASE /\ CreateFails(c) \/ OpenSource(c) \/ CloseSource(c)
           /\ UNCHANGED <<activeCaptures, counter, pushVars, queueVars>>
  <2>1. UNCHANGED <<activeCaptures, counter, alprDropped, offered, swallowed, alprQueue, closed>>
    BY <1>2 DEF pushVars, queueVars
  <2>2. \E here \in {"outer", "inner"} : \E there \in {"outer", "inner", "exit", "leaked"} :
          CaptureGoto(c, here, there)
    BY <1>2 DEF CreateFails, OpenSource, CloseSource
  <2>3. PICK here \in {"outer", "inner"}, there \in {"outer", "inner", "exit", "leaked"} :
          CaptureGoto(c, here, there)
    BY <2>2
  <2>4. there \in CaptureStates
    BY DEF CaptureStates
  <2>5. capture' \in [Cameras -> CaptureStates] /\ Captures'
    BY <1>1, <2>1, <2>3, <2>4, MovesInside
  <2>6. CaptureTypes' /\ QueueTypes'
    BY <1>1, <2>1, <2>5 DEF CaptureTypes, QueueTypes
  <2>7. capture[c] # "done"
    BY <2>3 DEF CaptureGoto
  <2> QED BY <1>1, <2>1, <2>5, <2>6, <2>7 DEF ClosedOnlyWhenDone
<1>3. CASE NextFrame(c) /\ UNCHANGED <<activeCaptures, pushVars, queueVars>>
  <2>1. UNCHANGED <<activeCaptures, alprDropped, offered, swallowed, alprQueue, closed>>
    BY <1>3 DEF pushVars, queueVars
  <2>2. /\ counter' \in [Cameras -> Nat] /\ counter'[c] > 0
        /\ \A d \in Cameras \ {c} : counter'[d] = counter[d]
    BY <1>1, <1>3 DEF NextFrame, CaptureTypes
  <2>3. PICK there \in {"push", "inner"} : CaptureGoto(c, "inner", there)
    BY <1>3 DEF NextFrame
  <2>4. there \in CaptureStates
    BY DEF CaptureStates
  <2>5. capture' \in [Cameras -> CaptureStates] /\ Captures'
    BY <1>1, <2>1, <2>2, <2>3, <2>4, MovesInside
  <2>6. CaptureTypes' /\ QueueTypes'
    BY <1>1, <2>1, <2>2, <2>5 DEF CaptureTypes, QueueTypes
  <2>7. capture[c] # "done"
    BY <2>3 DEF CaptureGoto
  <2> QED BY <1>1, <2>1, <2>5, <2>6, <2>7 DEF ClosedOnlyWhenDone
<1>4. CASE PushJob(c) /\ UNCHANGED <<activeCaptures, counter, alprDropped, closed>>
  <2> DEFINE new == <<c, counter[c]>>
  <2>1. PICK there \in {"count", "count_drop"} : CaptureGoto(c, "push", there)
    BY <1>4 DEF PushJob
  <2>2. there \in CaptureStates
    BY DEF CaptureStates
  <2>3. capture' \in [Cameras -> CaptureStates] /\ Captures'
    BY <1>1, <1>4, <2>1, <2>2, MovesInside
  <2>4. new \in Jobs /\ capture[c] = "push"
    BY <1>1, <2>1 DEF CaptureGoto, Captures, CaptureTypes, Jobs
  <2>5. /\ offered' = offered \cup {new}
        /\ \/ closed /\ swallowed' = swallowed \cup {new} /\ UNCHANGED alprQueue
           \/ ~closed /\ alprQueue' = PushDropOldest(alprQueue, new, Cap) /\ UNCHANGED swallowed
    BY <1>4 DEF PushJob
  <2> HIDE DEF new
  <2>6. CaptureTypes'
    BY <1>1, <1>4, <2>3, <2>4, <2>5 DEF CaptureTypes
  <2>7. PushDropOldest(alprQueue, new, Cap) \in Seq(Jobs)
        /\ Len(PushDropOldest(alprQueue, new, Cap)) <= Cap
    <3>1. Cap \in Nat \ {0}
      BY PipelineAssumption DEF Cap
    <3> QED BY <1>1, <2>4, <3>1, PushDropOldestBounded DEF QueueTypes
  <2>8. QueueTypes'
    BY <1>1, <1>4, <2>5, <2>7 DEF QueueTypes
  <2>9. closed => stop
    BY <2>4 DEF ClosedOnlyWhenDone
  <2> QED BY <1>1, <1>4, <2>3, <2>5, <2>6, <2>8, <2>9 DEF ClosedOnlyWhenDone
<1>5. CASE CountJob(c) /\ UNCHANGED <<activeCaptures, counter, offered, swallowed, queueVars>>
  <2>1. UNCHANGED <<alprQueue, closed>>
    BY <1>5 DEF queueVars
  <2>2. PICK here \in {"count", "count_drop"} : CaptureGoto(c, here, "inner")
    BY <1>5 DEF CountJob
  <2>3. capture' \in [Cameras -> CaptureStates] /\ Captures'
    <3>1. "inner" \in CaptureStates
      BY DEF CaptureStates
    <3> QED BY <1>1, <1>5, <2>2, <3>1, MovesInside
  <2>4. alprDropped' \in [Cameras -> Nat]
    BY <1>1, <1>5 DEF CountJob, CaptureTypes
  <2>5. CaptureTypes' /\ QueueTypes'
    BY <1>1, <1>5, <2>1, <2>3, <2>4 DEF CaptureTypes, QueueTypes
  <2>6. capture[c] # "done"
    BY <2>2 DEF CaptureGoto
  <2> QED BY <1>1, <1>5, <2>1, <2>3, <2>5, <2>6 DEF ClosedOnlyWhenDone
<1>6. CASE LeaveCapture(c) /\ UNCHANGED <<counter, pushVars, queueVars>>
  <2>1. UNCHANGED <<counter, alprDropped, offered, swallowed, alprQueue, closed>>
    BY <1>6 DEF pushVars, queueVars
  <2>2. /\ capture' \in [Cameras -> CaptureStates] /\ activeCaptures' \in 0..NumCameras
        /\ Captures'
    BY <1>1, <1>6, Leaves
  <2>3. CaptureTypes' /\ QueueTypes'
    BY <1>1, <2>1, <2>2 DEF CaptureTypes, QueueTypes
  <2>4. capture[c] # "done"
    BY <1>6 DEF LeaveCapture, CaptureGoto
  <2> QED BY <1>1, <2>1, <2>2, <2>3, <2>4 DEF ClosedOnlyWhenDone
<1>7. CASE LastCaptureCloses(c) /\ UNCHANGED <<activeCaptures, counter, pushVars, alprQueue>>
  <2>1. UNCHANGED <<counter, alprDropped, offered, swallowed, alprQueue>> /\ closed' = TRUE
    BY <1>7 DEF pushVars, LastCaptureCloses
  <2>2. /\ capture' \in [Cameras -> CaptureStates] /\ Captures'
        /\ \A d \in Cameras : capture'[d] = "done"
    BY <1>1, <1>7, LastCloses
  <2>3. CaptureTypes' /\ QueueTypes'
    BY <1>1, <1>7, <2>1, <2>2 DEF CaptureTypes, QueueTypes
  <2> QED BY <1>1, <2>1, <2>2, <2>3 DEF ClosedOnlyWhenDone
<1> QED BY <1>2, <1>3, <1>4, <1>5, <1>6, <1>7 DEF CaptureStep

-----------------------------------------------------------------------------
(* Reports, and the workers.                                               *)

LEMMA CountAndSendKeeps ==
  ASSUME PlateTypes, NEW report \in Tracks, CountAndSend(report)
  PROVE  PlateTypes'
<1>1. log' \in Seq(Tracks)
  BY AppendProperties DEF CountAndSend, PlateTypes
<1> QED BY <1>1 DEF CountAndSend, PlateTypes

LEMMA RecordKeeps ==
  ASSUME PlateTypes, NEW report \in Tracks, Record(report)
  PROVE  PlateTypes'
<1> DEFINE ring == <<report>> \o recentPlates
<1>1. /\ ring \in Seq(Tracks) /\ Len(ring) \in Nat
      /\ Len(ring) = Len(recentPlates) + 1
  <2>1. <<report>> \in Seq(Tracks) /\ Len(<<report>>) = 1 /\ recentPlates \in Seq(Tracks)
        /\ Len(recentPlates) \in Nat
    BY LenProperties DEF PlateTypes
  <2> QED BY <2>1, ConcatProperties, LenProperties
<1> HIDE DEF ring
<1>2. MaxPlates \in Nat \ {0}
  BY PipelineAssumption
<1>3. CASE Len(ring) > MaxPlates
  <2>1. \A i \in 1..MaxPlates : ring[i] \in Tracks
    BY <1>1, <1>2, <1>3, ElementOfSeq
  <2>2. SubSeq(ring, 1, MaxPlates) \in Seq(Tracks) /\ Len(SubSeq(ring, 1, MaxPlates)) = MaxPlates
    BY <1>2, <2>1, SubSeqProperties
  <2>3. recentPlates' = SubSeq(ring, 1, MaxPlates)
    BY <1>3 DEF Record, Trimmed, ring
  <2> QED BY <1>2, <2>2, <2>3 DEF Record, PlateTypes
<1>4. CASE ~(Len(ring) > MaxPlates)
  <2>1. recentPlates' = ring
    BY <1>4 DEF Record, Trimmed, ring
  <2> QED BY <1>1, <1>2, <1>4, <2>1 DEF Record, PlateTypes
<1> QED BY <1>3, <1>4

(* A worker that goes somewhere with the job it has, or without one. *)
LEMMA WorkerMoves ==
  ASSUME WorkerTypes, JobsInHand, NEW w \in Workers, NEW here, NEW there \in WorkerStates,
         WorkerGoto(w, here, there),
         \/ job' = job /\ (there \in {"work", "report", "record"}
                             => here \in {"work", "report", "record"})
         \/ Release(w) /\ there \notin {"work", "report", "record"}
  PROVE  /\ worker' \in [Workers -> WorkerStates] /\ job' \in [Workers -> Jobs \cup {None}]
         /\ JobsInHand'
<1>1. worker' = [worker EXCEPT ![w] = there] /\ worker[w] = here
  BY DEF WorkerGoto
<1>2. job' \in [Workers -> Jobs \cup {None}] /\ \A v \in Workers \ {w} : job'[v] = job[v]
  BY DEF Release, WorkerTypes
<1>3. worker' \in [Workers -> WorkerStates]
      /\ \A v \in Workers : worker'[v] = IF v = w THEN there ELSE worker[v]
  BY <1>1 DEF WorkerTypes
<1>4. there \in {"work", "report", "record"} => job'[w] \in Jobs
  BY <1>1 DEF JobsInHand
<1> QED BY <1>2, <1>3, <1>4 DEF JobsInHand

LEMMA WaitPopKeeps ==
  ASSUME WorkerTypes, QueueTypes, JobsInHand, NEW w \in Workers, WaitPop(w),
         UNCHANGED <<fatalError, recognized, closed>>
  PROVE  WorkerTypes' /\ QueueTypes' /\ JobsInHand'
<1>1. CASE alprQueue = <<>> /\ WorkerGoto(w, "pop", "check") /\ UNCHANGED <<job, alprQueue>>
  <2>1. "check" \in WorkerStates
    BY DEF WorkerStates
  <2>2. /\ worker' \in [Workers -> WorkerStates] /\ job' \in [Workers -> Jobs \cup {None}]
        /\ JobsInHand'
    BY <1>1, <2>1, WorkerMoves
  <2> QED BY <1>1, <2>2 DEF WorkerTypes, QueueTypes
<1>2. CASE /\ alprQueue # <<>> /\ job' = [job EXCEPT ![w] = Head(alprQueue)]
           /\ alprQueue' = Pop(alprQueue) /\ WorkerGoto(w, "pop", "work")
  <2>1. /\ Head(alprQueue) \in Jobs /\ alprQueue' \in Seq(Jobs)
        /\ Len(alprQueue') = Len(alprQueue) - 1 /\ Len(alprQueue) \in Nat
    BY <1>2, HeadTailProperties, LenProperties DEF QueueTypes, Pop
  <2>2. Len(alprQueue') <= Cap
    <3>1. Cap \in Nat
      BY PipelineAssumption DEF Cap
    <3> QED BY <2>1, <3>1 DEF QueueTypes
  <2>3. /\ worker' \in [Workers -> WorkerStates] /\ job' \in [Workers -> Jobs \cup {None}]
        /\ \A v \in Workers : worker'[v] = IF v = w THEN "work" ELSE worker[v]
        /\ \A v \in Workers : job'[v] = IF v = w THEN Head(alprQueue) ELSE job[v]
    BY <1>2, <2>1 DEF WorkerGoto, WorkerTypes, WorkerStates
  <2>4. JobsInHand'
    BY <2>1, <2>3 DEF JobsInHand
  <2> QED BY <2>1, <2>2, <2>3, <2>4 DEF WorkerTypes, QueueTypes
<1> QED BY <1>1, <1>2 DEF WaitPop

LEMMA RecognizeKeeps ==
  ASSUME WorkerTypes, SharedTypes, JobsInHand, NEW w \in Workers, Recognize(w),
         UNCHANGED <<stop, fatalError, linkVars, alprEnabled>>
  PROVE  WorkerTypes' /\ SharedTypes' /\ JobsInHand'
<1>1. worker[w] = "work" /\ job[w] \in Jobs
  BY DEF Recognize, WorkerGoto, JobsInHand
<1>2. PICK there \in {"loop", "report"} : /\ WorkerGoto(w, "work", there)
                                          /\ \/ job' = job
                                             \/ Release(w) /\ there = "loop"
  BY DEF Recognize
<1>3. there \in WorkerStates
  BY DEF WorkerStates
<1>4. /\ worker' \in [Workers -> WorkerStates] /\ job' \in [Workers -> Jobs \cup {None}]
      /\ JobsInHand'
  BY <1>2, <1>3, WorkerMoves
<1>5. WorkerTypes'
  BY <1>1, <1>4 DEF Recognize, WorkerTypes
<1>6. tracks' \in [Cameras -> SUBSET Tracks]
  <2>1. CASE UNCHANGED tracks
    BY <2>1 DEF SharedTypes
  <2>2. CASE AddReading(job[w][1], job[w])
    <3> DEFINE c == job[w][1]
               r == job[w]
    <3>1. c \in Cameras /\ {r} \in Tracks
      BY <1>1 DEF Jobs, Tracks
    <3>2. \A t \in tracks[c] : t \cup {r} \in Tracks
      BY <3>1 DEF SharedTypes, Tracks
    <3>3. tracks[c] \subseteq Tracks
      BY <3>1 DEF SharedTypes
    <3> HIDE DEF c, r
    <3>4. CASE tracks' = [tracks EXCEPT ![c] = @ \cup {{r}}]
      BY <3>1, <3>3, <3>4 DEF SharedTypes
    <3>5. ASSUME NEW t \in tracks[c], tracks' = [tracks EXCEPT ![c] = (@ \ {t}) \cup {t \cup {r}}]
          PROVE  tracks' \in [Cameras -> SUBSET Tracks]
      BY <3>1, <3>2, <3>3, <3>5 DEF SharedTypes
    <3> QED BY <2>2, <3>4, <3>5 DEF AddReading, c, r
  <2> QED BY <2>1, <2>2 DEF Recognize
<1> QED BY <1>4, <1>5, <1>6 DEF SharedTypes, linkVars

(* Every step of a worker. *)
LEMMA WorkerStepKeeps ==
  ASSUME TypeOK, JobsInHand, NEW w \in Workers, WorkerStep(w)
  PROVE  TypeOK' /\ JobsInHand' /\ (stop => stop')
<1>1. /\ CaptureTypes /\ QueueTypes /\ WorkerTypes /\ MainTypes /\ PlateTypes /\ SharedTypes
      /\ UNCHANGED captureVars /\ UNCHANGED mainVars
      /\ UNCHANGED <<closed, linkVars, alprEnabled>>
  BY TypeParts DEF WorkerStep
<1>2. CaptureTypes' /\ MainTypes'
  BY <1>1, Untouched
<1>3. CASE InitWorker(w) /\ UNCHANGED <<job, recognized, alprQueue, tracks, plateVars>>
  <2>1. QueueTypes' /\ PlateTypes'
    BY <1>1, <1>3, Untouched DEF queueVars
  <2>2. PICK there \in {"loop", "done"} : WorkerGoto(w, "init", there)
    BY <1>3 DEF InitWorker
  <2>3. there \in WorkerStates
    BY DEF WorkerStates
  <2>4. /\ worker' \in [Workers -> WorkerStates] /\ job' \in [Workers -> Jobs \cup {None}]
        /\ JobsInHand'
    BY <1>1, <1>3, <2>2, <2>3, WorkerMoves
  <2>5. WorkerTypes' /\ SharedTypes' /\ (stop => stop')
    BY <1>1, <1>3, <2>4 DEF InitWorker, WorkerTypes, SharedTypes, linkVars
  <2> QED BY <1>2, <2>1, <2>4, <2>5, TypeParts
<1>4. CASE /\ TestStop(w) \/ CheckClosed(w)
           /\ UNCHANGED <<stop, fatalError, job, recognized, alprQueue, tracks, plateVars>>
  <2>1. QueueTypes' /\ PlateTypes' /\ SharedTypes'
    BY <1>1, <1>4, Untouched DEF queueVars
  <2>2. PICK here \in {"loop", "check"}, there \in {"loop", "pop", "done"} :
          WorkerGoto(w, here, there)
    BY <1>4 DEF TestStop, CheckClosed
  <2>3. there \in WorkerStates
    BY DEF WorkerStates
  <2>4. /\ worker' \in [Workers -> WorkerStates] /\ job' \in [Workers -> Jobs \cup {None}]
        /\ JobsInHand'
    BY <1>1, <1>4, <2>2, <2>3, WorkerMoves
  <2>5. WorkerTypes' /\ stop' = stop
    BY <1>1, <1>4, <2>4 DEF WorkerTypes
  <2> QED BY <1>2, <2>1, <2>4, <2>5, TypeParts
<1>5. CASE WaitPop(w) /\ UNCHANGED <<stop, fatalError, recognized, tracks, plateVars>>
  <2>1. PlateTypes' /\ SharedTypes' /\ stop' = stop
    BY <1>1, <1>5, Untouched
  <2>2. WorkerTypes' /\ QueueTypes' /\ JobsInHand'
    BY <1>1, <1>5, WaitPopKeeps
  <2> QED BY <1>2, <2>1, <2>2, TypeParts
<1>6. CASE Recognize(w) /\ UNCHANGED <<stop, fatalError, alprQueue, plateVars>>
  <2>1. PlateTypes' /\ QueueTypes' /\ stop' = stop
    BY <1>1, <1>6, Untouched DEF queueVars
  <2>2. WorkerTypes' /\ SharedTypes' /\ JobsInHand'
    BY <1>1, <1>6, RecognizeKeeps
  <2> QED BY <1>2, <2>1, <2>2, TypeParts
<1>7. CASE /\ WorkerReports(w) \/ WorkerRecords(w)
           /\ UNCHANGED <<stop, fatalError, recognized, alprQueue, tracks>>
  <2>1. QueueTypes' /\ SharedTypes' /\ stop' = stop
    BY <1>1, <1>7, Untouched DEF queueVars
  <2>2. worker[w] \in {"report", "record"}
    BY <1>7 DEF WorkerReports, WorkerRecords, WorkerGoto
  <2>3. {job[w]} \in Tracks
    BY <2>2 DEF JobsInHand, Tracks
  <2>4. PlateTypes'
    BY <1>1, <1>7, <2>3, CountAndSendKeeps, RecordKeeps DEF WorkerReports, WorkerRecords
  <2>5. PICK here \in {"report", "record"}, there \in {"record", "loop"} :
          /\ WorkerGoto(w, here, there)
          /\ \/ job' = job
             \/ Release(w) /\ there = "loop"
    BY <1>7 DEF WorkerReports, WorkerRecords, AfterReport
  <2>6. there \in WorkerStates
    BY DEF WorkerStates
  <2>7. /\ worker' \in [Workers -> WorkerStates] /\ job' \in [Workers -> Jobs \cup {None}]
        /\ JobsInHand'
    BY <1>1, <2>5, <2>6, WorkerMoves
  <2>8. WorkerTypes'
    BY <1>1, <1>7, <2>7 DEF WorkerTypes
  <2> QED BY <1>2, <2>1, <2>4, <2>7, <2>8, TypeParts
<1> QED BY <1>3, <1>4, <1>5, <1>6, <1>7 DEF WorkerStep

-----------------------------------------------------------------------------
(* The main thread and the users.                                          *)

(* Starting the threads. *)
LEMMA StartKeeps ==
  ASSUME TypeOK, Captures, ClosedOnlyWhenDone, Start \/ LaunchCapture \/ StartApi,
         UNCHANGED <<counter, stop, closed, swallowed>>
  PROVE  /\ capture' \in [Cameras -> CaptureStates] /\ activeCaptures' \in 0..NumCameras
         /\ worker' \in [Workers -> WorkerStates]
         /\ main' \in {"launch", "loop"} /\ next' \in 1..(NumCameras + 1)
         /\ uplink' \in {"none", "up", "detached", "stopped"} /\ api' \in {"on", "off"}
         /\ Captures' /\ ClosedOnlyWhenDone'
         /\ \A w \in Workers : worker'[w] = worker[w] \/ worker'[w] = "init"
<1>0. NumCameras \in Nat \ {0} /\ 1 \in Cameras /\ Cameras \subseteq Nat
  BY PipelineAssumption DEF Cameras
<1>1. CASE Start
  <2>1. /\ main = "start" /\ main' = "launch" /\ activeCaptures' = NumCameras
        /\ worker' = [w \in Workers |-> "init"] /\ UNCHANGED <<capture, next, api>>
        /\ uplink' \in {"none", "up"}
    BY <1>1 DEF Start, MainGoto
  <2>2. next = 1 /\ \A c \in Cameras : capture[c] = "unborn"
    BY <1>0, <2>1 DEF Captures, Cameras
  <2>3. Inside' = Cameras
    BY <2>1, <2>2 DEF Inside
  <2>4. activeCaptures' = Cardinality(Inside') /\ activeCaptures' \in 0..NumCameras
    BY <1>0, <2>1, <2>3, CamerasFinite
  <2>5. Captures'
    BY <2>1, <2>2, <2>4 DEF Captures
  <2>6. ClosedOnlyWhenDone'
    BY <2>1 DEF ClosedOnlyWhenDone
  <2> QED BY <1>0, <2>1, <2>2, <2>4, <2>5, <2>6 DEF TypeOK, WorkerStates, MainStates
<1>2. CASE LaunchCapture
  <2>1. /\ main = "launch" /\ next \in Cameras /\ next' = next + 1
        /\ capture' = [capture EXCEPT ![next] = "outer"]
        /\ UNCHANGED <<main, uplink, worker, activeCaptures, api>>
    BY <1>2 DEF LaunchCapture
  <2>2. capture[next] = "unborn" /\ next >= next
    BY <1>0, <2>1 DEF Captures
  <2>3. \A c \in Cameras : capture'[c] = IF c = next THEN "outer" ELSE capture[c]
    BY <2>1 DEF TypeOK
  <2>4. Inside' = Inside
    BY <2>2, <2>3 DEF Inside
  <2>5. \A c \in Cameras : capture'[c] = "last" => \A d \in Cameras \ {c} : capture'[d] = "done"
    BY <2>1, <2>2, <2>3 DEF Captures
  <2>6. \A c \in Cameras : c >= next' => capture'[c] = "unborn"
    <3> SUFFICES ASSUME NEW c \in Cameras, c >= next' PROVE capture'[c] = "unborn"
      OBVIOUS
    <3>1. c >= next /\ c # next
      BY <1>0, <2>1
    <3> QED BY <2>1, <2>3, <3>1 DEF Captures
  <2>7. Captures'
    BY <2>1, <2>3, <2>4, <2>5, <2>6 DEF Captures
  <2>8. ClosedOnlyWhenDone'
    BY <2>1, <2>2 DEF ClosedOnlyWhenDone
  <2>9. capture' \in [Cameras -> CaptureStates] /\ next' \in 1..(NumCameras + 1)
    BY <1>0, <2>1 DEF TypeOK, CaptureStates, Cameras
  <2> QED BY <2>1, <2>7, <2>8, <2>9 DEF TypeOK
<1>3. CASE StartApi
  <2>1. UNCHANGED <<capture, next, uplink, worker, activeCaptures>> /\ main' = "loop"
        /\ main = "launch" /\ api' \in {"on", "off"}
    BY <1>3 DEF StartApi, MainGoto
  <2>2. Captures' /\ ClosedOnlyWhenDone'
    BY <2>1 DEF Captures, Inside, ClosedOnlyWhenDone
  <2> QED BY <2>1, <2>2 DEF TypeOK
<1> QED BY <1>1, <1>2, <1>3

(* When main and next move on among the states after the launch. *)
LEMMA CapturesIgnoreMain ==
  ASSUME Captures, UNCHANGED <<capture, counter, activeCaptures>>,
         \/ UNCHANGED <<main, next>>
         \/ main \notin {"start", "launch"} /\ main' \notin {"start", "launch"}
  PROVE  Captures'
<1>1. Inside' = Inside
  BY DEF Inside
<1> QED BY <1>1 DEF Captures

(* Collecting and reporting. *)
LEMMA CollectKeeps ==
  ASSUME TypeOK, Collect \/ MainReports \/ MainRecords, UNCHANGED click
  PROVE  /\ MainTypes' /\ PlateTypes' /\ tracks' \in [Cameras -> SUBSET Tracks]
         /\ main' = main
         /\ main \in {"finalize", "flush"} \/ next' = next
<1>0. MainTypes /\ PlateTypes /\ tracks \in [Cameras -> SUBSET Tracks]
  BY TypeParts DEF SharedTypes
<1>1. CASE Collect
  <2>1. PICK gone \in IF main = "flush" THEN {tracks[next]} ELSE SUBSET tracks[next] :
          /\ tracks' = [tracks EXCEPT ![next] = Erase(@, gone)]
          /\ finals' = {t \in gone : Cardinality(t) >= MinSightings}
    BY <1>1 DEF Collect
  <2>2. /\ main \in {"finalize", "flush"} /\ next \in Cameras /\ next' = next + 1
        /\ UNCHANGED <<main, current, plateVars>>
    BY <1>1 DEF Collect
  <2>3. tracks[next] \subseteq Tracks /\ gone \subseteq tracks[next]
    BY <1>0, <2>1, <2>2
  <2>4. finals' \subseteq Tracks
    BY <2>1, <2>3
  <2>5. tracks' \in [Cameras -> SUBSET Tracks]
    BY <1>0, <2>1, <2>2, <2>3 DEF Erase
  <2>6. next' \in 1..(NumCameras + 1)
    BY <2>2, PipelineAssumption DEF Cameras
  <2>7. MainTypes'
    BY <1>0, <2>2, <2>4, <2>6 DEF MainTypes
  <2> QED BY <1>0, <2>2, <2>5, <2>7, Untouched
<1>2. CASE MainReports
  <2>1. PICK t \in finals : current' = t /\ finals' = finals \ {t} /\ CountAndSend(t)
    BY <1>2 DEF MainReports
  <2>2. t \in Tracks /\ UNCHANGED <<main, next, tracks>>
    BY <1>0, <1>2, <2>1 DEF MainTypes, MainReports
  <2>3. MainTypes'
    BY <1>0, <2>1, <2>2 DEF MainTypes
  <2> QED BY <1>0, <2>1, <2>2, <2>3, CountAndSendKeeps
<1>3. CASE MainRecords
  <2>1. current \in Tracks /\ Record(current) /\ current' = None
        /\ UNCHANGED <<main, next, finals, tracks>>
    BY <1>0, <1>3 DEF MainTypes, MainRecords
  <2>2. MainTypes'
    BY <1>0, <2>1 DEF MainTypes
  <2> QED BY <1>0, <2>1, <2>2, RecordKeeps
<1> QED BY <1>1, <1>2, <1>3

(* Every step of the main thread. *)
LEMMA MainStepKeeps ==
  ASSUME TypeOK, Captures, JobsInHand, ClosedOnlyWhenDone, StopFirst, MainStep
  PROVE  TypeOK' /\ Captures' /\ JobsInHand' /\ ClosedOnlyWhenDone' /\ StopFirst'
<1>1. /\ CaptureTypes /\ QueueTypes /\ WorkerTypes /\ MainTypes /\ PlateTypes /\ SharedTypes
      /\ UNCHANGED <<counter, alprDropped, offered, swallowed, alprQueue, fatalError, job,
                     recognized, click, alprEnabled>>
  BY TypeParts DEF MainStep, pushVars
<1>2. CASE /\ Start \/ LaunchCapture \/ StartApi
           /\ UNCHANGED <<stop, closed, finals, current, plateVars, tracks>>
  <2>1. /\ capture' \in [Cameras -> CaptureStates] /\ activeCaptures' \in 0..NumCameras
        /\ worker' \in [Workers -> WorkerStates]
        /\ main' \in {"launch", "loop"} /\ next' \in 1..(NumCameras + 1)
        /\ uplink' \in {"none", "up", "detached", "stopped"} /\ api' \in {"on", "off"}
        /\ Captures' /\ ClosedOnlyWhenDone'
        /\ \A w \in Workers : worker'[w] = worker[w] \/ worker'[w] = "init"
    BY <1>1, <1>2, StartKeeps
  <2>2. CaptureTypes' /\ QueueTypes' /\ WorkerTypes' /\ PlateTypes'
    BY <1>1, <1>2, <2>1, Untouched DEF CaptureTypes, QueueTypes, WorkerTypes
  <2>3. MainTypes' /\ SharedTypes'
    BY <1>1, <1>2, <2>1 DEF MainTypes, SharedTypes, MainStates
  <2>4. JobsInHand' /\ StopFirst'
    BY <1>1, <2>1 DEF JobsInHand, StopFirst
  <2> QED BY <2>1, <2>2, <2>3, <2>4, TypeParts
<1>3. CASE /\ LoopTest \/ EndTurn \/ EndCollect \/ JoinCaptures \/ JoinWorkers
           /\ UNCHANGED <<stop, closed, activeCaptures, capture, worker, finals, current,
                          plateVars, linkVars, tracks>>
  <2>1. /\ CaptureTypes' /\ QueueTypes' /\ WorkerTypes' /\ PlateTypes' /\ SharedTypes'
    BY <1>1, <1>3, Untouched DEF CaptureTypes, QueueTypes, WorkerTypes
  <2>2. /\ main \notin {"start", "launch"} /\ main' \notin {"start", "launch"}
        /\ main' \in MainStates /\ (next' = next \/ next' = 1)
        /\ (main' \in {"join_workers", "flush", "detach"}
              => main \in {"join_captures", "join_workers", "flush"})
        /\ main' \notin {"close_queue", "join_captures", "stop_uplink", "stop_api", "done"}
    BY <1>3 DEF LoopTest, EndTurn, EndCollect, JoinCaptures, JoinWorkers, MainGoto, FlushNext,
                MainStates
  <2>3. MainTypes'
    BY <1>1, <1>3, <2>2, PipelineAssumption DEF MainTypes
  <2>4. Captures'
    BY <1>1, <1>3, <2>2, CapturesIgnoreMain
  <2>5. JobsInHand' /\ ClosedOnlyWhenDone'
    BY <1>1, <1>3 DEF JobsInHand, ClosedOnlyWhenDone
  <2>6. StopFirst'
    BY <1>3, <2>2 DEF StopFirst
  <2> QED BY <2>1, <2>3, <2>4, <2>5, <2>6, TypeParts
<1>4. CASE /\ Collect \/ MainReports \/ MainRecords
           /\ UNCHANGED <<stop, closed, activeCaptures, capture, worker, linkVars>>
  <2>1. /\ MainTypes' /\ PlateTypes' /\ tracks' \in [Cameras -> SUBSET Tracks]
        /\ main' = main /\ (main \in {"finalize", "flush"} \/ next' = next)
    BY <1>1, <1>4, CollectKeeps
  <2>2. CaptureTypes' /\ QueueTypes' /\ WorkerTypes'
    BY <1>1, <1>4 DEF CaptureTypes, QueueTypes, WorkerTypes
  <2>3. SharedTypes'
    BY <1>1, <1>4, <2>1 DEF SharedTypes, linkVars
  <2>4. Captures'
    BY <1>1, <1>4, <2>1, CapturesIgnoreMain
  <2>5. JobsInHand' /\ ClosedOnlyWhenDone' /\ StopFirst'
    BY <1>1, <1>4, <2>1 DEF JobsInHand, ClosedOnlyWhenDone, StopFirst
  <2> QED BY <2>1, <2>2, <2>3, <2>4, <2>5, TypeParts
<1>5. CASE /\ RequestStop \/ CloseQueue
           /\ UNCHANGED <<activeCaptures, capture, worker, next, finals, current,
                          plateVars, linkVars, tracks>>
  <2>1. /\ main \in {"stopping", "close_queue"} /\ main' \in {"close_queue", "join_captures"}
        /\ stop' = TRUE /\ closed' \in BOOLEAN
    BY <1>1, <1>5 DEF RequestStop, CloseQueue, MainGoto, StopFirst, QueueTypes, SharedTypes
  <2>2. CaptureTypes' /\ QueueTypes' /\ WorkerTypes' /\ PlateTypes'
    BY <1>1, <1>5, <2>1, Untouched DEF CaptureTypes, QueueTypes, WorkerTypes
  <2>3. SharedTypes' /\ MainTypes'
    BY <1>1, <1>5, <2>1 DEF SharedTypes, MainTypes, MainStates, linkVars
  <2>4. Captures'
    BY <1>1, <1>5, <2>1, CapturesIgnoreMain
  <2>5. JobsInHand' /\ ClosedOnlyWhenDone' /\ StopFirst'
    BY <1>1, <1>5, <2>1 DEF JobsInHand, ClosedOnlyWhenDone, StopFirst
  <2> QED BY <2>2, <2>3, <2>4, <2>5, TypeParts
<1>6. CASE /\ Detach \/ StopUplink \/ StopApi
           /\ UNCHANGED <<stop, closed, activeCaptures, capture, worker, next, finals,
                          current, plateVars, tracks>>
  <2>1. /\ main \in {"detach", "stop_uplink", "stop_api"}
        /\ main' \in {"stop_uplink", "stop_api", "done"}
        /\ uplink' \in {"none", "up", "detached", "stopped"} /\ api' \in {"on", "off"}
    BY <1>1, <1>6 DEF Detach, StopUplink, StopApi, ApiStopped, MainGoto, SharedTypes
  <2>2. CaptureTypes' /\ QueueTypes' /\ WorkerTypes' /\ PlateTypes'
    BY <1>1, <1>6, Untouched DEF CaptureTypes, QueueTypes, WorkerTypes
  <2>3. SharedTypes' /\ MainTypes'
    BY <1>1, <1>6, <2>1 DEF SharedTypes, MainTypes, MainStates
  <2>4. Captures'
    BY <1>1, <1>6, <2>1, CapturesIgnoreMain
  <2>5. JobsInHand' /\ ClosedOnlyWhenDone' /\ StopFirst'
    BY <1>1, <1>6, <2>1 DEF JobsInHand, ClosedOnlyWhenDone, StopFirst
  <2> QED BY <2>2, <2>3, <2>4, <2>5, TypeParts
<1> QED BY <1>2, <1>3, <1>4, <1>5, <1>6 DEF MainStep

(* Every step of a user. *)
LEMMA UserStepKeeps ==
  ASSUME TypeOK, UserStep
  PROVE  TypeOK' /\ (stop => stop')
<1>1. /\ CaptureTypes /\ QueueTypes /\ WorkerTypes /\ MainTypes /\ PlateTypes /\ SharedTypes
      /\ UNCHANGED captureVars /\ UNCHANGED queueVars /\ UNCHANGED workerVars
      /\ UNCHANGED plateVars /\ UNCHANGED <<main, next, finals, current, linkVars, tracks>>
  BY TypeParts DEF UserStep
<1>2. CaptureTypes' /\ QueueTypes' /\ WorkerTypes' /\ PlateTypes'
  BY <1>1, Untouched
<1>3. /\ stop' \in BOOLEAN /\ (stop => stop') /\ alprEnabled' \in [Cameras -> BOOLEAN]
      /\ click' \in (Cameras \X BOOLEAN) \cup {None}
  <2>0. stop \in BOOLEAN /\ alprEnabled \in [Cameras -> BOOLEAN]
        /\ click \in (Cameras \X BOOLEAN) \cup {None} /\ Switchable \subseteq Cameras
    BY <1>1, PipelineAssumption DEF SharedTypes, MainTypes, Cameras
  <2>1. CASE RequestQuit
    BY <2>0, <2>1 DEF RequestQuit
  <2>2. CASE ClickStore
    BY <2>0, <2>2 DEF ClickStore
  <2>3. ASSUME NEW c \in Switchable, SetAlpr(c) \/ ClickLoad(c)
        PROVE  /\ stop' \in BOOLEAN /\ (stop => stop') /\ alprEnabled' \in [Cameras -> BOOLEAN]
               /\ click' \in (Cameras \X BOOLEAN) \cup {None}
    BY <2>0, <2>3 DEF SetAlpr, ClickLoad
  <2> QED BY <2>1, <2>2, <2>3 DEF UserStep
<1>4. MainTypes' /\ SharedTypes'
  BY <1>1, <1>3 DEF MainTypes, SharedTypes, linkVars
<1> QED BY <1>2, <1>3, <1>4, TypeParts

-----------------------------------------------------------------------------
(* The inductive invariant.                                                *)

Safe == TypeOK /\ Captures /\ JobsInHand /\ ClosedOnlyWhenDone /\ StopFirst

(* A step that leaves the capture threads, the queue's flag and the main   *)
(* thread alone, and at most sets the stop flag.                           *)
LEMMA CapturesApart ==
  ASSUME Captures, ClosedOnlyWhenDone, StopFirst, stop => stop', stop \in BOOLEAN,
         UNCHANGED <<captureVars, closed, main, next>>
  PROVE  Captures' /\ ClosedOnlyWhenDone' /\ StopFirst'
<1>1. UNCHANGED <<activeCaptures, capture, counter, swallowed, closed, main, next>>
  BY DEF captureVars, pushVars
<1>2. Captures'
  BY <1>1, CapturesIgnoreMain
<1>3. ClosedOnlyWhenDone' /\ StopFirst'
  BY <1>1 DEF ClosedOnlyWhenDone, StopFirst
<1> QED BY <1>2, <1>3

LEMMA SafeStep == Safe /\ [Next]_vars => Safe'
<1> SUFFICES ASSUME Safe, [Next]_vars PROVE Safe'
  OBVIOUS
<1> USE DEF Safe
<1>1. ASSUME NEW c \in Cameras, CaptureStep(c) PROVE Safe'
  <2>1. UNCHANGED <<stop, workerVars, mainVars, plateVars, linkVars, alprEnabled, tracks>>
    BY <1>1 DEF CaptureStep
  <2>2. CaptureTypes' /\ QueueTypes' /\ Captures' /\ ClosedOnlyWhenDone'
    BY <1>1, CaptureStepKeeps
  <2>3. WorkerTypes' /\ MainTypes' /\ PlateTypes' /\ SharedTypes'
    BY <2>1, TypeParts, Untouched
  <2>4. JobsInHand' /\ StopFirst'
    BY <2>1 DEF JobsInHand, StopFirst, workerVars, mainVars
  <2> QED BY <2>2, <2>3, <2>4, TypeParts
<1>2. ASSUME NEW w \in Workers, WorkerStep(w) PROVE Safe'
  <2>1. TypeOK' /\ JobsInHand' /\ (stop => stop')
    BY <1>2, WorkerStepKeeps
  <2>2. UNCHANGED <<captureVars, closed, main, next>> /\ stop \in BOOLEAN
    BY <1>2 DEF WorkerStep, mainVars, TypeOK
  <2> QED BY <2>1, <2>2, CapturesApart
<1>3. CASE MainStep
  BY <1>3, MainStepKeeps
<1>4. CASE UserStep
  <2>1. TypeOK' /\ (stop => stop')
    BY <1>4, UserStepKeeps
  <2>2. UNCHANGED <<captureVars, closed, main, next, worker, job>> /\ stop \in BOOLEAN
    BY <1>4 DEF UserStep, queueVars, workerVars, TypeOK
  <2>3. JobsInHand'
    BY <2>2 DEF JobsInHand
  <2> QED BY <2>1, <2>2, <2>3, CapturesApart
<1>5. CASE UNCHANGED vars
  <2>1. /\ UNCHANGED captureVars /\ UNCHANGED queueVars /\ UNCHANGED workerVars
        /\ UNCHANGED mainVars /\ UNCHANGED plateVars
        /\ UNCHANGED <<stop, linkVars, alprEnabled, tracks>>
    BY <1>5 DEF vars
  <2>2. TypeOK'
    BY <2>1, TypeParts, Untouched
  <2>3. UNCHANGED <<captureVars, closed, main, next, worker, job, stop>> /\ stop \in BOOLEAN
    BY <2>1 DEF queueVars, workerVars, mainVars, TypeOK
  <2>4. JobsInHand'
    BY <2>3 DEF JobsInHand
  <2> QED BY <2>2, <2>3, <2>4, CapturesApart
<1> QED BY <1>1, <1>2, <1>3, <1>4, <1>5 DEF Next, Returned

LEMMA SafeInit == Init => Safe
<1> SUFFICES ASSUME Init PROVE Safe
  OBVIOUS
<1>1. /\ 0 \in 0..NumCameras /\ 1 \in 1..(NumCameras + 1) /\ 0 <= Cap /\ 0 <= MaxPlates
      /\ NumCameras \in Nat
  BY PipelineAssumption DEF Cap
<1>0. \A S : <<>> \in Seq(S) /\ Len(<<>>) = 0
  BY EmptySeq
<1>2. CaptureTypes /\ QueueTypes
  <2>1. /\ [c \in Cameras |-> "unborn"] \in [Cameras -> CaptureStates]
        /\ [c \in Cameras |-> 0] \in [Cameras -> Nat]
    BY DEF CaptureStates
  <2>2. CaptureTypes
    BY <1>1, <2>1 DEF Init, CaptureTypes
  <2>3. alprQueue = <<>> /\ closed = FALSE
    BY DEF Init
  <2>4. QueueTypes
    BY <1>0, <1>1, <2>3 DEF QueueTypes
  <2> QED BY <2>2, <2>4
<1>3. WorkerTypes /\ MainTypes
  BY <1>1 DEF Init, WorkerTypes, MainTypes, WorkerStates, MainStates
<1>4. PlateTypes /\ SharedTypes
  <2>1. recentPlates = <<>> /\ log = <<>> /\ sent = {}
    BY DEF Init
  <2>2. PlateTypes
    BY <1>0, <1>1, <2>1 DEF PlateTypes
  <2>3. \A c \in Cameras : (c \in AlprOn) \in BOOLEAN
    OBVIOUS
  <2>4. /\ alprEnabled \in [Cameras -> BOOLEAN] /\ tracks \in [Cameras -> SUBSET Tracks]
    BY <2>3 DEF Init
  <2>5. stop = FALSE /\ uplink = "none" /\ api = "off"
    BY DEF Init
  <2>6. SharedTypes
    BY <2>4, <2>5 DEF SharedTypes
  <2> QED BY <2>2, <2>6
<1>5. TypeOK
  BY <1>2, <1>3, <1>4, TypeParts
<1>6. Captures /\ JobsInHand /\ ClosedOnlyWhenDone /\ StopFirst
  BY DEF Init, Captures, JobsInHand, ClosedOnlyWhenDone, StopFirst
<1> QED BY <1>5, <1>6 DEF Safe

LEMMA AlwaysSafe == Spec => []Safe
BY SafeInit, SafeStep, PTL DEF Spec

(* Every variable keeps its type; the job queue and the ring of recent     *)
(* plates stay within their bounds.                                        *)
THEOREM TypeCorrect == Spec => []TypeOK
<1>1. Safe => TypeOK
  BY DEF Safe
<1> QED BY AlwaysSafe, <1>1, PTL

(* Without a request to stop the queue is closed by the last capture       *)
(* thread only, when every camera has finished, and swallows no frame.     *)
THEOREM QueueClosesLast == Spec => []ClosedOnlyWhenDone
<1>1. Safe => ClosedOnlyWhenDone
  BY DEF Safe
<1> QED BY AlwaysSafe, <1>1, PTL

-----------------------------------------------------------------------------
(* Shutdown.                                                               *)

Flushing == {"flush", "detach", "stop_uplink", "stop_api", "done"}

(* The threads are joined before the flush ...                             *)
Joined ==
    /\ main \in Flushing \cup {"join_workers"} => CapturesOver
    /\ main \in Flushing => WorkersOver

(* ... the main thread holds reports only while it collects, and the flush *)
(* empties one camera's tracker after the other ...                        *)
Flushed ==
    /\ main \notin {"finalize", "flush"} => Idle
    /\ main = "flush" => \A c \in Cameras : c < next => tracks[c] = {}
    /\ main \in Flushing \ {"flush"} => (Consolidate => \A c \in Cameras : tracks[c] = {})

(* ... and the transport and the API server are taken down after that.     *)
Unlinked ==
    /\ uplink \in {"detached", "stopped"} => main \in {"stop_uplink", "stop_api", "done"}
    /\ ~Uplink => uplink = "none"
    /\ main \in {"stop_api", "done"} => uplink \in {"none", "stopped"}
    /\ main = "done" => api = "off"

Shutdown == Joined /\ Flushed /\ Unlinked

(* What the shutdown order is about stays as it is. *)
shutdownVars == <<main, next, finals, current, capture, worker, tracks, uplink, api>>

LEMMA StillShutdown == Shutdown /\ UNCHANGED shutdownVars => Shutdown'
BY DEF Shutdown, Joined, Flushed, Unlinked, Idle, CapturesOver, WorkersOver, shutdownVars

(* A capture thread that takes a step is not over. *)
LEMMA CaptureShutdown ==
  ASSUME Shutdown, NEW c \in Cameras, CaptureStep(c)
  PROVE  Shutdown'
<1>1. capture[c] \notin {"done", "leaked"}
  BY DEF CaptureStep, CreateFails, OpenSource, CloseSource, NextFrame, PushJob, CountJob,
         LeaveCapture, LastCaptureCloses, CaptureGoto
<1>2. UNCHANGED <<main, next, finals, current, worker, tracks, uplink, api>>
  BY DEF CaptureStep, workerVars, mainVars, linkVars
<1>3. main \notin Flushing \cup {"join_workers"}
  BY <1>1 DEF Shutdown, Joined, CapturesOver
<1> QED BY <1>2, <1>3 DEF Shutdown, Joined, Flushed, Unlinked, Idle, Flushing

(* Nor is a worker. *)
LEMMA WorkerShutdown ==
  ASSUME Shutdown, NEW w \in Workers, WorkerStep(w)
  PROVE  Shutdown'
<1>1. worker[w] # "done"
  BY DEF WorkerStep, InitWorker, TestStop, CheckClosed, WaitPop, Recognize, WorkerReports,
         WorkerRecords, WorkerGoto
<1>2. UNCHANGED <<main, next, finals, current, capture, uplink, api>>
  BY DEF WorkerStep, captureVars, mainVars, linkVars
<1>3. main \notin Flushing
  BY <1>1 DEF Shutdown, Joined, WorkersOver
<1> QED BY <1>2, <1>3 DEF Shutdown, Joined, Flushed, Unlinked, Idle, Flushing, CapturesOver

(* The main thread joins, flushes, detaches and stops in this order. *)
LEMMA MainShutdown ==
  ASSUME TypeOK, Shutdown, MainStep
  PROVE  Shutdown'
<1> USE DEF Shutdown
<1>1. CASE /\ Start \/ LaunchCapture \/ StartApi
           /\ UNCHANGED <<stop, closed, finals, current, plateVars, tracks>>
  <2>1. /\ main \in {"start", "launch"} /\ main' \in {"launch", "loop"}
        /\ UNCHANGED <<finals, current>> /\ (uplink' = uplink \/ uplink' = IF Uplink THEN "up" ELSE "none")
    BY <1>1 DEF Start, LaunchCapture, StartApi, MainGoto
  <2> QED BY <2>1 DEF Joined, Flushed, Unlinked, Flushing, Idle
<1>2. CASE /\ LoopTest \/ EndTurn \/ EndCollect \/ JoinCaptures \/ JoinWorkers
           /\ UNCHANGED <<stop, closed, activeCaptures, capture, worker, finals, current,
                          plateVars, linkVars, tracks>>
  <2>0. UNCHANGED <<capture, worker, finals, current, tracks, uplink, api>>
    BY <1>2 DEF linkVars
  <2>1. CASE LoopTest \/ EndTurn
    <3>1. main \in {"loop", "turn"} /\ main' \in {"stopping", "turn", "finalize"}
      BY <2>1 DEF LoopTest, EndTurn, MainGoto
    <3> QED BY <2>0, <3>1 DEF Joined, Flushed, Unlinked, Flushing, Idle
  <2>2. CASE JoinCaptures
    <3>1. main = "join_captures" /\ main' = "join_workers" /\ CapturesOver /\ CapturesOver'
      BY <2>0, <2>2 DEF JoinCaptures, MainGoto, CapturesOver
    <3> QED BY <2>0, <3>1 DEF Joined, Flushed, Unlinked, Flushing, Idle
  <2>3. CASE JoinWorkers
    <3>1. /\ main = "join_workers" /\ main' = FlushNext /\ next' = 1
          /\ CapturesOver' /\ WorkersOver'
      BY <2>0, <2>3 DEF JoinWorkers, WorkersJoined, MainGoto, Joined, CapturesOver, WorkersOver,
                        Flushing
    <3>2. \A c \in Cameras : ~(c < next')
      BY <3>1 DEF Cameras
    <3> QED BY <2>0, <3>1, <3>2 DEF Joined, Flushed, Unlinked, Flushing, Idle, FlushNext
  <2>4. CASE EndCollect /\ main = "finalize"
    <3>1. main' = "loop" /\ Idle /\ Idle'
      BY <2>0, <2>4 DEF EndCollect, MainGoto, Idle
    <3> QED BY <2>0, <2>4, <3>1 DEF Joined, Flushed, Unlinked, Flushing
  <2>5. CASE EndCollect /\ main = "flush"
    <3>1. main' = "detach" /\ Idle' /\ next > NumCameras
      BY <2>0, <2>5 DEF EndCollect, MainGoto, Idle
    <3>2. \A c \in Cameras : c < next
      BY <3>1, PipelineAssumption DEF Cameras, TypeOK
    <3>3. \A c \in Cameras : tracks'[c] = {}
      BY <2>0, <2>5, <3>2 DEF Flushed
    <3>4. CapturesOver' /\ WorkersOver'
      BY <2>0, <2>5 DEF Joined, Flushing, CapturesOver, WorkersOver
    <3> QED BY <2>0, <2>5, <3>1, <3>3, <3>4 DEF Joined, Flushed, Unlinked, Flushing
  <2>6. main \in {"finalize", "flush"} \/ ~EndCollect
    BY DEF EndCollect, MainGoto
  <2> QED BY <1>2, <2>1, <2>2, <2>3, <2>4, <2>5, <2>6
<1>3. CASE /\ Collect \/ MainReports \/ MainRecords
           /\ UNCHANGED <<stop, closed, activeCaptures, capture, worker, linkVars>>
  <2>0. main' = main /\ UNCHANGED <<capture, worker, uplink, api>>
    BY <1>3 DEF Collect, MainReports, MainRecords, linkVars
  <2>1. main \in {"finalize", "flush"}
    BY <1>3 DEF Collect, MainReports, MainRecords, Flushed, Idle
  <2>2. main = "flush" => \A c \in Cameras : c < next' => tracks'[c] = {}
    <3>1. CASE MainReports \/ MainRecords
      BY <3>1 DEF MainReports, MainRecords, Flushed
    <3>2. CASE Collect
      <4> SUFFICES ASSUME main = "flush", NEW c \in Cameras, c < next' PROVE tracks'[c] = {}
        OBVIOUS
      <4>1. /\ next \in Cameras /\ next' = next + 1
            /\ tracks' = [tracks EXCEPT ![next] = Erase(@, tracks[next])]
        BY <3>2 DEF Collect
      <4>2. \A d \in Cameras : tracks'[d] = IF d = next THEN {} ELSE tracks[d]
        BY <4>1 DEF TypeOK, Erase
      <4>3. c = next \/ c < next
        BY <4>1, PipelineAssumption DEF Cameras
      <4> QED BY <4>2, <4>3 DEF Flushed
    <3> QED BY <1>3, <3>1, <3>2
  <2> QED BY <2>0, <2>1, <2>2 DEF Joined, Flushed, Unlinked, Flushing, CapturesOver, WorkersOver
<1>4. CASE /\ RequestStop \/ CloseQueue
           /\ UNCHANGED <<activeCaptures, capture, worker, next, finals, current,
                          plateVars, linkVars, tracks>>
  <2>1. /\ main \in {"stopping", "close_queue"} /\ main' \in {"close_queue", "join_captures"}
        /\ UNCHANGED <<finals, current, uplink>>
    BY <1>4 DEF RequestStop, CloseQueue, MainGoto, linkVars
  <2> QED BY <2>1 DEF Joined, Flushed, Unlinked, Flushing, Idle
<1>5. CASE /\ Detach \/ StopUplink \/ StopApi
           /\ UNCHANGED <<stop, closed, activeCaptures, capture, worker, next, finals,
                          current, plateVars, tracks>>
  <2>1. /\ main \in {"detach", "stop_uplink", "stop_api"}
        /\ main' \in {"stop_uplink", "stop_api", "done"}
        /\ UNCHANGED <<capture, worker, finals, current, tracks>>
    BY <1>5 DEF Detach, StopUplink, StopApi, MainGoto
  <2>2. Joined' /\ Flushed'
    BY <2>1 DEF Joined, Flushed, Flushing, Idle, CapturesOver, WorkersOver
  <2>3. Unlinked'
    BY <1>5 DEF Unlinked, Detach, StopUplink, StopApi, ApiStopped, MainGoto
  <2> QED BY <2>2, <2>3
<1> QED BY <1>1, <1>2, <1>3, <1>4, <1>5 DEF MainStep

LEMMA ShutdownStep == Safe /\ Shutdown /\ [Next]_vars => Shutdown'
<1> SUFFICES ASSUME Safe, Shutdown, [Next]_vars PROVE Shutdown'
  OBVIOUS
<1>1. CASE UserStep
  <2>1. UNCHANGED shutdownVars
    BY <1>1 DEF UserStep, captureVars, workerVars, linkVars, shutdownVars
  <2> QED BY <2>1, StillShutdown
<1>2. CASE UNCHANGED vars
  <2>1. UNCHANGED shutdownVars
    BY <1>2 DEF vars, captureVars, workerVars, mainVars, linkVars, shutdownVars
  <2> QED BY <2>1, StillShutdown
<1> QED BY <1>1, <1>2, CaptureShutdown, WorkerShutdown, MainShutdown DEF Next, Returned, Safe

LEMMA ShutdownInit == Init => Shutdown
BY DEF Init, Shutdown, Joined, Flushed, Unlinked, Flushing, Idle

(* The final flush finds no capture thread and no worker alive, the        *)
(* transport is detached when nothing is left to report, and nothing runs  *)
(* when the function returns: for any number of threads, however they are  *)
(* interleaved with the stop request.                                      *)
THEOREM ShutsDownInOrder == Spec => []ShutdownInOrder
<1>1. Safe /\ Shutdown => ShutdownInOrder
  BY DEF Shutdown, Joined, Flushed, Unlinked, Flushing, ShutdownInOrder
<1>2. Spec => []Shutdown
  BY AlwaysSafe, ShutdownInit, ShutdownStep, PTL DEF Spec
<1> QED BY <1>1, <1>2, AlwaysSafe, PTL

-----------------------------------------------------------------------------
(* Where a job is.                                                         *)

(* A job is offered once: its number is the camera's count when it is      *)
(* pushed.  What is queued, in hand, recognized or swallowed was offered.  *)
Numbers == \A j \in offered : /\ j[2] <= counter[j[1]]
                              /\ capture[j[1]] = "push" => j[2] < counter[j[1]]

Offers == Queued \cup InHand \cup recognized \cup swallowed \subseteq offered

Placed == JobsRunOnce /\ Numbers /\ Offers

(* JobsRunOnce, for a queue q and the jobs in hand. *)
LEMMA RunOnceMeans ==
  JobsRunOnce <=>
    /\ Unrepeated(alprQueue)
    /\ \A v, w \in Busy : job[v] = job[w] => v = w
    /\ Queued \cap InHand = {}
    /\ (Queued \cup InHand) \cap (recognized \cup swallowed) = {}
    /\ recognized \cap swallowed = {}
BY DEF JobsRunOnce, Unrepeated

LEMMA PlacedInit == Init => Placed
<1> SUFFICES ASSUME Init PROVE Placed
  OBVIOUS
<1>1. alprQueue = <<>> /\ offered = {} /\ swallowed = {} /\ recognized = {}
  BY DEF Init
<1>2. \A w \in Workers : worker[w] = "unborn"
  BY DEF Init
<1>3. Queued = {} /\ Len(alprQueue) = 0
  BY <1>1, EmptySeq DEF Queued, Elements
<1>4. Busy = {} /\ InHand = {}
  BY <1>2 DEF Busy, InHand
<1> QED BY <1>1, <1>3, <1>4 DEF Placed, JobsRunOnce, Numbers, Offers

(* The jobs in hand when no worker begins or ends one. *)
LEMMA SameHands ==
  ASSUME Busy' = Busy, \A w \in Busy : job'[w] = job[w]
  PROVE  /\ InHand' = InHand
         /\ (\A v, w \in Busy : job[v] = job[w] => v = w)
              => \A v, w \in Busy' : job'[v] = job'[w] => v = w
BY DEF InHand

LEMMA CapturePlaced ==
  ASSUME TypeOK, Captures, Placed, NEW c \in Cameras, CaptureStep(c)
  PROVE  Placed'
<1>0. CaptureTypes /\ QueueTypes
  BY TypeParts
<1>1. UNCHANGED <<worker, job, recognized>>
  BY DEF CaptureStep, workerVars
<1>2. Busy' = Busy /\ InHand' = InHand
  BY <1>1 DEF Busy, InHand
<1>3. CASE UNCHANGED <<counter, offered, swallowed, alprQueue>>
           /\ \A d \in Cameras : capture'[d] = "push" => capture[d] = "push"
  <2>1. Queued' = Queued
    BY <1>3 DEF Queued
  <2>2. Numbers'
    <3>1. \A j \in offered : j[1] \in Cameras
      BY <1>0 DEF CaptureTypes, Jobs
    <3> QED BY <1>3, <3>1 DEF Placed, Numbers
  <2> QED BY <1>1, <1>2, <1>3, <2>1, <2>2 DEF Placed, JobsRunOnce, Offers
<1>4. CASE NextFrame(c) /\ UNCHANGED <<activeCaptures, pushVars, queueVars>>
  <2>1. UNCHANGED <<offered, swallowed, alprQueue>> /\ Queued' = Queued
    BY <1>4 DEF pushVars, queueVars, Queued
  <2>2. /\ capture[c] = "inner"
        /\ \A d \in Cameras : d # c => capture'[d] = capture[d] /\ counter'[d] = counter[d]
        /\ counter'[c] = counter[c] + 1 /\ counter[c] \in Nat
    BY <1>0, <1>4 DEF NextFrame, CaptureGoto, CaptureTypes
  <2>3. Numbers'
    <3> SUFFICES ASSUME NEW j \in offered
                 PROVE  /\ j[2] <= counter'[j[1]]
                        /\ capture'[j[1]] = "push" => j[2] < counter'[j[1]]
      BY <2>1 DEF Numbers
    <3>1. j[1] \in Cameras /\ j[2] \in Nat /\ j[2] <= counter[j[1]]
          /\ (capture[j[1]] = "push" => j[2] < counter[j[1]])
      BY <1>0 DEF CaptureTypes, Jobs, Placed, Numbers
    <3> QED BY <2>2, <3>1
  <2> QED BY <1>1, <1>2, <2>1, <2>3 DEF Placed, JobsRunOnce, Offers
<1>5. CASE PushJob(c) /\ UNCHANGED <<activeCaptures, counter, alprDropped, closed>>
  <2> DEFINE new == <<c, counter[c]>>
  <2>1. /\ capture[c] = "push" /\ new \in Jobs
        /\ \A d \in Cameras : d # c => capture'[d] = capture[d]
        /\ capture'[c] # "push"
    <3>1. PICK there \in {"count", "count_drop"} : CaptureGoto(c, "push", there)
      BY <1>5 DEF PushJob
    <3>2. counter[c] > 0
      BY <3>1 DEF CaptureGoto, Captures
    <3> QED BY <1>0, <3>1, <3>2 DEF CaptureGoto, CaptureTypes, Jobs
  <2>2. new \notin offered
    <3> SUFFICES ASSUME new \in offered PROVE FALSE
      OBVIOUS
    <3>1. new[2] < counter[c]
      BY <2>1 DEF Placed, Numbers
    <3> QED BY <1>0, <3>1 DEF CaptureTypes
  <2>3. Numbers'
    <3> SUFFICES ASSUME NEW j \in offered \cup {new}
                 PROVE  /\ j[2] <= counter[j[1]]
                        /\ capture'[j[1]] = "push" => j[2] < counter[j[1]]
      BY <1>5 DEF PushJob, Numbers
    <3>1. CASE j = new
      BY <1>0, <2>1, <3>1 DEF CaptureTypes
    <3>2. CASE j \in offered
      <4>1. j[1] \in Cameras
        BY <1>0, <3>2 DEF CaptureTypes, Jobs
      <4> QED BY <2>1, <3>2, <4>1 DEF Placed, Numbers
    <3> QED BY <3>1, <3>2
  <2>4. CASE closed
    <3>1. alprQueue' = alprQueue /\ swallowed' = swallowed \cup {new} /\ offered' = offered \cup {new}
      BY <1>5, <2>4 DEF PushJob
    <3>2. Queued' = Queued
      BY <3>1 DEF Queued
    <3> QED BY <1>1, <1>2, <2>2, <2>3, <3>1, <3>2 DEF Placed, JobsRunOnce, Offers
  <2>5. CASE ~closed
    <3>1. /\ alprQueue' = PushDropOldest(alprQueue, new, Cap)
          /\ swallowed' = swallowed /\ offered' = offered \cup {new}
      BY <1>5, <2>5 DEF PushJob
    <3>2. /\ Cap \in Nat \ {0} /\ alprQueue \in Seq(Jobs) /\ new \notin Elements(alprQueue)
          /\ Unrepeated(alprQueue)
      BY <1>0, <2>2, RunOnceMeans, PipelineAssumption DEF Cap, QueueTypes, Placed, Offers, Queued
    <3>3. Unrepeated(alprQueue') /\ Queued' \subseteq Queued \cup {new}
      <4> HIDE DEF new
      <4> QED BY <2>1, <3>1, <3>2, UnrepeatedPush DEF Queued
    <3>4. JobsRunOnce'
      <4>1. /\ Unrepeated(alprQueue)' /\ (\A v, w \in Busy : job[v] = job[w] => v = w)'
        BY <1>1, <1>2, <3>3, RunOnceMeans DEF Placed, Unrepeated
      <4>2. /\ (Queued \cap InHand)' = {}
            /\ ((Queued \cup InHand) \cap (recognized \cup swallowed))' = {}
            /\ (recognized \cap swallowed)' = {}
        BY <1>1, <1>2, <2>2, <3>1, <3>3 DEF Placed, JobsRunOnce, Offers
      <4> QED BY <4>1, <4>2 DEF JobsRunOnce, Unrepeated
    <3>5. Offers'
      BY <1>1, <1>2, <3>1, <3>3 DEF Placed, Offers
    <3> QED BY <2>3, <3>4, <3>5 DEF Placed
  <2> QED BY <2>4, <2>5
<1>6. \/ UNCHANGED <<counter, offered, swallowed, alprQueue>>
         /\ \E there \in CaptureStates \ {"push"} : capture' = [capture EXCEPT ![c] = there]
      \/ NextFrame(c) /\ UNCHANGED <<activeCaptures, pushVars, queueVars>>
      \/ PushJob(c) /\ UNCHANGED <<activeCaptures, counter, alprDropped, closed>>
  BY DEF CaptureStep, CreateFails, OpenSource, CloseSource, CountJob, LeaveCapture,
         LastCaptureCloses, CaptureGoto, CaptureStates, pushVars, queueVars
<1>7. ASSUME NEW there \in CaptureStates \ {"push"}, capture' = [capture EXCEPT ![c] = there]
      PROVE  \A d \in Cameras : capture'[d] = "push" => capture[d] = "push"
  BY <1>0, <1>7 DEF CaptureTypes
<1> QED BY <1>3, <1>4, <1>5, <1>6, <1>7

(* The variables Placed is about. *)
placeVars == <<alprQueue, worker, job, recognized, swallowed, offered, counter, capture>>

LEMMA StillPlaced == Placed /\ UNCHANGED placeVars => Placed'
<1> SUFFICES ASSUME Placed, UNCHANGED placeVars PROVE Placed'
  OBVIOUS
<1>1. UNCHANGED <<alprQueue, worker, job, recognized, swallowed, offered, counter, capture>>
  BY DEF placeVars
<1>2. Busy' = Busy /\ InHand' = InHand /\ Queued' = Queued
  BY <1>1 DEF Busy, InHand, Queued
<1> QED BY <1>1, <1>2 DEF Placed, JobsRunOnce, Numbers, Offers

LEMMA WorkerPlaced ==
  ASSUME TypeOK, JobsInHand, Placed, NEW w \in Workers, WorkerStep(w)
  PROVE  Placed'
<1>0. WorkerTypes /\ QueueTypes
  BY TypeParts
<1>1. UNCHANGED <<swallowed, offered, counter, capture>>
  BY DEF WorkerStep, captureVars, pushVars
<1>2. Numbers'
  BY <1>1 DEF Placed, Numbers
<1>3. /\ Unrepeated(alprQueue) /\ \A v, x \in Busy : job[v] = job[x] => v = x
      /\ Queued \cap InHand = {}
      /\ (Queued \cup InHand) \cap (recognized \cup swallowed) = {}
      /\ recognized \cap swallowed = {}
      /\ Queued \cup InHand \cup recognized \cup swallowed \subseteq offered
  BY RunOnceMeans DEF Placed, Offers
<1>4. CASE /\ UNCHANGED <<recognized, alprQueue>> /\ worker[w] # "work" /\ worker'[w] # "work"
           /\ \E there : worker' = [worker EXCEPT ![w] = there]
           /\ \A v \in Workers \ {w} : job'[v] = job[v]
  <2>1. \A v \in Workers \ {w} : worker'[v] = worker[v]
    BY <1>0, <1>4 DEF WorkerTypes
  <2>2. Busy' = Busy /\ \A v \in Busy : job'[v] = job[v]
    BY <1>4, <2>1 DEF Busy
  <2>3. /\ InHand' = InHand /\ Queued' = Queued
        /\ \A v, x \in Busy' : job'[v] = job'[x] => v = x
    BY <1>3, <1>4, <2>2, SameHands DEF Queued
  <2> QED BY <1>1, <1>2, <1>3, <1>4, <2>2, <2>3 DEF Placed, JobsRunOnce, Offers, Unrepeated
<1>5. CASE WaitPop(w) /\ recognized' = recognized /\ alprQueue # <<>>
  <2> DEFINE h == Head(alprQueue)
  <2>1. /\ job' = [job EXCEPT ![w] = h] /\ alprQueue' = Tail(alprQueue)
        /\ worker[w] = "pop" /\ worker' = [worker EXCEPT ![w] = "work"]
    BY <1>5 DEF WaitPop, Pop, WorkerGoto
  <2>2. /\ Unrepeated(alprQueue') /\ h \in Queued /\ Queued' = Queued \ {h}
    BY <1>0, <1>3, <1>5, <2>1, UnrepeatedTail DEF QueueTypes, Queued
  <2>3. /\ Busy' = Busy \cup {w} /\ w \notin Busy /\ job'[w] = h
        /\ \A v \in Busy : job'[v] = job[v]
    BY <1>0, <2>1 DEF Busy, WorkerTypes
  <2> HIDE DEF h
  <2>4. InHand' = InHand \cup {h}
    BY <2>3 DEF InHand
  <2>5. \A v \in Busy : job[v] # h
    BY <1>3, <2>2 DEF InHand
  <2>6. \A v, x \in Busy' : job'[v] = job'[x] => v = x
    BY <1>3, <2>3, <2>5
  <2> QED BY <1>1, <1>2, <1>3, <1>5, <2>2, <2>4, <2>6 DEF Placed, JobsRunOnce, Offers, Unrepeated
<1>6. CASE Recognize(w) /\ UNCHANGED alprQueue
  <2>1. PICK there \in {"loop", "report"} : worker' = [worker EXCEPT ![w] = there]
    BY <1>6 DEF Recognize, WorkerGoto
  <2>2. /\ worker[w] = "work" /\ recognized' = recognized \cup {job[w]}
        /\ \A v \in Workers \ {w} : job'[v] = job[v]
    BY <1>0, <1>6 DEF Recognize, WorkerGoto, Release, WorkerTypes
  <2>3. /\ Busy' = Busy \ {w} /\ w \in Busy /\ \A v \in Busy' : job'[v] = job[v]
    BY <1>0, <2>1, <2>2 DEF Busy, WorkerTypes
  <2>4. InHand' = InHand \ {job[w]} /\ job[w] \in InHand
    BY <1>3, <2>3 DEF InHand
  <2>5. Queued' = Queued /\ \A v, x \in Busy' : job'[v] = job'[x] => v = x
    BY <1>3, <1>6, <2>3 DEF Queued
  <2> QED BY <1>1, <1>2, <1>3, <1>6, <2>2, <2>4, <2>5 DEF Placed, JobsRunOnce, Offers, Unrepeated
<1>7. CASE WaitPop(w) /\ recognized' = recognized /\ alprQueue = <<>>
  <2>1. /\ worker[w] = "pop" /\ worker' = [worker EXCEPT ![w] = "check"]
        /\ UNCHANGED <<job, alprQueue>>
    BY <1>7 DEF WaitPop, WorkerGoto
  <2>2. worker'[w] # "work"
    BY <1>0, <2>1 DEF WorkerTypes
  <2> QED BY <1>4, <1>7, <2>1, <2>2
<1>8. CASE InitWorker(w) /\ UNCHANGED <<job, recognized, alprQueue>>
  <2>1. /\ worker[w] = "init" /\ \E there \in {"loop", "done"} : worker' = [worker EXCEPT ![w] = there]
    BY <1>8 DEF InitWorker, WorkerGoto
  <2>2. worker'[w] # "work"
    BY <1>0, <2>1 DEF WorkerTypes
  <2> QED BY <1>4, <1>8, <2>1, <2>2
<1>9. CASE (TestStop(w) \/ CheckClosed(w)) /\ UNCHANGED <<job, recognized, alprQueue>>
  <2>1. /\ worker[w] \in {"loop", "check"}
        /\ \E there \in {"loop", "pop", "done"} : worker' = [worker EXCEPT ![w] = there]
    BY <1>9 DEF TestStop, CheckClosed, WorkerGoto
  <2>2. worker'[w] # "work"
    BY <1>0, <2>1 DEF WorkerTypes
  <2> QED BY <1>4, <1>9, <2>1, <2>2
<1>10. CASE (WorkerReports(w) \/ WorkerRecords(w)) /\ UNCHANGED <<recognized, alprQueue>>
  <2>1. /\ worker[w] \in {"report", "record"}
        /\ \E there \in {"record", "loop"} : worker' = [worker EXCEPT ![w] = there]
        /\ \A v \in Workers \ {w} : job'[v] = job[v]
    BY <1>0, <1>10 DEF WorkerReports, WorkerRecords, WorkerGoto, AfterReport, Release, WorkerTypes
  <2>2. worker'[w] # "work"
    BY <1>0, <2>1 DEF WorkerTypes
  <2> QED BY <1>4, <1>10, <2>1, <2>2
<1> QED BY <1>5, <1>6, <1>7, <1>8, <1>9, <1>10 DEF WorkerStep

(* Before the launch no worker has a job. *)
LEMMA MainPlaced ==
  ASSUME TypeOK, Captures, Placed, MainStep
  PROVE  Placed'
<1>1. /\ UNCHANGED <<counter, offered, swallowed, alprQueue, job, recognized>>
      /\ CaptureTypes /\ next \in Nat
  BY TypeParts DEF MainStep, pushVars, TypeOK
<1>2. worker' = worker \/ \A w \in Workers : worker'[w] = "init"
  BY DEF MainStep, Start, LaunchCapture, StartApi
<1>3. capture' = capture \/ (next \in Cameras /\ capture' = [capture EXCEPT ![next] = "outer"])
  BY DEF MainStep, Start, LaunchCapture, StartApi
<1>4. \A c \in Cameras : capture'[c] = "push" => capture[c] = "push"
  BY <1>1, <1>3 DEF CaptureTypes
<1>5. Numbers'
  <2>1. \A j \in offered : j[1] \in Cameras
    BY <1>1 DEF CaptureTypes, Jobs
  <2> QED BY <1>1, <1>4, <2>1 DEF Placed, Numbers
<1>6. Queued' = Queued /\ Busy' \subseteq Busy /\ \A w \in Busy' : job'[w] = job[w]
  BY <1>1, <1>2 DEF Queued, Busy
<1>7. InHand' \subseteq InHand
  BY <1>6 DEF InHand
<1> QED BY <1>1, <1>5, <1>6, <1>7 DEF Placed, JobsRunOnce, Offers

LEMMA PlacedStep == Safe /\ Placed /\ [Next]_vars => Placed'
<1> SUFFICES ASSUME Safe, Placed, [Next]_vars PROVE Placed'
  OBVIOUS
<1>1. CASE UserStep
  <2>1. UNCHANGED placeVars
    BY <1>1 DEF UserStep, captureVars, pushVars, queueVars, workerVars, placeVars
  <2> QED BY <2>1, StillPlaced
<1>2. CASE UNCHANGED vars
  <2>1. UNCHANGED placeVars
    BY <1>2 DEF vars, captureVars, pushVars, queueVars, workerVars, placeVars
  <2> QED BY <2>1, StillPlaced
<1> QED BY <1>1, <1>2, CapturePlaced, WorkerPlaced, MainPlaced DEF Next, Returned, Safe

(* However many workers pop and however many capture threads push, evict   *)
(* and are swallowed by the closed queue: a job is in one place, and in    *)
(* one worker's hands, and is recognized at most once.                     *)
THEOREM JobsAreRunOnce == Spec => []JobsRunOnce
<1>1. Placed => JobsRunOnce
  BY DEF Placed
<1> QED BY AlwaysSafe, PlacedInit, PlacedStep, <1>1, PTL DEF Spec

-----------------------------------------------------------------------------
(* What the transport is given.                                            *)

(* The transport is attached from the start until nothing is left to       *)
(* report, and has been given every report that was counted.               *)
Attachment ==
    Uplink =>
      /\ main = "start" => \A w \in Workers : worker[w] = "unborn"
      /\ main \notin {"start", "stop_uplink", "stop_api", "done"} => uplink = "up"
      /\ sent = Elements(log)

LEMMA AttachmentInit == Init => Attachment
<1> SUFFICES ASSUME Init PROVE Attachment
  OBVIOUS
<1>1. log = <<>> /\ sent = {} /\ main = "start" /\ \A w \in Workers : worker[w] = "unborn"
  BY DEF Init
<1>2. Elements(log) = {}
  BY <1>1, EmptySeq DEF Elements
<1> QED BY <1>1, <1>2 DEF Attachment

(* A report that is made while the transport is attached. *)
LEMMA SendKeeps ==
  ASSUME PlateTypes, sent = Elements(log), uplink = "up", NEW report \in Tracks,
         CountAndSend(report)
  PROVE  sent' = Elements(log')
<1>1. log' = Append(log, report) /\ sent' = sent \cup {report}
  BY DEF CountAndSend, Attached
<1> QED BY <1>1, ElementsOfAppend DEF PlateTypes

LEMMA AttachmentStep == Safe /\ Shutdown /\ Attachment /\ [Next]_vars => Attachment'
<1> SUFFICES ASSUME Safe, Shutdown, Attachment, Uplink, [Next]_vars
             PROVE  /\ main' = "start" => \A w \in Workers : worker'[w] = "unborn"
                    /\ main' \notin {"start", "stop_uplink", "stop_api", "done"} => uplink' = "up"
                    /\ sent' = Elements(log')
  BY DEF Attachment
<1>0. /\ TypeOK /\ PlateTypes /\ WorkerTypes /\ MainTypes /\ JobsInHand
      /\ main = "start" => \A w \in Workers : worker[w] = "unborn"
      /\ main \notin {"start", "stop_uplink", "stop_api", "done"} => uplink = "up"
      /\ sent = Elements(log)
  BY TypeParts DEF Safe, Attachment
<1>1. CASE UNCHANGED <<main, worker, uplink, log, sent>>
  BY <1>0, <1>1
<1>2. CASE UserStep \/ UNCHANGED vars \/ \E c \in Cameras : CaptureStep(c)
  <2>1. UNCHANGED <<main, worker, uplink, log, sent>>
    BY <1>2 DEF UserStep, CaptureStep, vars, workerVars, mainVars, linkVars, plateVars
  <2> QED BY <1>1, <2>1
<1>3. ASSUME NEW w \in Workers, WorkerStep(w)
      PROVE  /\ main' = "start" => \A v \in Workers : worker'[v] = "unborn"
             /\ main' \notin {"start", "stop_uplink", "stop_api", "done"} => uplink' = "up"
             /\ sent' = Elements(log')
  <2>1. UNCHANGED <<main, uplink>>
    BY <1>3 DEF WorkerStep, mainVars, linkVars
  <2>2. worker[w] \notin {"unborn", "done"}
    BY <1>3 DEF WorkerStep, InitWorker, TestStop, CheckClosed, WaitPop, Recognize, WorkerReports,
                WorkerRecords, WorkerGoto
  <2>3. main # "start" /\ main \notin Flushing
    BY <1>0, <2>2 DEF Shutdown, Joined, WorkersOver
  <2>4. uplink = "up"
    BY <1>0, <2>3 DEF Flushing
  <2>5. CASE UNCHANGED <<log, sent>>
    BY <1>0, <2>1, <2>3, <2>4, <2>5
  <2>6. CASE WorkerReports(w)
    <3>1. CountAndSend({job[w]}) /\ {job[w]} \in Tracks
      BY <1>0, <2>6 DEF WorkerReports, WorkerGoto, JobsInHand, Tracks
    <3>2. sent' = Elements(log')
      BY <1>0, <2>4, <3>1, SendKeeps
    <3> QED BY <2>1, <2>3, <2>4, <3>2
  <2>7. UNCHANGED <<log, sent>> \/ WorkerReports(w)
    BY <1>3 DEF WorkerStep, WorkerRecords, Record, plateVars
  <2> QED BY <2>5, <2>6, <2>7
<1>4. CASE MainStep
  <2>1. CASE MainReports
    <3>1. main \in {"finalize", "flush"}
      BY <2>1 DEF MainReports, Shutdown, Flushed, Idle
    <3>2. PICK t \in finals : CountAndSend(t)
      BY <2>1 DEF MainReports
    <3>3. main' = main /\ uplink' = uplink
      BY <1>4, <2>1, <3>1
      DEF MainStep, MainReports, Start, LaunchCapture, StartApi, LoopTest, EndTurn, EndCollect,
          JoinCaptures, JoinWorkers, RequestStop, CloseQueue, Detach, StopUplink, StopApi, Collect,
          MainRecords, MainGoto, linkVars
    <3>4. sent' = Elements(log')
      BY <1>0, <3>1, <3>2, SendKeeps DEF MainTypes
    <3> QED BY <1>0, <3>1, <3>3, <3>4
  <2>2. UNCHANGED <<log, sent>> \/ MainReports
    BY <1>4 DEF MainStep, Collect, MainRecords, Record, plateVars
  <2>3. main' # "start"
    BY <1>4 DEF MainStep, Start, LaunchCapture, StartApi, LoopTest, EndTurn, EndCollect,
                JoinCaptures, JoinWorkers, RequestStop, CloseQueue, Detach, StopUplink, StopApi,
                Collect, MainReports, MainRecords, MainGoto, FlushNext, Shutdown, Flushed, Idle
  <2>4. main' \notin {"stop_uplink", "stop_api", "done"} => uplink' = "up"
    <3>1. CASE Start
      BY <3>1 DEF Start
    <3>2. CASE uplink' = uplink /\ main \notin {"start", "stop_uplink", "stop_api", "done"}
      BY <1>0, <3>2
    <3>3. CASE Detach \/ StopUplink \/ StopApi
      BY <3>3 DEF Detach, StopUplink, StopApi, MainGoto
    <3>4. CASE MainReports \/ MainRecords \/ Collect
      <4>1. main \in {"finalize", "flush"}
        BY <3>4 DEF MainReports, MainRecords, Collect, Shutdown, Flushed, Idle
      <4>2. uplink' = uplink \/ Start \/ Detach \/ StopUplink
        BY <1>4 DEF MainStep, linkVars, LaunchCapture, StartApi, StopApi
      <4>3. ~Start /\ ~Detach /\ ~StopUplink
        BY <4>1 DEF Start, Detach, StopUplink, MainGoto
      <4> QED BY <3>2, <4>1, <4>2, <4>3
    <3>5. CASE LaunchCapture \/ StartApi
      BY <1>0, <3>5 DEF LaunchCapture, StartApi, MainGoto
    <3>6. CASE (LoopTest \/ EndTurn \/ EndCollect \/ JoinCaptures \/ JoinWorkers) /\ UNCHANGED linkVars
      BY <1>0, <3>6 DEF LoopTest, EndTurn, EndCollect, JoinCaptures, JoinWorkers, MainGoto, linkVars
    <3>7. CASE (RequestStop \/ CloseQueue) /\ UNCHANGED linkVars
      BY <1>0, <3>7 DEF RequestStop, CloseQueue, MainGoto, linkVars
    <3> QED BY <1>4, <3>1, <3>3, <3>4, <3>5, <3>6, <3>7 DEF MainStep
  <2>5. CASE UNCHANGED <<log, sent>>
    BY <1>0, <2>3, <2>4, <2>5
  <2> QED BY <2>1, <2>2, <2>5
<1> QED BY <1>2, <1>3, <1>4 DEF Next, Returned

(* Every report that was counted was handed to the transport: none is made *)
(* before it is attached or after it has been detached, the reports of the *)
(* final flush and those of the last workers included.                     *)
THEOREM EveryReportIsSent == Spec => []UplinkMissesNoReport
<1>1. Attachment => UplinkMissesNoReport
  BY DEF Attachment, UplinkMissesNoReport
<1>2. Spec => []Shutdown
  BY AlwaysSafe, ShutdownInit, ShutdownStep, PTL DEF Spec
<1> QED BY AlwaysSafe, AttachmentInit, AttachmentStep, <1>1, <1>2, PTL DEF Spec

-----------------------------------------------------------------------------
(* Where a reading is.                                                     *)

Open == UNION {tracks[c] : c \in Cameras}
Reported == UNION Elements(log)
Reporting == {w \in Workers : worker[w] = "report"}

(* A track holds readings of its own camera; ... *)
Owned == \A c \in Cameras : \A t \in tracks[c] : t # {} /\ \A r \in t : r[1] = c

(* ... no two of the open and the collected tracks share one; ... *)
Apart ==
    /\ \A s, t \in Open \cup finals : s \cap t # {} => s = t
    /\ Open \cap finals = {}

(* ... nor do two reports, or a report and a track that is still held; ... *)
Unreported ==
    /\ (UNION (Open \cup finals)) \cap Reported = {}
    /\ \A i, j \in 1..Len(log) : log[i] \cap log[j] # {} => i = j

(* ... every reading was recognized before; and the one a worker is about  *)
(* to report is nowhere else.                                              *)
FromRecognized == (UNION (Open \cup finals)) \cup Reported \subseteq recognized

Lone ==
    /\ \A w \in Reporting : /\ job[w] \in recognized \ Reported
                            /\ job[w] \notin UNION (Open \cup finals)
    /\ \A v, w \in Reporting : job[v] = job[w] => v = w

Held == Owned /\ Apart /\ Unreported /\ FromRecognized /\ Lone

LEMMA HeldInit == Init => Held
<1> SUFFICES ASSUME Init PROVE Held
  OBVIOUS
<1>1. /\ \A c \in Cameras : tracks[c] = {}
      /\ finals = {} /\ log = <<>> /\ \A w \in Workers : worker[w] = "unborn"
  BY DEF Init
<1>2. Open = {} /\ Reporting = {}
  BY <1>1 DEF Open, Reporting
<1>3. Len(log) = 0 /\ Reported = {}
  BY <1>1, EmptySeq DEF Reported, Elements
<1> QED BY <1>1, <1>2, <1>3 DEF Held, Owned, Apart, Unreported, FromRecognized, Lone

(* The reports after another one. *)
LEMMA ReportedStep ==
  ASSUME PlateTypes, Unreported, NEW t \in Tracks, log' = Append(log, t), t \cap Reported = {}
  PROVE  /\ Reported' = Reported \cup t
         /\ (\A i, j \in 1..Len(log) : log[i] \cap log[j] # {} => i = j)'
<1>1. /\ Len(log) \in Nat /\ Len(log') = Len(log) + 1
      /\ \A i \in 1..Len(log) : log'[i] = log[i]
      /\ log'[Len(log) + 1] = t
  BY AppendProperties, LenProperties DEF PlateTypes
<1>2. Elements(log') = Elements(log) \cup {t}
  BY ElementsOfAppend DEF PlateTypes
<1>3. Reported' = Reported \cup t
  BY <1>2 DEF Reported
<1>4. \A i \in 1..Len(log) : log[i] \cap t = {}
  BY DEF Reported, Elements
<1>5. ASSUME NEW i \in 1..(Len(log) + 1), NEW j \in 1..(Len(log) + 1), log'[i] \cap log'[j] # {}
      PROVE  i = j
  <2>1. CASE i \in 1..Len(log) /\ j \in 1..Len(log)
    BY <1>1, <1>5, <2>1 DEF Unreported
  <2>2. CASE i = Len(log) + 1 /\ j \in 1..Len(log)
    BY <1>1, <1>4, <1>5, <2>2
  <2>3. CASE j = Len(log) + 1 /\ i \in 1..Len(log)
    BY <1>1, <1>4, <1>5, <2>3
  <2> QED BY <1>1, <2>1, <2>2, <2>3
<1> QED BY <1>1, <1>3, <1>5

(* What Held is about stays as it is, or a worker that is not reporting    *)
(* moves, or jobs are recognized.                                          *)
LEMMA StillHeld ==
  ASSUME Held, UNCHANGED <<tracks, finals, log>>, recognized \subseteq recognized',
         Reporting' \subseteq Reporting, \A w \in Reporting' : job'[w] = job[w]
  PROVE  Held'
<1>1. Open' = Open /\ Reported' = Reported
  BY DEF Open, Reported
<1> QED BY <1>1 DEF Held, Owned, Apart, Unreported, FromRecognized, Lone

LEMMA RecognizeHeld ==
  ASSUME TypeOK, JobsInHand, Placed, Held, NEW w \in Workers, Recognize(w),
         UNCHANGED <<log, finals>>
  PROVE  Held'
<1> DEFINE r == job[w]
           c == job[w][1]
<1>0. WorkerTypes /\ SharedTypes /\ MainTypes
  BY TypeParts
<1>1. worker[w] = "work" /\ r \in Jobs /\ c \in Cameras /\ recognized' = recognized \cup {r}
  BY DEF Recognize, WorkerGoto, JobsInHand, Jobs
<1>2. r \notin recognized
  <2>1. r \in InHand
    BY <1>1 DEF InHand, Busy
  <2> QED BY <2>1 DEF Placed, JobsRunOnce
<1>3. r \notin UNION (Open \cup finals) /\ r \notin Reported /\ \A v \in Reporting : job[v] # r
  BY <1>2 DEF Held, FromRecognized, Lone
<1>4. Reported' = Reported
  BY DEF Reported
<1>5. CASE UNCHANGED tracks /\ ~(Consolidate /\ worker' = [worker EXCEPT ![w] = "loop"])
  <2>1. Open' = Open
    BY <1>5 DEF Open
  <2>2. \A v \in Reporting' : (v \in Reporting /\ job'[v] = job[v]) \/ (v = w /\ job'[v] = r)
    BY <1>0 DEF Recognize, WorkerGoto, Release, Reporting, WorkerTypes
  <2>3. Lone'
    BY <1>1, <1>3, <1>4, <2>1, <2>2 DEF Held, Lone
  <2> QED BY <1>1, <1>4, <1>5, <2>1, <2>3 DEF Held, Owned, Apart, Unreported, FromRecognized
<1>6. CASE UNCHANGED tracks /\ worker' = [worker EXCEPT ![w] = "loop"]
  <2>1. Reporting' \subseteq Reporting /\ \A v \in Reporting' : job'[v] = job[v]
    BY <1>0, <1>1, <1>6 DEF Recognize, Release, Reporting, WorkerTypes
  <2> QED BY <1>1, <1>6, <2>1, StillHeld
<1>7. CASE AddReading(c, r) /\ worker' = [worker EXCEPT ![w] = "loop"]
  <2>1. Reporting' = Reporting /\ \A v \in Reporting' : job'[v] = job[v]
    BY <1>0, <1>1, <1>7 DEF Recognize, WorkerGoto, Release, Reporting, WorkerTypes
  <2>2. tracks[c] \subseteq Open /\ r[1] = c
    BY <1>1 DEF Open
  <2>3. PICK old, new :
          /\ old \in SUBSET tracks[c]
          /\ tracks' = [tracks EXCEPT ![c] = (@ \ old) \cup {new}]
          /\ new = (UNION old) \cup {r}
    <3>1. CASE tracks' = [tracks EXCEPT ![c] = @ \cup {{r}}]
      <4>1. tracks' = [tracks EXCEPT ![c] = (@ \ {}) \cup {{r}}] /\ (UNION {}) \cup {r} = {r}
        BY <3>1
      <4> QED BY <4>1
    <3>2. ASSUME NEW t \in tracks[c], tracks' = [tracks EXCEPT ![c] = (@ \ {t}) \cup {t \cup {r}}]
          PROVE  \E old, new :
                   /\ old \in SUBSET tracks[c]
                   /\ tracks' = [tracks EXCEPT ![c] = (@ \ old) \cup {new}]
                   /\ new = (UNION old) \cup {r}
      <4>1. {t} \in SUBSET tracks[c] /\ t \cup {r} = (UNION {t}) \cup {r}
        OBVIOUS
      <4> QED BY <3>2, <4>1
    <3> QED BY <1>7, <3>1, <3>2 DEF AddReading
  <2>4. \A d \in Cameras : tracks'[d] = IF d = c THEN (tracks[c] \ old) \cup {new} ELSE tracks[d]
    BY <1>0, <2>3 DEF SharedTypes
  <2> HIDE DEF r, c
  <2>5. old \subseteq Open /\ r \in new /\ new \subseteq (UNION Open) \cup {r}
    BY <2>2, <2>3
  <2>6. Open' \subseteq (Open \ old) \cup {new}
    <3> SUFFICES ASSUME NEW d \in Cameras, NEW t \in tracks'[d] PROVE t \in (Open \ old) \cup {new}
      BY DEF Open
    <3>1. CASE t = new
      BY <3>1
    <3>2. CASE t # new /\ d = c
      BY <1>1, <2>4, <3>2 DEF Open
    <3>3. CASE t # new /\ d # c
      <4>1. t \in tracks[d] /\ t \in Open
        BY <2>4, <3>3 DEF Open
      <4>2. t \notin tracks[c]
        BY <1>1, <3>3, <4>1 DEF Held, Owned
      <4> QED BY <2>3, <4>1, <4>2
    <3> QED BY <3>1, <3>2, <3>3
  <2>7. Owned'
    <3>1. \A x \in new : x[1] = c
      BY <1>1, <2>2, <2>3 DEF Held, Owned
    <3> QED BY <2>4, <2>5, <3>1 DEF Held, Owned
  <2>8. \A s \in (Open \ old) \cup finals : s \cap new = {}
    <3> SUFFICES ASSUME NEW s \in (Open \ old) \cup finals, NEW x \in s, x \in new PROVE FALSE
      OBVIOUS
    <3>1. x # r
      BY <1>3
    <3>2. PICK t \in old : x \in t
      BY <2>3, <3>1
    <3>3. s = t
      BY <2>5, <3>2 DEF Held, Apart
    <3>4. t \in Open /\ s \in finals
      BY <2>5, <3>2, <3>3
    <3> QED BY <3>3, <3>4 DEF Held, Apart
  <2>9. Apart'
    <3>1. new \notin finals
      BY <1>3, <2>5
    <3>2. Open' \cap finals' = {}
      BY <2>6, <3>1 DEF Held, Apart
    <3>3. ASSUME NEW s \in (Open \ old) \cup {new} \cup finals,
                 NEW t \in (Open \ old) \cup {new} \cup finals, s \cap t # {}
          PROVE  s = t
      BY <2>8, <3>3 DEF Held, Apart
    <3> QED BY <2>6, <3>2, <3>3 DEF Apart
  <2>10. (UNION (Open' \cup finals')) \subseteq (UNION (Open \cup finals)) \cup {r}
    BY <2>5, <2>6
  <2>11. Unreported'
    BY <1>3, <1>4, <2>10 DEF Held, Unreported
  <2>12. FromRecognized'
    BY <1>1, <1>4, <2>10 DEF Held, FromRecognized
  <2>13. Lone'
    BY <1>1, <1>3, <1>4, <2>1, <2>10 DEF Held, Lone
  <2> QED BY <2>7, <2>9, <2>11, <2>12, <2>13 DEF Held
<1> QED BY <1>5, <1>6, <1>7 DEF Recognize, WorkerGoto

LEMMA WorkerHeld ==
  ASSUME TypeOK, JobsInHand, Placed, Held, NEW w \in Workers, WorkerStep(w)
  PROVE  Held'
<1>0. /\ WorkerTypes /\ PlateTypes /\ MainTypes /\ finals' = finals
  BY TypeParts DEF WorkerStep, mainVars
<1>1. CASE Recognize(w) /\ UNCHANGED plateVars
  BY <1>0, <1>1, RecognizeHeld DEF plateVars
<1>2. CASE WorkerReports(w) /\ UNCHANGED <<recognized, tracks>>
  <2>1. /\ worker[w] = "report" /\ worker' = [worker EXCEPT ![w] = "record"]
        /\ log' = Append(log, {job[w]}) /\ job' = job
    BY <1>2 DEF WorkerReports, WorkerGoto, CountAndSend
  <2>2. /\ w \in Reporting /\ Reporting' = Reporting \ {w} /\ {job[w]} \in Tracks
        /\ job[w] \in recognized /\ job[w] \notin Reported /\ job[w] \notin UNION (Open \cup finals)
    BY <1>0, <2>1 DEF Reporting, WorkerTypes, Held, Lone, JobsInHand, Tracks
  <2>3. /\ Reported' = Reported \cup {job[w]}
        /\ (\A i, j \in 1..Len(log) : log[i] \cap log[j] # {} => i = j)'
    BY <1>0, <2>1, <2>2, ReportedStep DEF Held
  <2>4. Open' = Open
    BY <1>2 DEF Open
  <2>5. Unreported'
    BY <1>0, <2>2, <2>3, <2>4 DEF Held, Unreported
  <2>6. FromRecognized'
    BY <1>0, <1>2, <2>2, <2>3, <2>4 DEF Held, FromRecognized
  <2>7. Lone'
    BY <1>0, <1>2, <2>1, <2>2, <2>3, <2>4 DEF Held, Lone
  <2> QED BY <1>0, <1>2, <2>4, <2>5, <2>6, <2>7 DEF Held, Owned, Apart
<1>3. CASE /\ \/ InitWorker(w) /\ job' = job
              \/ (TestStop(w) \/ CheckClosed(w)) /\ job' = job
              \/ WaitPop(w) \/ WorkerRecords(w)
           /\ UNCHANGED <<tracks, log, recognized>>
  <2>1. UNCHANGED <<tracks, log, recognized>>
    BY <1>3
  <2>2. /\ \E there \in WorkerStates \ {"report"} : worker' = [worker EXCEPT ![w] = there]
        /\ \A v \in Workers \ {w} : job'[v] = job[v]
    BY <1>0, <1>3 DEF InitWorker, TestStop, CheckClosed, WaitPop, WorkerRecords, WorkerGoto,
                      AfterReport, Release, WorkerTypes, WorkerStates
  <2>3. w \notin Reporting' /\ Reporting' \subseteq Reporting
    BY <1>0, <2>2 DEF Reporting, WorkerTypes
  <2>4. \A v \in Reporting' : job'[v] = job[v]
    BY <2>2, <2>3 DEF Reporting
  <2> QED BY <1>0, <2>1, <2>3, <2>4, StillHeld
<1> QED BY <1>1, <1>2, <1>3 DEF WorkerStep, WorkerRecords, Record, plateVars

LEMMA CollectHeld ==
  ASSUME TypeOK, Held, Collect, UNCHANGED <<worker, job, recognized>>
  PROVE  Held'
<1>1. PICK gone \in SUBSET tracks[next] :
        /\ tracks' = [tracks EXCEPT ![next] = tracks[next] \ gone]
        /\ finals' \subseteq gone
  BY DEF Collect, Erase
<1>2. next \in Cameras /\ finals = {} /\ log' = log
  BY DEF Collect, Idle, plateVars
<1>3. \A d \in Cameras : tracks'[d] = IF d = next THEN tracks[next] \ gone ELSE tracks[d]
  BY <1>1 DEF TypeOK
<1>4. Open' \subseteq Open /\ finals' \subseteq Open
  BY <1>1, <1>2, <1>3 DEF Open
<1>5. Owned'
  BY <1>3 DEF Held, Owned
<1>6. Open' \cap finals' = {}
  <2> SUFFICES ASSUME NEW d \in Cameras, NEW t \in tracks'[d], t \in gone PROVE FALSE
    BY <1>1 DEF Open
  <2>1. d # next /\ t \in tracks[d] /\ t \in tracks[next]
    BY <1>1, <1>3
  <2>2. PICK x \in t : TRUE
    BY <1>2, <2>1 DEF Held, Owned
  <2> QED BY <1>2, <2>1, <2>2 DEF Held, Owned
<1>7. Apart'
  BY <1>4, <1>6 DEF Held, Apart
<1>8. Reported' = Reported /\ Reporting' = Reporting
  BY <1>2 DEF Reported, Reporting
<1>9. UNION (Open' \cup finals') \subseteq UNION (Open \cup finals)
  BY <1>4
<1>10. Unreported' /\ FromRecognized' /\ Lone'
  BY <1>2, <1>8, <1>9 DEF Held, Unreported, FromRecognized, Lone
<1> QED BY <1>5, <1>7, <1>10 DEF Held

LEMMA MainReportsHeld ==
  ASSUME TypeOK, Held, MainReports, UNCHANGED <<worker, job, recognized>>
  PROVE  Held'
<1>1. PICK t \in finals : finals' = finals \ {t} /\ log' = Append(log, t)
  BY DEF MainReports, CountAndSend
<1>2. t \in Tracks /\ PlateTypes /\ tracks' = tracks
  BY TypeParts DEF MainTypes, MainReports
<1>3. Open' = Open /\ Reporting' = Reporting
  BY <1>2 DEF Open, Reporting
<1>4. t \cap Reported = {} /\ t \subseteq recognized
  BY DEF Held, Unreported, FromRecognized
<1>5. /\ Reported' = Reported \cup t
      /\ (\A i, j \in 1..Len(log) : log[i] \cap log[j] # {} => i = j)'
  BY <1>1, <1>2, <1>4, ReportedStep DEF Held
<1>6. \A s \in Open \cup finals' : s \cap t = {}
  <2> SUFFICES ASSUME NEW s \in Open \cup finals', s \cap t # {} PROVE FALSE
    OBVIOUS
  <2>1. s = t
    BY <1>1 DEF Held, Apart
  <2> QED BY <1>1, <2>1 DEF Held, Apart
<1>7. /\ UNION (Open' \cup finals') \subseteq UNION (Open \cup finals)
      /\ (UNION (Open' \cup finals')) \cap t = {}
  BY <1>1, <1>3, <1>6
<1>8. Apart'
  BY <1>1, <1>3 DEF Held, Apart
<1>9. Unreported'
  BY <1>5, <1>7 DEF Held, Unreported
<1>10. FromRecognized'
  BY <1>4, <1>5, <1>7 DEF Held, FromRecognized
<1>11. Lone'
  <2>1. \A w \in Reporting : job[w] \notin t
    BY DEF Held, Lone
  <2> QED BY <1>3, <1>5, <1>7, <2>1 DEF Held, Lone
<1> QED BY <1>2, <1>8, <1>9, <1>10, <1>11 DEF Held, Owned

LEMMA HeldStep == Safe /\ Placed /\ Held /\ [Next]_vars => Held'
<1> SUFFICES ASSUME Safe, Placed, Held, [Next]_vars PROVE Held'
  OBVIOUS
<1>1. CASE UserStep \/ UNCHANGED vars \/ \E c \in Cameras : CaptureStep(c)
  <2>1. UNCHANGED <<tracks, finals, log, recognized, worker, job>>
    BY <1>1 DEF UserStep, CaptureStep, vars, workerVars, mainVars, plateVars
  <2>2. Reporting' = Reporting
    BY <2>1 DEF Reporting
  <2> QED BY <2>1, <2>2, StillHeld
<1>2. ASSUME NEW w \in Workers, WorkerStep(w) PROVE Held'
  BY <1>2, WorkerHeld DEF Safe
<1>3. CASE MainStep
  <2>1. UNCHANGED <<job, recognized>>
    BY <1>3 DEF MainStep
  <2>2. CASE Collect \/ MainReports
    <3>1. worker' = worker
      <4>1. ~Start
        BY <2>2 DEF Collect, MainReports, Start, MainGoto, CountAndSend
      <4> QED BY <1>3, <4>1 DEF MainStep, LaunchCapture, StartApi
    <3> QED BY <2>1, <2>2, <3>1, CollectHeld, MainReportsHeld DEF Safe
  <2>3. CASE ~Collect /\ ~MainReports
    <3>1. UNCHANGED <<tracks, finals, log>>
      BY <1>3, <2>3 DEF MainStep, MainRecords, Record, plateVars
    <3>2. Reporting' \subseteq Reporting
      <4>1. worker' = worker \/ \A w \in Workers : worker'[w] = "init"
        BY <1>3 DEF MainStep, Start, LaunchCapture, StartApi
      <4> QED BY <4>1 DEF Reporting
    <3> QED BY <2>1, <3>1, <3>2, StillHeld
  <2> QED BY <2>2, <2>3
<1> QED BY <1>1, <1>2, <1>3 DEF Next, Returned

(* A reading ends up in at most one report: the tracks that workers extend *)
(* and the main thread collects, the collected ones and everything ever    *)
(* reported never share one, and without consolidation a reading that a    *)
(* worker is about to report is in none of them.                           *)
THEOREM ReadingsAreReportedOnce == Spec => []ReadingsReportedOnce
<1>1. Held => ReadingsReportedOnce
  BY DEF Held, Apart, Unreported, Open, Reported, ReadingsReportedOnce
<1> QED BY AlwaysSafe, PlacedInit, PlacedStep, HeldInit, HeldStep, <1>1, PTL DEF Spec

-----------------------------------------------------------------------------
(* The pipeline implements PlateLog, for any number of frames.             *)

Log == INSTANCE PlateLog
         WITH Readings <- Jobs, Needed <- IF Consolidate THEN MinSightings ELSE 1,
              open <- OpenTracks, ended <- main = "done"

(* Without consolidation there is no tracker to fill. *)
Untracked == ~Consolidate => Open = {}

(* A worker reports by itself only without consolidation, the main thread  *)
(* only with it, and what it has collected is enough for a report.         *)
Substantial ==
    /\ main = "start" => \A w \in Workers : worker[w] = "unborn"
    /\ Consolidate => Reporting = {}
    /\ ~Consolidate => finals = {}
    /\ \A t \in finals : Log!Enough(t)

(* What is enough. *)
LEMMA EnoughIs ==
  ASSUME NEW t
  PROVE  /\ Consolidate => (Log!Enough(t) <=> Cardinality(t) >= MinSightings)
         /\ ~Consolidate => (Log!Enough(t) <=> Cardinality(t) >= 1)
<1>1. CASE Consolidate
  <2>1. (IF Consolidate THEN MinSightings ELSE 1) = MinSightings
    BY <1>1
  <2> QED BY <1>1, <2>1, Zenon DEF Log!Enough, Log!Cardinality, Cardinality
<1>2. CASE ~Consolidate
  <2>1. (IF Consolidate THEN MinSightings ELSE 1) = 1
    BY <1>2
  <2> QED BY <1>2, <2>1, Zenon DEF Log!Enough, Log!Cardinality, Cardinality
<1> QED BY <1>1, <1>2

LEMMA OpenIs ==
  /\ OpenTracks = Open \cup finals \cup Pending
  /\ OpenTracks' = Open' \cup finals' \cup Pending'
BY DEF OpenTracks, Open

LEMMA PendingIs ==
  /\ Pending = {{job[w]} : w \in Reporting}
  /\ Pending' = {{job'[w]} : w \in Reporting'}
BY DEF Pending, Reporting

LEMMA UntrackedInit == Init => Untracked
<1> SUFFICES ASSUME Init PROVE Open = {}
  BY DEF Untracked
<1>1. \A c \in Cameras : tracks[c] = {}
  BY DEF Init
<1> QED BY <1>1 DEF Open

LEMMA UntrackedStep == TypeOK /\ Untracked /\ [Next]_vars => Untracked'
<1> SUFFICES ASSUME TypeOK, [Next]_vars, ~Consolidate, Open = {} PROVE Open' = {}
  BY DEF Untracked
<1>1. \A c \in Cameras : tracks[c] = {}
  BY DEF Open
<1>2. CASE UNCHANGED tracks
  BY <1>2 DEF Open
<1>3. ASSUME Collect PROVE \A c \in Cameras : tracks'[c] = {}
  <2>1. PICK gone : tracks' = [tracks EXCEPT ![next] = tracks[next] \ gone]
    BY <1>3 DEF Collect, Erase
  <2> QED BY <1>1, <2>1 DEF TypeOK
<1>4. UNCHANGED tracks \/ Collect
  BY DEF Next, Returned, vars, CaptureStep, UserStep, WorkerStep, MainStep, Recognize, MainReports,
         MainRecords
<1> QED BY <1>2, <1>3, <1>4 DEF Open

LEMMA SubstantialInit == Init => Substantial
<1> SUFFICES ASSUME Init PROVE Substantial
  OBVIOUS
<1>1. finals = {} /\ \A w \in Workers : worker[w] = "unborn"
  BY DEF Init
<1> QED BY <1>1 DEF Substantial, Reporting

LEMMA SubstantialStep == TypeOK /\ Untracked /\ Substantial /\ [Next]_vars => Substantial'
<1> SUFFICES ASSUME TypeOK, Untracked, Substantial, [Next]_vars PROVE Substantial'
  OBVIOUS
<1>0. WorkerTypes
  BY TypeParts
<1>1. CASE UserStep \/ UNCHANGED vars \/ \E c \in Cameras : CaptureStep(c)
  <2>1. UNCHANGED <<main, worker, finals>>
    BY <1>1 DEF UserStep, CaptureStep, vars, workerVars, mainVars
  <2> QED BY <2>1 DEF Substantial, Reporting, Log!Enough
<1>2. ASSUME NEW w \in Workers, WorkerStep(w) PROVE Substantial'
  <2>1. UNCHANGED <<main, finals>> /\ worker[w] # "unborn"
    BY <1>2 DEF WorkerStep, mainVars, InitWorker, TestStop, CheckClosed, WaitPop, Recognize,
                WorkerReports, WorkerRecords, WorkerGoto
  <2>2. main # "start"
    BY <2>1 DEF Substantial
  <2>3. ASSUME Consolidate PROVE Reporting' = {}
    <3>1. /\ worker'[w] # "report"
          /\ \A v \in Workers \ {w} : worker'[v] = worker[v]
      BY <1>0, <1>2, <2>3 DEF WorkerStep, InitWorker, TestStop, CheckClosed, WaitPop, Recognize,
                  WorkerReports, WorkerRecords, WorkerGoto, AfterReport, WorkerTypes
    <3> QED BY <2>3, <3>1 DEF Substantial, Reporting
  <2> QED BY <2>1, <2>2, <2>3 DEF Substantial, Log!Enough
<1>3. ASSUME MainStep PROVE Substantial'
  <2>1. CASE Start
    <3>1. main = "start" /\ main' = "launch" /\ \A w \in Workers : worker'[w] = "init"
      BY <2>1 DEF Start, MainGoto
    <3>2. UNCHANGED finals
      BY <1>3, <3>1 DEF MainStep, Collect, MainReports, MainRecords
    <3> QED BY <3>1, <3>2 DEF Substantial, Reporting, Log!Enough
  <2>2. ASSUME ~Start PROVE worker' = worker /\ (main' = "start" => main = "start")
    <3>1. worker' = worker
      BY <1>3, <2>2 DEF MainStep, LaunchCapture, StartApi
    <3>2. main' = "start" => main = "start"
      BY <1>3, <2>2 DEF MainStep, LaunchCapture, StartApi, LoopTest, EndTurn, EndCollect,
                  JoinCaptures, JoinWorkers, FlushNext, Collect, MainReports, MainRecords,
                  RequestStop, CloseQueue, Detach, StopUplink, StopApi, MainGoto
    <3> QED BY <3>1, <3>2
  <2>3. CASE Collect
    <3>1. ~Start
      BY <2>3 DEF Collect, Start, MainGoto
    <3>2. PICK gone \in SUBSET tracks[next] : finals' = {t \in gone : Cardinality(t) >= MinSightings}
      BY <2>3 DEF Collect
    <3>3. ~Consolidate => gone = {}
      BY <2>3, <3>2 DEF Untracked, Open, Collect
    <3>4. \A t \in finals' : Log!Enough(t)
      BY <3>2, <3>3, EnoughIs
    <3>5. (\A t \in finals : Log!Enough(t))'
      BY <3>4 DEF Log!Enough
    <3> QED BY <2>2, <3>1, <3>2, <3>3, <3>5 DEF Substantial, Reporting
  <2>4. CASE ~Start /\ ~Collect
    <3>1. finals' \subseteq finals
      BY <1>3, <2>4 DEF MainStep, MainReports, MainRecords
    <3> QED BY <2>2, <2>4, <3>1 DEF Substantial, Reporting, Log!Enough
  <2> QED BY <2>1, <2>3, <2>4
<1> QED BY <1>1, <1>2, <1>3 DEF Next, Returned

(* A reading that is recognized now is new to the log. *)
LEMMA FreshReading ==
  ASSUME JobsInHand, Placed, Held, NEW w \in Workers, worker[w] = "work"
  PROVE  job[w] \in Jobs \ Log!Known
<1>1. job[w] \in Jobs /\ job[w] \notin recognized
  BY DEF JobsInHand, InHand, Busy, Placed, JobsRunOnce
<1>2. UNION Pending \subseteq recognized
  BY PendingIs DEF Held, Lone
<1>3. UNION {log[i] : i \in 1..Len(log)} = Reported
  BY DEF Reported, Elements
<1> QED BY <1>1, <1>2, <1>3, OpenIs DEF Log!Known, Held, FromRecognized

LEMMA RecognizeObserves ==
  ASSUME TypeOK, JobsInHand, Placed, Held, main # "done", NEW w \in Workers, Recognize(w),
         UNCHANGED <<log, finals, main>>
  PROVE  Log!Observe \/ UNCHANGED Log!vars
<1> DEFINE r == job[w]
           c == job[w][1]
<1>0. WorkerTypes /\ SharedTypes
  BY TypeParts
<1>1. worker[w] = "work" /\ r \in Jobs /\ c \in Cameras
  BY DEF Recognize, WorkerGoto, JobsInHand, Jobs
<1>2. r \in Jobs \ Log!Known
  BY <1>1, FreshReading
<1>3. CASE ~Consolidate /\ WorkerGoto(w, "work", "report") /\ UNCHANGED <<tracks, job>>
  <2>1. Reporting' = Reporting \cup {w}
    BY <1>0, <1>3 DEF WorkerGoto, Reporting, WorkerTypes
  <2>2. Pending' = Pending \cup {{r}}
    BY <1>3, <2>1, PendingIs
  <2>3. Open' = Open
    BY <1>3 DEF Open
  <2>4. OpenTracks' = OpenTracks \cup {{r}}
    BY <2>2, <2>3, OpenIs
  <2> QED BY <1>2, <2>4 DEF Log!Observe
<1>4. ASSUME WorkerGoto(w, "work", "loop"), Release(w) PROVE Pending' = Pending
  <2>1. Reporting' = Reporting /\ \A v \in Reporting : job'[v] = job[v]
    BY <1>0, <1>4 DEF WorkerGoto, Release, Reporting, WorkerTypes
  <2> QED BY <2>1, PendingIs
<1>5. CASE WorkerGoto(w, "work", "loop") /\ UNCHANGED tracks /\ Release(w)
  <2>1. OpenTracks' = OpenTracks
    BY <1>4, <1>5 DEF OpenTracks
  <2> QED BY <2>1 DEF Log!vars
<1>6. CASE /\ WorkerGoto(w, "work", "loop") /\ Release(w)
           /\ tracks' = [tracks EXCEPT ![c] = @ \cup {{r}}]
  <2>1. \A d \in Cameras : tracks'[d] = IF d = c THEN tracks[d] \cup {{r}} ELSE tracks[d]
    BY <1>0, <1>6 DEF SharedTypes
  <2> HIDE DEF r, c
  <2>2. Open' = Open \cup {{r}}
    <3>1. \A t : (\E d \in Cameras : t \in tracks'[d])
                 <=> (t = {r} \/ \E d \in Cameras : t \in tracks[d])
      BY <1>1, <2>1
    <3> QED BY <3>1 DEF Open
  <2>3. OpenTracks' = OpenTracks \cup {{r}}
    BY <1>4, <1>6, <2>2, OpenIs
  <2> QED BY <1>2, <2>3 DEF Log!Observe
<1>7. ASSUME WorkerGoto(w, "work", "loop"), Release(w), NEW t \in tracks[c],
             tracks' = [tracks EXCEPT ![c] = (@ \ {t}) \cup {t \cup {r}}]
      PROVE  Log!Observe
  <2>1. \A d \in Cameras : tracks'[d] = IF d = c THEN (tracks[d] \ {t}) \cup {t \cup {r}}
                                                 ELSE tracks[d]
    BY <1>0, <1>7 DEF SharedTypes
  <2> HIDE DEF r, c
  <2>2. t \in Open
    BY <1>1 DEF Open
  <2>3. \A d \in Cameras \ {c} : t \notin tracks[d]
    <3> SUFFICES ASSUME NEW d \in Cameras \ {c}, t \in tracks[d] PROVE FALSE
      OBVIOUS
    <3>1. PICK x \in t : TRUE
      BY DEF Held, Owned
    <3> QED BY <1>1, <3>1 DEF Held, Owned
  <2>4. Open' = (Open \ {t}) \cup {t \cup {r}}
    <3>1. \A s : (\E d \in Cameras : s \in tracks'[d])
                 <=> (s = t \cup {r} \/ (s # t /\ \E d \in Cameras : s \in tracks[d]))
      <4> DEFINE joined == t \cup {r}
      <4>1. \A s : s \in tracks'[c] <=> (s = joined \/ (s # t /\ s \in tracks[c]))
        BY <1>1, <2>1
      <4>2. \A d \in Cameras \ {c} : tracks'[d] = tracks[d]
        BY <2>1
      <4> HIDE DEF joined
      <4>3. \A s : (\E d \in Cameras : s \in tracks'[d])
                   <=> (s = joined \/ (s # t /\ \E d \in Cameras : s \in tracks[d]))
        BY <1>1, <2>3, <4>1, <4>2
      <4> QED BY <4>3 DEF joined
    <3> QED BY <3>1 DEF Open
  <2>5. t \notin finals /\ t \notin Pending
    BY <2>2, PendingIs DEF Held, Apart, Lone
  <2>6. OpenTracks' = (OpenTracks \ {t}) \cup {t \cup {r}}
    BY <1>4, <1>7, <2>4, <2>5, OpenIs
  <2>7. t \in OpenTracks
    BY <2>2, OpenIs
  <2> QED BY <1>2, <2>6, <2>7 DEF Log!Observe
<1> QED BY <1>3, <1>5, <1>6, <1>7 DEF Recognize, AddReading

LEMMA WorkerImplements ==
  ASSUME TypeOK, JobsInHand, Placed, Held, Shutdown, Substantial, NEW w \in Workers,
         WorkerStep(w)
  PROVE  [Log!Next]_(Log!vars)
<1>0. WorkerTypes /\ UNCHANGED <<main, finals>>
  BY TypeParts DEF WorkerStep, mainVars
<1>1. ASSUME worker[w] # "done" PROVE main # "done"
  BY <1>1 DEF Shutdown, Joined, Flushing, WorkersOver
<1>2. CASE Recognize(w) /\ UNCHANGED plateVars
  <2>1. worker[w] # "done"
    BY <1>2 DEF Recognize, WorkerGoto
  <2> QED BY <1>0, <1>1, <1>2, <2>1, RecognizeObserves DEF plateVars, Log!Next
<1>3. CASE WorkerReports(w) /\ UNCHANGED tracks
  <2>1. /\ worker[w] = "report" /\ worker' = [worker EXCEPT ![w] = "record"]
        /\ log' = Append(log, {job[w]}) /\ job' = job
    BY <1>3 DEF WorkerReports, WorkerGoto, CountAndSend
  <2>2. w \in Reporting /\ Reporting' = Reporting \ {w}
    BY <1>0, <2>1 DEF Reporting, WorkerTypes
  <2>3. \A v \in Reporting : {job[v]} = {job[w]} => v = w
    BY <2>2 DEF Held, Lone
  <2>4. Pending' = Pending \ {{job[w]}} /\ {job[w]} \in Pending
    BY <2>1, <2>2, <2>3, PendingIs
  <2>5. {job[w]} \notin Open \cup finals
    BY <2>2 DEF Held, Lone
  <2>6. Open' = Open
    BY <1>3 DEF Open
  <2>7. OpenTracks' = OpenTracks \ {{job[w]}} /\ {job[w]} \in OpenTracks
    BY <1>0, <2>4, <2>5, <2>6, OpenIs
  <2>8. Log!Enough({job[w]})
    <3>1. ~Consolidate
      BY <2>2 DEF Substantial
    <3>2. Cardinality({job[w]}) >= 1
      BY FS_Singleton
    <3> QED BY <3>1, <3>2, EnoughIs
  <2> QED BY <1>0, <1>1, <2>1, <2>7, <2>8 DEF Log!Next, Log!Report
<1>4. CASE /\ \/ InitWorker(w) /\ job' = job
              \/ (TestStop(w) \/ CheckClosed(w)) /\ job' = job
              \/ WaitPop(w) \/ WorkerRecords(w)
           /\ UNCHANGED <<tracks, log>>
  <2>1. /\ \E there \in WorkerStates \ {"report"} : worker' = [worker EXCEPT ![w] = there]
        /\ worker[w] # "report"
        /\ \A v \in Workers \ {w} : job'[v] = job[v]
    BY <1>0, <1>4 DEF InitWorker, TestStop, CheckClosed, WaitPop, WorkerRecords, WorkerGoto,
                      AfterReport, Release, WorkerTypes, WorkerStates
  <2>2. Reporting' = Reporting /\ \A v \in Reporting : job'[v] = job[v]
    BY <1>0, <2>1 DEF Reporting, WorkerTypes
  <2>3. OpenTracks' = OpenTracks
    BY <1>0, <1>4, <2>2, PendingIs DEF OpenTracks
  <2> QED BY <1>0, <1>4, <2>3 DEF Log!vars
<1> QED BY <1>2, <1>3, <1>4 DEF WorkerStep, WorkerRecords, Record, plateVars

LEMMA MainImplements ==
  ASSUME TypeOK, Held, Shutdown, Untracked, Substantial, MainStep
  PROVE  [Log!Next]_(Log!vars)
<1>0. job' = job /\ SharedTypes
  BY TypeParts DEF MainStep
<1>1. ASSUME ~Start PROVE Pending' = Pending
  <2>1. worker' = worker
    BY <1>1 DEF MainStep, LaunchCapture, StartApi
  <2> QED BY <1>0, <2>1 DEF Pending
<1>2. CASE Collect
  <2>1. main \in {"finalize", "flush"} /\ UNCHANGED <<main, log>> /\ finals = {}
        /\ next \in Cameras
    BY <1>2 DEF Collect, Idle, plateVars
  <2>2. PICK gone \in SUBSET tracks[next] :
          /\ tracks' = [tracks EXCEPT ![next] = tracks[next] \ gone]
          /\ finals' = {t \in gone : Cardinality(t) >= MinSightings}
    BY <1>2 DEF Collect, Erase
  <2>3. \A c \in Cameras : tracks'[c] = IF c = next THEN tracks[c] \ gone ELSE tracks[c]
    BY <1>0, <2>2 DEF SharedTypes
  <2>4. Open' \subseteq Open /\ finals' \subseteq Open
    BY <2>1, <2>2, <2>3 DEF Open
  <2>5. Pending' = Pending
    BY <1>1, <2>1 DEF Start, MainGoto
  <2>6. OpenTracks' \subseteq OpenTracks
    BY <2>4, <2>5, OpenIs
  <2>7. ASSUME NEW t \in OpenTracks, Log!Enough(t) PROVE t \in OpenTracks'
    <3>1. CASE t \in Open
      <4>1. Consolidate /\ Cardinality(t) >= MinSightings
        BY <2>7, <3>1, EnoughIs DEF Untracked
      <4>2. t \in Open' \/ t \in finals'
        BY <2>2, <2>3, <3>1, <4>1 DEF Open
      <4> QED BY <4>2, OpenIs
    <3> QED BY <2>1, <2>5, <2>7, <3>1, OpenIs
  <2> QED BY <2>1, <2>6, <2>7 DEF Log!Next, Log!Forget
<1>3. CASE MainReports
  <2>1. PICK t \in finals : finals' = finals \ {t} /\ log' = Append(log, t)
    BY <1>3 DEF MainReports, CountAndSend
  <2>2. main \in {"finalize", "flush"} /\ main' = main /\ tracks' = tracks
    BY <1>3, <2>1 DEF MainReports, Shutdown, Flushed, Idle
  <2>3. t \notin Open /\ t \notin Pending
    BY <2>1, PendingIs DEF Held, Apart, Lone
  <2>4. Pending' = Pending /\ Open' = Open
    BY <1>1, <2>2 DEF Start, MainGoto, Open
  <2>5. OpenTracks' = OpenTracks \ {t} /\ t \in OpenTracks
    BY <2>1, <2>3, <2>4, OpenIs
  <2> QED BY <2>1, <2>2, <2>5 DEF Log!Next, Log!Report, Substantial
<1>4. CASE StopApi
  <2>1. main = "stop_api" /\ main' = "done"
    BY <1>4 DEF StopApi, MainGoto
  <2>2. finals = {} /\ \A w \in Workers : worker[w] = "done"
    BY <2>1 DEF Shutdown, Joined, Flushed, Flushing, WorkersOver, Idle
  <2>3. Consolidate => Open = {}
    BY <2>1 DEF Shutdown, Flushed, Flushing, Open
  <2>4. Open = {} /\ Pending = {}
    BY <2>2, <2>3 DEF Untracked, Pending
  <2>5. OpenTracks = {}
    BY <2>2, <2>4, OpenIs
  <2>6. UNCHANGED <<tracks, finals, log>> /\ ~Start
    <3>1. ~Start /\ ~LaunchCapture /\ ~StartApi
      BY <2>1 DEF Start, LaunchCapture, StartApi, MainGoto
    <3>2. ~LoopTest /\ ~EndTurn /\ ~EndCollect /\ ~JoinCaptures /\ ~JoinWorkers
      BY <2>1 DEF LoopTest, EndTurn, EndCollect, JoinCaptures, JoinWorkers, MainGoto
    <3>3. ~Collect /\ ~MainReports /\ ~MainRecords /\ ~RequestStop /\ ~CloseQueue
      BY <2>1 DEF Collect, MainReports, MainRecords, RequestStop, CloseQueue, MainGoto
    <3> QED BY <3>1, <3>2, <3>3 DEF MainStep, plateVars
  <2>7. OpenTracks' = OpenTracks
    BY <1>1, <2>6 DEF OpenTracks
  <2> QED BY <2>1, <2>5, <2>6, <2>7 DEF Log!Next, Log!End
<1>5. CASE Start
  <2>1. main = "start" /\ main' = "launch" /\ \A w \in Workers : worker'[w] = "init"
    BY <1>5 DEF Start, MainGoto
  <2>2. ~StopApi /\ ~Collect /\ ~MainReports /\ ~MainRecords
    BY <2>1 DEF StopApi, Collect, MainReports, MainRecords, MainGoto
  <2>3. UNCHANGED <<tracks, finals, log>>
    BY <2>2 DEF MainStep, plateVars
  <2>4. Pending = {} /\ Pending' = {} /\ Open' = Open
    BY <2>1, <2>3, PendingIs DEF Substantial, Reporting, Open
  <2>5. OpenTracks' = OpenTracks
    BY <2>3, <2>4, OpenIs
  <2> QED BY <2>1, <2>3, <2>5 DEF Log!vars
<1>6. CASE ~Start /\ ~Collect /\ ~MainReports /\ ~StopApi
  <2>1. UNCHANGED <<tracks, finals, log>>
    BY <1>6 DEF MainStep, MainRecords, Record, plateVars
  <2>2. main = "done" <=> main' = "done"
    <3>1. CASE MainRecords \/ LaunchCapture
      BY <3>1 DEF MainRecords, LaunchCapture
    <3>2. CASE StartApi \/ LoopTest \/ EndTurn \/ EndCollect
      BY <3>2 DEF StartApi, LoopTest, EndTurn, EndCollect, MainGoto
    <3>3. CASE JoinCaptures \/ JoinWorkers \/ RequestStop \/ CloseQueue \/ Detach \/ StopUplink
      BY <3>3 DEF JoinCaptures, JoinWorkers, FlushNext, RequestStop, CloseQueue, Detach,
                  StopUplink, MainGoto
    <3> QED BY <1>6, <3>1, <3>2, <3>3 DEF MainStep
  <2>3. OpenTracks' = OpenTracks
    BY <1>1, <1>6, <2>1 DEF OpenTracks
  <2> QED BY <2>1, <2>2, <2>3 DEF Log!vars
<1> QED BY <1>2, <1>3, <1>4, <1>5, <1>6

LEMMA LogInit == Init => Log!Init
<1> SUFFICES ASSUME Init PROVE Log!Init
  OBVIOUS
<1>1. /\ \A c \in Cameras : tracks[c] = {}
      /\ finals = {} /\ \A w \in Workers : worker[w] = "unborn"
      /\ log = <<>> /\ main = "start"
  BY DEF Init
<1>2. Open = {} /\ Pending = {}
  BY <1>1, PendingIs DEF Open, Reporting
<1>3. OpenTracks = {}
  BY <1>1, <1>2, OpenIs
<1> QED BY <1>1, <1>3 DEF Log!Init

LEMMA LogStep ==
  Safe /\ Placed /\ Held /\ Shutdown /\ Untracked /\ Substantial /\ [Next]_vars
    => [Log!Next]_(Log!vars)
<1> SUFFICES ASSUME Safe, Placed, Held, Shutdown, Untracked, Substantial, [Next]_vars
             PROVE  [Log!Next]_(Log!vars)
  OBVIOUS
<1>1. CASE UserStep \/ UNCHANGED vars \/ \E c \in Cameras : CaptureStep(c)
  <2>1. UNCHANGED <<tracks, finals, log, worker, job, main>>
    BY <1>1 DEF UserStep, CaptureStep, vars, workerVars, mainVars, plateVars
  <2>2. Pending' = Pending
    BY <2>1 DEF Pending
  <2>3. OpenTracks' = OpenTracks
    BY <2>1, <2>2 DEF OpenTracks
  <2> QED BY <2>1, <2>3 DEF Log!vars
<1>2. ASSUME NEW w \in Workers, WorkerStep(w) PROVE [Log!Next]_(Log!vars)
  BY <1>2, WorkerImplements DEF Safe
<1>3. CASE MainStep
  BY <1>3, MainImplements DEF Safe
<1> QED BY <1>1, <1>2, <1>3 DEF Next, Returned

(* Whatever the threads do, the reports are the log PlateLog promises:     *)
(* every reading joins a track or starts one, once; a track is given up    *)
(* only for want of sightings, any other stays until it is reported, once; *)
(* and when the function has returned, no track is left open.              *)
THEOREM ImplementsPlateLog == Spec => Log!Spec
<1>1. Spec => []Shutdown
  BY AlwaysSafe, ShutdownInit, ShutdownStep, PTL DEF Spec
<1>2. Spec => [](Placed /\ Held)
  BY AlwaysSafe, PlacedInit, PlacedStep, HeldInit, HeldStep, PTL DEF Spec
<1>3. Safe => TypeOK
  BY DEF Safe
<1>4. Spec => []Untracked
  BY AlwaysSafe, UntrackedInit, UntrackedStep, <1>3, PTL DEF Spec
<1>5. Spec => []Substantial
  BY AlwaysSafe, SubstantialInit, SubstantialStep, <1>3, <1>4, PTL DEF Spec
<1> QED BY AlwaysSafe, LogInit, LogStep, <1>1, <1>2, <1>4, <1>5, PTL DEF Spec, Log!Spec

-----------------------------------------------------------------------------
(* What /api/plates shows.                                                 *)

Recording == {w \in Workers : worker[w] = "record"}

(* What is in the ring, or on its way there, was counted; and the ring has *)
(* as many of the counted reports as it can.                               *)
Shown ==
    /\ main = "start" => \A w \in Workers : worker[w] = "unborn"
    /\ Elements(recentPlates) \cup {{job[w]} : w \in Recording} \subseteq Elements(log)
    /\ current # None => current \in Elements(log)
    /\ RingMatchesCount

(* A ring that is as long as the count, up to its capacity, still is when  *)
(* one report is counted and recorded.                                     *)
LEMMA OneMoreShown ==
  ASSUME NEW count \in Int, NEW shown \in Nat, NEW cap \in Nat \ {0},
         shown = IF count < cap THEN count ELSE cap
  PROVE  (IF shown < cap THEN shown + 1 ELSE cap) = IF count + 1 < cap THEN count + 1 ELSE cap
OBVIOUS

(* The ring takes a report in and may lose its oldest. *)
LEMMA RecordShows ==
  ASSUME PlateTypes, NEW report \in Tracks, Record(report)
  PROVE  /\ Elements(recentPlates') \subseteq Elements(recentPlates) \cup {report}
         /\ Len(recentPlates') = IF Len(recentPlates) < MaxPlates THEN Len(recentPlates) + 1
                                                                  ELSE MaxPlates
<1> DEFINE ring == <<report>> \o recentPlates
<1>1. /\ ring \in Seq(Tracks) /\ Len(ring) = Len(recentPlates) + 1 /\ Len(recentPlates) \in Nat
      /\ \A i \in 1..Len(ring) : ring[i] = IF i = 1 THEN report ELSE recentPlates[i - 1]
  <2>1. /\ <<report>> \in Seq(Tracks) /\ Len(<<report>>) = 1 /\ <<report>>[1] = report
        /\ recentPlates \in Seq(Tracks) /\ Len(recentPlates) \in Nat
    BY LenProperties DEF PlateTypes
  <2> QED BY <2>1, ConcatProperties
<1> HIDE DEF ring
<1>2. MaxPlates \in Nat \ {0} /\ Len(recentPlates) <= MaxPlates
  BY PipelineAssumption DEF PlateTypes
<1>3. \A i \in 1..Len(ring) : ring[i] \in Elements(recentPlates) \cup {report}
  BY <1>1 DEF Elements
<1>4. CASE Len(ring) > MaxPlates
  <2>1. recentPlates' = SubSeq(ring, 1, MaxPlates)
    BY <1>4 DEF Record, Trimmed, ring
  <2>2. \A i \in 1..MaxPlates : ring[i] \in Tracks
    BY <1>1, <1>2, <1>4, ElementOfSeq
  <2>3. /\ Len(recentPlates') = MaxPlates
        /\ \A i \in 1..MaxPlates : recentPlates'[i] = ring[i]
    BY <1>2, <2>1, <2>2, SubSeqProperties
  <2>4. Elements(recentPlates') \subseteq Elements(recentPlates) \cup {report}
    BY <1>1, <1>2, <1>3, <1>4, <2>3 DEF Elements
  <2> QED BY <1>1, <1>2, <1>4, <2>3, <2>4
<1>5. CASE ~(Len(ring) > MaxPlates)
  <2>1. recentPlates' = ring
    BY <1>5 DEF Record, Trimmed, ring
  <2>2. Elements(recentPlates') \subseteq Elements(recentPlates) \cup {report}
    BY <1>3, <2>1 DEF Elements
  <2> QED BY <1>1, <1>2, <1>5, <2>1, <2>2
<1> QED BY <1>4, <1>5

LEMMA ShownInit == Init => Shown
<1> SUFFICES ASSUME Init PROVE Shown
  OBVIOUS
<1>1. log = <<>> /\ recentPlates = <<>> /\ current = None /\ \A w \in Workers : worker[w] = "unborn"
  BY DEF Init
<1>2. Recording = {} /\ Len(log) = 0 /\ Len(recentPlates) = 0
  BY <1>1, EmptySeq DEF Recording
<1>3. Elements(recentPlates) = {}
  BY <1>2 DEF Elements
<1>4. Cardinality(Recording) = 0
  BY <1>2, FS_EmptySet
<1>5. Unrecorded = 0
  BY <1>1, <1>4 DEF Unrecorded, Recording
<1>6. 0 < MaxPlates
  BY PipelineAssumption
<1> QED BY <1>1, <1>2, <1>3, <1>5, <1>6 DEF Shown, RingMatchesCount

(* Nothing that is shown or about to be shown changes. *)
LEMMA StillShown ==
  ASSUME Shown, UNCHANGED <<current, recentPlates, log>>, Recording' = Recording,
         \A w \in Recording : job'[w] = job[w],
         main' = "start" => \A w \in Workers : worker'[w] = "unborn"
  PROVE  Shown'
<1>1. Unrecorded' = Unrecorded
  BY DEF Unrecorded, Recording
<1> QED BY <1>1 DEF Shown, RingMatchesCount

LEMMA WorkerShown ==
  ASSUME TypeOK, JobsInHand, Shown, NEW w \in Workers, WorkerStep(w)
  PROVE  Shown'
<1>0. /\ WorkerTypes /\ PlateTypes /\ MainTypes /\ UNCHANGED <<main, current>>
      /\ IsFiniteSet(Recording) /\ Cardinality(Recording) \in Nat
      /\ Unrecorded = Cardinality(Recording) + (IF current = None THEN 0 ELSE 1)
      /\ Unrecorded' = Cardinality(Recording') + (IF current = None THEN 0 ELSE 1)
      /\ Len(log) \in Nat /\ Len(recentPlates) \in Nat /\ MaxPlates \in Nat \ {0}
  <2>1. IsFiniteSet(Recording)
    BY PipelineAssumption, FS_Subset DEF Recording
  <2>2. PlateTypes
    BY TypeParts
  <2>3. Len(log) \in Nat /\ Len(recentPlates) \in Nat
    BY <2>2, LenProperties DEF PlateTypes
  <2> QED BY <2>1, <2>3, TypeParts, FS_CardinalityType, PipelineAssumption
          DEF WorkerStep, mainVars, Unrecorded, Recording
<1>1. main = "start" => worker[w] = "unborn"
  BY DEF Shown
<1>2. CASE WorkerReports(w)
  <2>1. /\ worker[w] = "report" /\ worker' = [worker EXCEPT ![w] = "record"] /\ job' = job
        /\ log' = Append(log, {job[w]}) /\ recentPlates' = recentPlates
        /\ {job[w]} \in Tracks
    BY <1>2 DEF WorkerReports, WorkerGoto, CountAndSend, JobsInHand, Tracks
  <2>2. w \notin Recording /\ Recording' = Recording \cup {w} /\ main # "start"
    BY <1>0, <1>1, <2>1 DEF Recording, WorkerTypes
  <2>3. Cardinality(Recording') = Cardinality(Recording) + 1
    BY <1>0, <2>2, FS_AddElement
  <2>4. Len(log') = Len(log) + 1 /\ Elements(log') = Elements(log) \cup {{job[w]}}
    BY <1>0, <2>1, AppendProperties, ElementsOfAppend DEF PlateTypes
  <2>5. Len(log') - Unrecorded' = Len(log) - Unrecorded
    BY <1>0, <2>3, <2>4
  <2>6. RingMatchesCount'
    BY <2>1, <2>4, <2>5 DEF Shown, RingMatchesCount
  <2>7. Elements(recentPlates') \cup {{job'[v]} : v \in Recording'} \subseteq Elements(log')
    BY <2>1, <2>2, <2>4 DEF Shown
  <2>8. current' # None => current' \in Elements(log')
    BY <1>0, <2>4 DEF Shown
  <2> QED BY <1>0, <2>2, <2>6, <2>7, <2>8 DEF Shown
<1>3. CASE WorkerRecords(w)
  <2>1. /\ worker[w] = "record" /\ worker' = [worker EXCEPT ![w] = "loop"] /\ log' = log
        /\ Record({job[w]}) /\ \A v \in Workers \ {w} : job'[v] = job[v]
        /\ {job[w]} \in Tracks
    BY <1>0, <1>3 DEF WorkerRecords, WorkerGoto, AfterReport, Record, Release, WorkerTypes,
                      JobsInHand, Tracks
  <2>2. w \in Recording /\ Recording' = Recording \ {w} /\ main # "start"
    BY <1>0, <1>1, <2>1 DEF Recording, WorkerTypes
  <2>3. Cardinality(Recording') = Cardinality(Recording) - 1
    BY <1>0, <2>2, FS_RemoveElement
  <2>4. /\ Elements(recentPlates') \subseteq Elements(recentPlates) \cup {{job[w]}}
        /\ Len(recentPlates') = IF Len(recentPlates) < MaxPlates THEN Len(recentPlates) + 1
                                                                 ELSE MaxPlates
    BY <1>0, <2>1, RecordShows
  <2>5. Len(log') - Unrecorded' = Len(log) - Unrecorded + 1
    BY <1>0, <2>1, <2>3
  <2>6. {job[w]} \in Elements(log)
    BY <2>2 DEF Shown
  <2>7. Elements(recentPlates') \subseteq Elements(log')
    BY <2>1, <2>4, <2>6 DEF Shown
  <2>8. RingMatchesCount'
    <3> DEFINE count == Len(log) - Unrecorded
               shown == Len(recentPlates)
               shown2 == Len(recentPlates')
    <3>1. count \in Int /\ shown \in Nat /\ MaxPlates \in Nat \ {0}
      BY <1>0
    <3>2. shown = IF count < MaxPlates THEN count ELSE MaxPlates
      BY DEF Shown, RingMatchesCount
    <3>3. shown2 = IF shown < MaxPlates THEN shown + 1 ELSE MaxPlates
      BY <2>4
    <3>4. Len(log') - Unrecorded' = count + 1
      BY <2>5
    <3> HIDE DEF count, shown, shown2
    <3>5. shown2 = IF count + 1 < MaxPlates THEN count + 1 ELSE MaxPlates
      BY <3>1, <3>2, <3>3, OneMoreShown
    <3> QED BY <2>7, <3>4, <3>5 DEF RingMatchesCount, shown2
  <2>9. \A v \in Recording' : {job'[v]} \in Elements(log')
    BY <2>1, <2>2 DEF Shown, Recording
  <2> QED BY <1>0, <2>1, <2>2, <2>7, <2>8, <2>9 DEF Shown
<1>4. CASE /\ InitWorker(w) \/ TestStop(w) \/ CheckClosed(w) \/ WaitPop(w) \/ Recognize(w)
           /\ UNCHANGED plateVars
  <2>1. UNCHANGED <<recentPlates, log, current, main>>
    BY <1>0, <1>4 DEF plateVars
  <2>2. /\ worker[w] \notin {"record", "unborn"}
        /\ \E there \in WorkerStates \ {"record"} : worker' = [worker EXCEPT ![w] = there]
    BY <1>4 DEF InitWorker, TestStop, CheckClosed, WaitPop, Recognize, WorkerGoto, WorkerStates
  <2>3. \A v \in Workers \ {w} : job'[v] = job[v]
    BY <1>0, <1>2, <1>4 DEF WorkerStep, WaitPop, Recognize, Release, WorkerRecords, WorkerReports,
                            WorkerTypes
  <2>4. Recording' = Recording /\ w \notin Recording /\ main # "start"
    BY <1>0, <1>1, <2>2 DEF Recording, WorkerTypes
  <2>5. \A v \in Recording : job'[v] = job[v]
    BY <2>3, <2>4 DEF Recording
  <2> QED BY <2>1, <2>4, <2>5, StillShown
<1> QED BY <1>2, <1>3, <1>4 DEF WorkerStep

LEMMA MainShown ==
  ASSUME TypeOK, None \notin Tracks, Shown, MainStep
  PROVE  Shown'
<1>0. /\ PlateTypes /\ MainTypes /\ job' = job
      /\ Cardinality(Recording) \in Nat
      /\ Unrecorded = Cardinality(Recording) + (IF current = None THEN 0 ELSE 1)
      /\ Unrecorded' = Cardinality(Recording') + (IF current' = None THEN 0 ELSE 1)
      /\ Len(log) \in Nat /\ Len(recentPlates) \in Nat /\ MaxPlates \in Nat \ {0}
  <2>1. IsFiniteSet(Recording)
    BY PipelineAssumption, FS_Subset DEF Recording
  <2>2. PlateTypes
    BY TypeParts
  <2>3. Len(log) \in Nat /\ Len(recentPlates) \in Nat
    BY <2>2, LenProperties DEF PlateTypes
  <2> QED BY <2>1, <2>3, TypeParts, FS_CardinalityType, PipelineAssumption
          DEF MainStep, Unrecorded, Recording
<1>1. /\ main' = "start" => main = "start" /\ worker' = worker
      /\ Recording' = Recording
  <2>1. CASE Start
    BY <2>1 DEF Start, MainGoto, Shown, Recording
  <2>2. CASE ~Start
    <3>1. worker' = worker
      BY <2>2 DEF MainStep, LaunchCapture, StartApi
    <3>2. main' = "start" => main = "start"
      BY <2>2 DEF MainStep, LaunchCapture, StartApi, LoopTest, EndTurn, EndCollect, JoinCaptures,
                  JoinWorkers, FlushNext, Collect, MainReports, MainRecords, RequestStop,
                  CloseQueue, Detach, StopUplink, StopApi, MainGoto
    <3> QED BY <3>1, <3>2 DEF Recording
  <2> QED BY <2>1, <2>2
<1>2. CASE MainReports
  <2>1. PICK t \in finals : current = None /\ current' = t /\ log' = Append(log, t)
                            /\ recentPlates' = recentPlates
    BY <1>2 DEF MainReports, CountAndSend
  <2>2. t \in Tracks /\ current' # None
    BY <1>0, <2>1 DEF MainTypes
  <2>3. Len(log') = Len(log) + 1 /\ Elements(log') = Elements(log) \cup {t}
    BY <1>0, <2>1, <2>2, AppendProperties, ElementsOfAppend DEF PlateTypes
  <2>4. Len(log') - Unrecorded' = Len(log) - Unrecorded
    BY <1>0, <1>1, <2>1, <2>2, <2>3
  <2>5. RingMatchesCount'
    BY <2>1, <2>3, <2>4 DEF Shown, RingMatchesCount
  <2> QED BY <1>0, <1>1, <2>1, <2>3, <2>5 DEF Shown
<1>3. CASE MainRecords
  <2>1. current # None /\ current' = None /\ Record(current) /\ log' = log /\ current \in Tracks
    BY <1>0, <1>3 DEF MainRecords, Record, MainTypes
  <2>2. /\ Elements(recentPlates') \subseteq Elements(recentPlates) \cup {current}
        /\ Len(recentPlates') = IF Len(recentPlates) < MaxPlates THEN Len(recentPlates) + 1
                                                                 ELSE MaxPlates
    BY <1>0, <2>1, RecordShows
  <2>3. Len(log') - Unrecorded' = Len(log) - Unrecorded + 1
    BY <1>0, <1>1, <2>1
  <2>4. Elements(recentPlates') \subseteq Elements(log')
    BY <2>1, <2>2 DEF Shown
  <2>5. RingMatchesCount'
    <3> DEFINE count == Len(log) - Unrecorded
               shown == Len(recentPlates)
               shown2 == Len(recentPlates')
    <3>1. count \in Int /\ shown \in Nat /\ MaxPlates \in Nat \ {0}
      BY <1>0
    <3>2. shown = IF count < MaxPlates THEN count ELSE MaxPlates
      BY DEF Shown, RingMatchesCount
    <3>3. shown2 = IF shown < MaxPlates THEN shown + 1 ELSE MaxPlates
      BY <2>2
    <3>4. Len(log') - Unrecorded' = count + 1
      BY <2>3
    <3> HIDE DEF count, shown, shown2
    <3>5. shown2 = IF count + 1 < MaxPlates THEN count + 1 ELSE MaxPlates
      BY <3>1, <3>2, <3>3, OneMoreShown
    <3> QED BY <2>4, <3>4, <3>5 DEF RingMatchesCount, shown2
  <2> QED BY <1>0, <1>1, <2>1, <2>4, <2>5 DEF Shown
<1>4. CASE ~MainReports /\ ~MainRecords
  <2>1. UNCHANGED <<current, recentPlates, log>>
    BY <1>4 DEF MainStep, plateVars, Collect
  <2> QED BY <1>0, <1>1, <2>1, StillShown DEF Shown
<1> QED BY <1>2, <1>3, <1>4

LEMMA ShownStep == Safe /\ (None \notin Tracks => Shown) /\ [Next]_vars
                     => (None \notin Tracks => Shown')
<1> SUFFICES ASSUME Safe, None \notin Tracks, Shown, [Next]_vars PROVE Shown'
  OBVIOUS
<1>1. CASE UserStep \/ UNCHANGED vars \/ \E c \in Cameras : CaptureStep(c)
  <2>1. UNCHANGED <<current, recentPlates, log, worker, job, main>>
    BY <1>1 DEF UserStep, CaptureStep, vars, workerVars, mainVars, plateVars
  <2> QED BY <2>1, StillShown DEF Shown, Recording
<1>2. ASSUME NEW w \in Workers, WorkerStep(w) PROVE Shown'
  BY <1>2, WorkerShown DEF Safe
<1>3. CASE MainStep
  BY <1>3, MainShown DEF Safe
<1> QED BY <1>1, <1>2, <1>3 DEF Next, Returned

(* /api/plates agrees with reports_total, whoever reports: the ring holds  *)
(* counted reports only, and as many of them as it can.  None, which is no *)
(* report, must differ from every report.                                  *)
THEOREM RingShowsReports == None \notin Tracks => (Spec => []RingMatchesCount)
<1> SUFFICES ASSUME None \notin Tracks PROVE Spec => []RingMatchesCount
  OBVIOUS
<1>1. Init => (None \notin Tracks => Shown)
  BY ShownInit
<1>2. (None \notin Tracks => Shown) => RingMatchesCount
  BY DEF Shown
<1> QED BY AlwaysSafe, <1>1, ShownStep, <1>2, PTL DEF Spec

-----------------------------------------------------------------------------
(* The alpr_dropped counters.                                              *)

(* The library's sum of a function is the sum of all of it. *)
LEMMA SumOfFunction ==
  ASSUME NEW S, IsFiniteSet(S), NEW f \in [S -> Nat]
  PROVE  \E g : IsSum(g, S, f) /\ SumFunction(f) = g[S]
<1> DEFINE Made(h) == h = [s \in SUBSET S |-> IF s = {} THEN 0
              ELSE f[CHOOSE x \in s : TRUE] + h[s \ {CHOOSE x \in s : TRUE}]]
           h == CHOOSE h : Made(h)
<1>1. SumFunction(f) = h[S]
  BY DEF SumFunction, SumFunctionOnSet, FoldFunctionOnSet, MapThenFoldSet
<1>2. PICK a \in [SUBSET S -> Nat] : AddsUp(a, S, f)
  BY AddsUpExists
<1>3. Made(a)
  BY <1>2 DEF AddsUp
<1>4. Made(h)
  BY <1>3
<1> HIDE DEF h
<1>5. AddsUp(h, S, f)
  BY <1>4 DEF AddsUp
<1>6. PICK g : IsSum(g, S, f)
  BY SumExists
<1>7. h[S] = g[S]
  BY <1>5, <1>6, SumOfPart
<1> QED BY <1>1, <1>6, <1>7

LEMMA SumOfZeros ==
  ASSUME NEW S, IsFiniteSet(S), NEW f \in [S -> Nat], \A x \in S : f[x] = 0
  PROVE  SumFunction(f) = 0
<1>1. PICK g : IsSum(g, S, f) /\ SumFunction(f) = g[S]
  BY SumOfFunction
<1> DEFINE zero == [T \in SUBSET S |-> 0]
<1>2. AddsUp(zero, S, f)
  <2>1. ASSUME NEW s \in SUBSET S, s # {} PROVE (CHOOSE x \in s : TRUE) \in S
    BY <2>1
  <2> QED BY <2>1 DEF AddsUp
<1>3. zero[S] = 0
  OBVIOUS
<1> HIDE DEF zero
<1>4. zero[S] = g[S]
  BY <1>1, <1>2, SumOfPart
<1> QED BY <1>1, <1>3, <1>4

(* One more for one camera is one more in the sum. *)
LEMMA SumOfIncrement ==
  ASSUME NEW S, IsFiniteSet(S), NEW f \in [S -> Nat], NEW c \in S
  PROVE  /\ SumFunction(f) \in Nat
         /\ SumFunction([f EXCEPT ![c] = @ + 1]) = SumFunction(f) + 1
<1> DEFINE k == [f EXCEPT ![c] = @ + 1]
           R == S \ {c}
<1>1. k \in [S -> Nat] /\ k[c] = f[c] + 1 /\ \A x \in R : k[x] = f[x]
  OBVIOUS
<1>2. R \in SUBSET S /\ S \in SUBSET S /\ c \in S /\ R = S \ {c} /\ c \notin R
  OBVIOUS
<1>3. PICK g : IsSum(g, S, f) /\ SumFunction(f) = g[S]
  BY SumOfFunction
<1> HIDE DEF k, R
<1>4. PICK h : IsSum(h, S, k) /\ SumFunction(k) = h[S]
  BY <1>1, SumOfFunction
<1>5. AddsUp(h, R, f)
  <2>1. ASSUME NEW s \in SUBSET R, s # {} PROVE (CHOOSE x \in s : TRUE) \in s
    BY <2>1
  <2> SUFFICES ASSUME NEW s \in SUBSET R
               PROVE  h[s] = IF s = {} THEN 0
                             ELSE f[CHOOSE x \in s : TRUE] + h[s \ {CHOOSE x \in s : TRUE}]
    BY DEF AddsUp
  <2>2. s \in SUBSET S
    BY <1>2
  <2>3. s = {} => h[s] = 0
    BY <1>4 DEF IsSum
  <2>4. ASSUME NEW x \in s PROVE h[s] = f[x] + h[s \ {x}]
    BY <1>1, <1>4, <2>2 DEF IsSum
  <2> QED BY <2>1, <2>3, <2>4
<1>6. h[R] = g[R]
  BY <1>2, <1>3, <1>5, SumOfPart
<1>7. g[S] = f[c] + g[R] /\ g[S] \in Nat /\ g[R] \in Nat /\ f[c] \in Nat
  BY <1>2, <1>3 DEF IsSum
<1>8. h[S] = k[c] + h[R]
  BY <1>2, <1>4 DEF IsSum
<1>9. h[S] = g[S] + 1
  BY <1>1, <1>6, <1>7, <1>8
<1> QED BY <1>3, <1>4, <1>7, <1>9 DEF k

(* The capture threads that know of an eviction they have not counted. *)
Paying == {c \in Cameras : capture[c] = "count_drop"}

(* The sum that DropsCounted compares. *)
Drops == SumFunction(alprDropped) + Cardinality(Paying)

Counted ==
    /\ main = "start" => \A w \in Workers : worker[w] = "unborn"
    /\ IsFiniteSet(offered)
    /\ Drops = Cardinality(Evicted)

LEMMA CountedInit == Init => Counted
<1> SUFFICES ASSUME Init PROVE Counted
  OBVIOUS
<1>1. /\ alprDropped = [c \in Cameras |-> 0] /\ offered = {}
      /\ \A c \in Cameras : capture[c] = "unborn"
      /\ \A w \in Workers : worker[w] = "unborn"
  BY DEF Init
<1>2. SumFunction(alprDropped) = 0
  BY <1>1, CamerasFinite, SumOfZeros
<1>3. Paying = {} /\ Evicted = {}
  BY <1>1 DEF Paying, Evicted
<1>4. Cardinality(Paying) = 0 /\ Cardinality(Evicted) = 0 /\ IsFiniteSet(offered)
  BY <1>1, <1>3, FS_EmptySet
<1> QED BY <1>1, <1>2, <1>4 DEF Counted, Drops

LEMMA StillCounted ==
  ASSUME Counted, UNCHANGED alprDropped, Paying' = Paying, Evicted' = Evicted, IsFiniteSet(offered'),
         main' = "start" => \A w \in Workers : worker'[w] = "unborn"
  PROVE  Counted'
BY DEF Counted, Drops

(* A capture thread that begins or ends paying. *)
LEMMA PayingStep ==
  ASSUME CaptureTypes, NEW c \in Cameras, NEW here, NEW there, CaptureGoto(c, here, there)
  PROVE  /\ IsFiniteSet(Paying) /\ Cardinality(Paying) \in Nat
         /\ here # "count_drop" /\ there # "count_drop" => Paying' = Paying
         /\ here # "count_drop" /\ there = "count_drop"
              => Cardinality(Paying') = Cardinality(Paying) + 1
         /\ here = "count_drop" /\ there # "count_drop"
              => Cardinality(Paying') = Cardinality(Paying) - 1
<1>1. IsFiniteSet(Paying) /\ Cardinality(Paying) \in Nat
  BY CamerasFinite, PipelineAssumption DEF Paying
<1>2. /\ capture[c] = here
      /\ \A d \in Cameras : capture'[d] = IF d = c THEN there ELSE capture[d]
  BY DEF CaptureGoto, CaptureTypes
<1>3. here # "count_drop" /\ there # "count_drop" => Paying' = Paying
  BY <1>2 DEF Paying
<1>4. here # "count_drop" /\ there = "count_drop" => Paying' = Paying \cup {c} /\ c \notin Paying
  BY <1>2 DEF Paying
<1>5. here = "count_drop" /\ there # "count_drop" => Paying' = Paying \ {c} /\ c \in Paying
  BY <1>2 DEF Paying
<1> QED BY <1>1, <1>3, <1>4, <1>5, FS_AddElement, FS_RemoveElement

LEMMA CaptureCounted ==
  ASSUME TypeOK, Captures, Placed, Counted, NEW c \in Cameras, CaptureStep(c)
  PROVE  Counted'
<1>0. CaptureTypes /\ QueueTypes /\ UNCHANGED <<main, worker, job, recognized>>
  BY TypeParts DEF CaptureStep, workerVars, mainVars
<1>1. InHand' = InHand
  BY <1>0 DEF Busy, InHand
<1>2. IsFiniteSet(Evicted) /\ Cardinality(Evicted) \in Nat
  <2>1. IsFiniteSet(Evicted)
    BY FS_Subset DEF Counted, Evicted
  <2> QED BY <2>1, FS_CardinalityType
<1>3. CASE /\ UNCHANGED <<alprDropped, offered, swallowed, alprQueue>>
           /\ \E here, there \in CaptureStates \ {"count_drop"} : CaptureGoto(c, here, there)
  <2>1. Paying' = Paying
    BY <1>0, <1>3, PayingStep
  <2>2. Queued' = Queued
    BY <1>3 DEF Queued
  <2>3. Evicted' = Evicted
    BY <1>0, <1>1, <1>3, <2>2 DEF Evicted
  <2> QED BY <1>0, <1>3, <2>1, <2>3, StillCounted DEF Counted
<1>4. CASE PushJob(c) /\ UNCHANGED <<activeCaptures, counter, alprDropped, closed>>
  <2> DEFINE new == <<c, counter[c]>>
  <2>1. CaptureGoto(c, "push", IF Evicts THEN "count_drop" ELSE "count") /\ capture[c] = "push"
    BY <1>4 DEF PushJob, CaptureGoto
  <2>2. new \in Jobs
    BY <1>0, <2>1 DEF Captures, CaptureTypes, Jobs
  <2>3. new \notin offered
    <3> SUFFICES ASSUME new \in offered PROVE FALSE
      OBVIOUS
    <3>1. new[2] < counter[c]
      BY <2>1 DEF Placed, Numbers
    <3> QED BY <1>0, <3>1 DEF CaptureTypes
  <2>4. /\ offered' = offered \cup {new}
        /\ \/ closed /\ swallowed' = swallowed \cup {new} /\ UNCHANGED alprQueue
           \/ ~closed /\ alprQueue' = PushDropOldest(alprQueue, new, Cap) /\ UNCHANGED swallowed
    BY <1>4 DEF PushJob
  <2> HIDE DEF new
  <2>5. IsFiniteSet(offered')
    BY <2>4, FS_AddElement DEF Counted
  <2>6. /\ Cap \in Nat \ {0} /\ alprQueue \in Seq(Jobs) /\ new \notin Elements(alprQueue)
        /\ Unrepeated(alprQueue)
    BY <1>0, <2>3, RunOnceMeans, PipelineAssumption DEF Cap, QueueTypes, Placed, Offers, Queued
  <2>7. CASE ~Evicts
    <3>1. Paying' = Paying
      BY <1>0, <2>1, <2>7, PayingStep
    <3>2. closed => Queued' = Queued
      BY <2>4 DEF Queued
    <3>3. ~closed => Queued' = Queued \cup {new}
      BY <2>2, <2>4, <2>6, <2>7, UnrepeatedPush DEF Queued, Evicts
    <3>4. Evicted' = Evicted
      BY <1>0, <1>1, <2>3, <2>4, <3>2, <3>3 DEF Evicted
    <3> QED BY <1>0, <1>4, <2>5, <3>1, <3>4, StillCounted DEF Counted
  <2>8. CASE Evicts
    <3> DEFINE h == Head(alprQueue)
    <3>1. ~closed /\ Full(alprQueue, Cap)
      BY <2>8 DEF Evicts
    <3>2. Cardinality(Paying') = Cardinality(Paying) + 1 /\ Cardinality(Paying) \in Nat
      BY <1>0, <2>1, <2>8, PayingStep
    <3>3. Queued' = (Queued \ {h}) \cup {new} /\ h \in Queued
      BY <2>2, <2>4, <2>6, <3>1, UnrepeatedPush DEF Queued
    <3> HIDE DEF h
    <3>4. /\ h \notin InHand \cup recognized \cup swallowed /\ h \in offered
      BY <3>3 DEF Placed, JobsRunOnce, Offers
    <3>5. Evicted' = Evicted \cup {h} /\ h \notin Evicted
      BY <1>0, <1>1, <2>3, <2>4, <3>1, <3>3, <3>4 DEF Evicted
    <3>6. Cardinality(Evicted') = Cardinality(Evicted) + 1
      BY <1>2, <3>5, FS_AddElement
    <3>7. SumFunction(alprDropped) \in Nat /\ alprDropped' = alprDropped
      BY <1>0, <1>4, CamerasFinite, SumOfIncrement DEF CaptureTypes
    <3>8. Drops' = Drops + 1
      BY <3>2, <3>7 DEF Drops
    <3> QED BY <1>0, <2>5, <3>6, <3>8 DEF Counted
  <2> QED BY <2>7, <2>8
<1>5. CASE /\ CaptureGoto(c, "count_drop", "inner")
           /\ alprDropped' = [alprDropped EXCEPT ![c] = @ + 1]
           /\ UNCHANGED <<offered, swallowed, alprQueue>>
  <2>1. Cardinality(Paying') = Cardinality(Paying) - 1 /\ Cardinality(Paying) \in Nat
    BY <1>0, <1>5, PayingStep
  <2>2. /\ SumFunction(alprDropped) \in Nat
        /\ SumFunction(alprDropped') = SumFunction(alprDropped) + 1
    BY <1>0, <1>5, CamerasFinite, SumOfIncrement DEF CaptureTypes
  <2>3. Drops' = Drops
    BY <2>1, <2>2 DEF Drops
  <2>4. Queued' = Queued
    BY <1>5 DEF Queued
  <2>5. Evicted' = Evicted
    BY <1>0, <1>1, <1>5, <2>4 DEF Evicted
  <2> QED BY <1>0, <1>5, <2>3, <2>5 DEF Counted
<1>6. \/ /\ UNCHANGED <<alprDropped, offered, swallowed, alprQueue>>
         /\ \E here, there \in CaptureStates \ {"count_drop"} : CaptureGoto(c, here, there)
      \/ PushJob(c) /\ UNCHANGED <<activeCaptures, counter, alprDropped, closed>>
      \/ /\ CaptureGoto(c, "count_drop", "inner")
         /\ alprDropped' = [alprDropped EXCEPT ![c] = @ + 1]
         /\ UNCHANGED <<offered, swallowed, alprQueue>>
  BY DEF CaptureStep, CreateFails, OpenSource, CloseSource, NextFrame, CountJob, LeaveCapture,
         LastCaptureCloses, CaptureStates, pushVars, queueVars
<1> QED BY <1>3, <1>4, <1>5, <1>6

(* Workers and the main thread move jobs on, they lose none. *)
LEMMA WorkerCounted ==
  ASSUME TypeOK, JobsInHand, Placed, Counted, NEW w \in Workers, WorkerStep(w)
  PROVE  Counted'
<1>0. WorkerTypes /\ QueueTypes
  BY TypeParts
<1>1. UNCHANGED <<main, swallowed, offered, alprDropped, capture>> /\ Paying' = Paying
  BY DEF WorkerStep, captureVars, pushVars, mainVars, Paying
<1>2. /\ worker[w] # "unborn"
      /\ \E there : worker' = [worker EXCEPT ![w] = there]
  BY DEF WorkerStep, InitWorker, TestStop, CheckClosed, WaitPop, Recognize, WorkerReports,
         WorkerRecords, WorkerGoto
<1>3. main # "start"
  BY <1>2 DEF Counted
<1>4. SUFFICES (Queued \cup InHand \cup recognized)' = Queued \cup InHand \cup recognized
  <2>1. (Queued \cup InHand \cup recognized)' = Queued \cup InHand \cup recognized
          => Evicted' = Evicted
    BY <1>1 DEF Evicted
  <2> QED BY <1>1, <1>3, <2>1, StillCounted DEF Counted
<1>5. \A v \in Workers \ {w} : worker'[v] = worker[v]
  BY <1>0, <1>2 DEF WorkerTypes
<1>6. CASE WaitPop(w) /\ recognized' = recognized /\ alprQueue # <<>>
  <2> DEFINE h == Head(alprQueue)
  <2>1. /\ job' = [job EXCEPT ![w] = h] /\ alprQueue' = Tail(alprQueue)
        /\ worker[w] = "pop" /\ worker' = [worker EXCEPT ![w] = "work"]
    BY <1>6 DEF WaitPop, Pop, WorkerGoto
  <2>2. /\ h \in Queued /\ Queued' = Queued \ {h}
    BY <1>0, <1>6, <2>1, UnrepeatedTail, RunOnceMeans DEF QueueTypes, Queued, Placed
  <2>3. /\ Busy' = Busy \cup {w} /\ w \notin Busy /\ job'[w] = h
        /\ \A v \in Busy : job'[v] = job[v]
    BY <1>0, <2>1 DEF Busy, WorkerTypes
  <2> HIDE DEF h
  <2>4. InHand' = InHand \cup {h}
    BY <2>3 DEF InHand
  <2> QED BY <1>6, <2>2, <2>4
<1>7. CASE Recognize(w) /\ UNCHANGED alprQueue
  <2>1. PICK there \in {"loop", "report"} : worker' = [worker EXCEPT ![w] = there]
    BY <1>7 DEF Recognize, WorkerGoto
  <2>2. /\ worker[w] = "work" /\ recognized' = recognized \cup {job[w]}
        /\ \A v \in Workers \ {w} : job'[v] = job[v]
    BY <1>0, <1>7 DEF Recognize, WorkerGoto, Release, WorkerTypes
  <2>3. /\ Busy' = Busy \ {w} /\ w \in Busy /\ \A v \in Busy' : job'[v] = job[v]
    BY <1>0, <2>1, <2>2 DEF Busy, WorkerTypes
  <2>4. InHand' \cup {job[w]} = InHand
    BY <2>3 DEF InHand
  <2>5. Queued' = Queued
    BY <1>7 DEF Queued
  <2> QED BY <2>2, <2>4, <2>5
<1>8. CASE /\ UNCHANGED <<recognized, alprQueue>> /\ worker[w] # "work" /\ worker'[w] # "work"
           /\ \A v \in Workers \ {w} : job'[v] = job[v]
  <2>1. Busy' = Busy /\ \A v \in Busy : job'[v] = job[v]
    BY <1>5, <1>8 DEF Busy
  <2>2. InHand' = InHand /\ Queued' = Queued
    BY <1>8, <2>1, SameHands DEF Queued
  <2> QED BY <1>8, <2>2
<1>9. \/ WaitPop(w) /\ recognized' = recognized /\ alprQueue # <<>>
      \/ Recognize(w) /\ UNCHANGED alprQueue
      \/ /\ UNCHANGED <<recognized, alprQueue>> /\ worker[w] # "work"
         /\ \E there \in WorkerStates \ {"work"} : worker' = [worker EXCEPT ![w] = there]
         /\ \A v \in Workers \ {w} : job'[v] = job[v]
  BY <1>0 DEF WorkerStep, InitWorker, TestStop, CheckClosed, WaitPop, WorkerReports, WorkerRecords,
              WorkerGoto, WorkerStates, AfterReport, Release, WorkerTypes
<1>10. ASSUME NEW there \in WorkerStates \ {"work"}, worker' = [worker EXCEPT ![w] = there]
       PROVE  worker'[w] # "work"
  BY <1>0, <1>10 DEF WorkerTypes
<1> QED BY <1>6, <1>7, <1>8, <1>9, <1>10

LEMMA MainCounted ==
  ASSUME TypeOK, Captures, Counted, MainStep
  PROVE  Counted'
<1>0. CaptureTypes /\ WorkerTypes
  BY TypeParts
<1>1. UNCHANGED <<alprDropped, offered, swallowed, alprQueue, job, recognized>>
  BY DEF MainStep, pushVars
<1>2. Paying' = Paying
  <2>1. \/ capture' = capture
        \/ main = "launch" /\ next \in Cameras /\ capture' = [capture EXCEPT ![next] = "outer"]
    BY DEF MainStep, Start, LaunchCapture, StartApi
  <2>2. CASE capture' = capture
    BY <2>2 DEF Paying
  <2>3. CASE main = "launch" /\ next \in Cameras /\ capture' = [capture EXCEPT ![next] = "outer"]
    <3>1. capture[next] = "unborn"
      BY <2>3 DEF Captures, Cameras
    <3>2. \A d \in Cameras : capture'[d] = IF d = next THEN "outer" ELSE capture[d]
      BY <1>0, <2>3 DEF CaptureTypes
    <3> QED BY <3>1, <3>2 DEF Paying
  <2> QED BY <2>1, <2>2, <2>3
<1>3. /\ main' = "start" => \A w \in Workers : worker'[w] = "unborn"
      /\ Busy' = Busy
  <2>1. CASE Start
    <3>1. main' = "launch" /\ \A w \in Workers : worker[w] = "unborn" /\ worker'[w] = "init"
      BY <2>1 DEF Start, MainGoto, Counted
    <3> QED BY <3>1 DEF Busy
  <2>2. CASE ~Start
    <3>1. worker' = worker
      BY <2>2 DEF MainStep, LaunchCapture, StartApi
    <3>2. main' = "start" => main = "start"
      BY <2>2 DEF MainStep, LaunchCapture, StartApi, LoopTest, EndTurn, EndCollect, JoinCaptures,
                  JoinWorkers, FlushNext, Collect, MainReports, MainRecords, RequestStop,
                  CloseQueue, Detach, StopUplink, StopApi, MainGoto
    <3> QED BY <3>1, <3>2 DEF Busy, Counted
  <2> QED BY <2>1, <2>2
<1>4. Evicted' = Evicted
  <2>1. InHand' = InHand
    BY <1>1, <1>3 DEF InHand
  <2> QED BY <1>1, <2>1 DEF Evicted, Queued
<1> QED BY <1>1, <1>2, <1>3, <1>4, StillCounted DEF Counted

LEMMA CountedStep == Safe /\ Placed /\ Counted /\ [Next]_vars => Counted'
<1> SUFFICES ASSUME Safe, Placed, Counted, [Next]_vars PROVE Counted'
  OBVIOUS
<1>1. CASE UserStep \/ UNCHANGED vars
  <2>1. UNCHANGED <<main, worker, job, recognized, alprQueue, swallowed, offered, capture,
                    alprDropped>>
    BY <1>1 DEF UserStep, vars, captureVars, pushVars, queueVars, workerVars, mainVars
  <2>2. Paying' = Paying /\ Evicted' = Evicted
    BY <2>1 DEF Paying, Evicted, Queued, InHand, Busy
  <2> QED BY <2>1, <2>2, StillCounted DEF Counted
<1>2. ASSUME NEW c \in Cameras, CaptureStep(c) PROVE Counted'
  BY <1>2, CaptureCounted DEF Safe
<1>3. ASSUME NEW w \in Workers, WorkerStep(w) PROVE Counted'
  BY <1>3, WorkerCounted DEF Safe
<1>4. CASE MainStep
  BY <1>4, MainCounted DEF Safe
<1> QED BY <1>1, <1>2, <1>3, <1>4 DEF Next, Returned

(* However many cameras push at once into a queue of any capacity: the     *)
(* alpr_dropped counters, with what capture threads are about to add, are  *)
(* together the number of jobs that left the queue unprocessed - none is   *)
(* counted twice, and none is missed.                                      *)
THEOREM DropsAreCounted == Spec => []DropsCounted
<1>1. Spec => []Placed
  BY AlwaysSafe, PlacedInit, PlacedStep, PTL DEF Spec
<1>2. Counted => DropsCounted
  BY DEF Counted, Drops, Paying, DropsCounted
<1> QED BY AlwaysSafe, CountedInit, CountedStep, <1>1, <1>2, PTL DEF Spec
=============================================================================
