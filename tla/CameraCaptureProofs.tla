------------------------ MODULE CameraCaptureProofs ------------------------
(***************************************************************************)
(* Proofs about CameraCapture, for any cameras, configurations, times and  *)
(* numbers of frames.                                                      *)
(***************************************************************************)
EXTENDS CameraCapture, SequenceTheorems, TLAPS

(* TypeOK in the pieces that the steps change together. *)
SourceTypes ==
    /\ at \in [Cameras -> CaptureStates]
    /\ left \in [Cameras -> Nat \cup {NoCapture}]
    /\ lastError \in [Cameras -> {"", "open", "rewind", "read"}]
    /\ outcome \in [Cameras -> {"none", "failed", "end of stream"}]

LinkTypes ==
    /\ options \in Transports
    /\ used \in [Cameras -> Transports]
    /\ crossed \in [Cameras -> SUBSET Transports]

FrameTypes ==
    /\ nextFrameDue \in [Cameras -> Nat]
    /\ nextSequence \in [Cameras -> Nat]
    /\ delivered \in [Cameras -> Seq(Delivery)]

GateTypes ==
    /\ gate \in [Cameras -> Gate]
    /\ counter \in [Cameras -> Nat]
    /\ judged \in [Cameras -> Seq(Verdict)]

WorldTypes == config \in [Cameras -> CameraConfig] /\ now \in Nat

LEMMA TypeParts ==
  /\ TypeOK <=> SourceTypes /\ LinkTypes /\ FrameTypes /\ GateTypes /\ WorldTypes
  /\ TypeOK' <=> SourceTypes' /\ LinkTypes' /\ FrameTypes' /\ GateTypes' /\ WorldTypes'
BY DEF TypeOK, SourceTypes, LinkTypes, FrameTypes, GateTypes, WorldTypes

(* A part is kept by a step that leaves its variables alone. *)
LEMMA Untouched ==
  /\ SourceTypes /\ UNCHANGED <<at, left, lastError, outcome>> => SourceTypes'
  /\ LinkTypes /\ UNCHANGED linkVars => LinkTypes'
  /\ FrameTypes /\ UNCHANGED frameVars => FrameTypes'
  /\ GateTypes /\ UNCHANGED gateVars => GateTypes'
BY DEF SourceTypes, LinkTypes, FrameTypes, GateTypes, linkVars, frameVars, gateVars

LEMMA Bounds ==
  Period \in Nat /\ WarmUp \in Nat /\ Cooldown \in Nat /\ EveryN \in Nat /\ EveryN > 0
BY CaptureAssumption

(* What a camera's configuration holds. *)
LEMMA Configured ==
  ASSUME WorldTypes, NEW c \in Cameras
  PROVE  /\ config[c].frames \in Nat /\ config[c].skip \in Nat
         /\ config[c].transport \in Transports
         /\ Interval(c) \in Nat
<1>1. config[c] \in CameraConfig
  BY DEF WorldTypes
<1>2. config[c].frames \in Nat /\ config[c].skip \in Nat /\ config[c].transport \in Transports
  BY <1>1 DEF CameraConfig
<1>3. \A m, n \in Nat : m * n \in Nat
  OBVIOUS
<1>4. Interval(c) \in Nat
  BY <1>2, <1>3, Bounds DEF Interval
<1> QED BY <1>2, <1>4

LEMMA Initially == Init => TypeOK
<1> SUFFICES ASSUME Init PROVE TypeOK
  OBVIOUS
<1>1. SourceTypes
  BY DEF Init, SourceTypes, CaptureStates, NoCapture
<1>2. LinkTypes
  BY DEF Init, LinkTypes, Transports
<1>3. FrameTypes
  BY EmptySeq DEF Init, FrameTypes
<1>4. GateTypes
  <2>1. NewGate \in Gate
    BY DEF NewGate, Gate
  <2> QED BY <2>1, EmptySeq DEF Init, GateTypes
<1>5. WorldTypes
  BY CaptureAssumption DEF Init, WorldTypes
<1> QED BY <1>1, <1>2, <1>3, <1>4, <1>5, TypeParts

(* The frame that leaves getNextFrame. *)
LEMMA ProduceTypes ==
  ASSUME FrameTypes, now \in Nat, NEW c \in Cameras, Produce(c), nextFrameDue' \in [Cameras -> Nat]
  PROVE  /\ FrameTypes'
         /\ delivered[c] \in Seq(Delivery) /\ nextSequence[c] \in Nat
         /\ \A d \in Cameras :
              /\ nextSequence'[d] = IF d = c THEN nextSequence[c] + 1 ELSE nextSequence[d]
              /\ delivered'[d] = IF d = c
                   THEN Append(delivered[c], [at |-> now, seq |-> nextSequence[c]])
                   ELSE delivered[d]
<1>1. delivered[c] \in Seq(Delivery) /\ nextSequence[c] \in Nat
  BY DEF FrameTypes
<1>2. [at |-> now, seq |-> nextSequence[c]] \in Delivery
  BY <1>1 DEF Delivery
<1>3. Append(delivered[c], [at |-> now, seq |-> nextSequence[c]]) \in Seq(Delivery)
  BY <1>1, <1>2, AppendProperties
<1>4. /\ nextSequence' = [nextSequence EXCEPT ![c] = nextSequence[c] + 1]
      /\ delivered' = [delivered EXCEPT
                         ![c] = Append(delivered[c], [at |-> now, seq |-> nextSequence[c]])]
  BY DEF Produce
<1>5. nextSequence' \in [Cameras -> Nat] /\ delivered' \in [Cameras -> Seq(Delivery)]
  BY <1>1, <1>3, <1>4 DEF FrameTypes
<1>6. \A d \in Cameras :
        /\ nextSequence'[d] = IF d = c THEN nextSequence[c] + 1 ELSE nextSequence[d]
        /\ delivered'[d] = IF d = c THEN Append(delivered[c], [at |-> now, seq |-> nextSequence[c]])
                           ELSE delivered[d]
  BY <1>4 DEF FrameTypes
<1> QED BY <1>1, <1>5, <1>6 DEF FrameTypes

(* What processFrame notes of a frame. *)
Judged(c, moved) ==
    [at |-> now, moved |-> moved, passed |-> ShouldProcess(gate[c], moved, now),
     job |-> ShouldProcess(gate[c], moved, now) /\ Turn(c)]

LEMMA JudgeTypes ==
  ASSUME GateTypes, now \in Nat, NEW c \in Cameras, Judge(c)
  PROVE  /\ GateTypes'
         /\ counter[c] \in Nat /\ judged[c] \in Seq(Verdict) /\ gate[c] \in Gate
         /\ \A d \in Cameras : counter'[d] = IF d = c THEN counter[c] + 1 ELSE counter[d]
         /\ \/ ~config[c].gated /\ gate' = gate /\ judged' = judged
            \/ /\ config[c].gated
               /\ \E moved \in BOOLEAN :
                    /\ Judged(c, moved) \in Verdict
                    /\ \A d \in Cameras :
                         /\ gate'[d] = IF d = c THEN AfterFrame(gate[c], moved, now) ELSE gate[d]
                         /\ judged'[d] = IF d = c THEN Append(judged[c], Judged(c, moved))
                                        ELSE judged[d]
<1>1. counter[c] \in Nat /\ judged[c] \in Seq(Verdict) /\ gate[c] \in Gate
  BY DEF GateTypes
<1>2. /\ counter' \in [Cameras -> Nat]
      /\ \A d \in Cameras : counter'[d] = IF d = c THEN counter[c] + 1 ELSE counter[d]
  BY <1>1 DEF Judge, GateTypes
<1>3. CASE ~config[c].gated
  BY <1>1, <1>2, <1>3 DEF Judge, GateTypes
<1>4. CASE config[c].gated
  <2>1. PICK moved \in BOOLEAN :
          /\ gate' = Put(gate, c, AfterFrame(gate[c], moved, now))
          /\ judged' = [judged EXCEPT ![c] = Append(@, Judged(c, moved))]
    BY <1>4 DEF Judge, Judged
  <2>2. AfterFrame(gate[c], moved, now) \in Gate
    <3>1. /\ gate[c].warmed \in Nat
          /\ [gate[c] EXCEPT !.saw = TRUE, !.at = now] \in Gate
          /\ \A n \in Nat : [gate[c] EXCEPT !.warmed = n] \in Gate
      BY <1>1 DEF Gate
    <3>2. gate[c].warmed + 1 \in Nat
      BY <3>1
    <3> QED BY <1>1, <3>1, <3>2 DEF AfterFrame
  <2>3. Judged(c, moved) \in Verdict
    BY DEF Judged, Verdict, Turn, ShouldProcess, Settling
  <2>4. Append(judged[c], Judged(c, moved)) \in Seq(Verdict)
    BY <1>1, <2>3, AppendProperties
  <2>5. GateTypes'
    BY <1>2, <2>1, <2>2, <2>4 DEF GateTypes, Put
  <2>6. \A d \in Cameras :
          /\ gate'[d] = IF d = c THEN AfterFrame(gate[c], moved, now) ELSE gate[d]
          /\ judged'[d] = IF d = c THEN Append(judged[c], Judged(c, moved)) ELSE judged[d]
    BY <2>1 DEF Put, GateTypes
  <2> QED BY <1>1, <1>2, <1>4, <2>3, <2>5, <2>6
<1> QED BY <1>3, <1>4

(* Every step keeps the types. *)
LEMMA TypeStep == TypeOK /\ [Next]_vars => TypeOK'
<1> SUFFICES ASSUME SourceTypes, LinkTypes, FrameTypes, GateTypes, WorldTypes, [Next]_vars
             PROVE  SourceTypes' /\ LinkTypes' /\ FrameTypes' /\ GateTypes' /\ WorldTypes'
  BY TypeParts
<1>1. CASE Tick
  <2>1. WorldTypes'
    BY <1>1 DEF Tick, WorldTypes
  <2> QED BY <1>1, <2>1, Untouched DEF Tick
<1>2. CASE UNCHANGED vars
  <2>1. WorldTypes'
    BY <1>2 DEF vars, WorldTypes
  <2> QED BY <1>2, <2>1, Untouched DEF vars
<1>3. ASSUME NEW c \in Cameras, CaptureStep(c), UNCHANGED <<config, now>>
      PROVE  SourceTypes' /\ LinkTypes' /\ FrameTypes' /\ GateTypes' /\ WorldTypes'
  <2>0. WorldTypes' /\ now \in Nat
    BY <1>3 DEF WorldTypes
  <2>1. CASE OpenFile(c) /\ UNCHANGED <<linkVars, gateVars>>
    <3>1. SourceTypes'
      <4>1. config[c].frames \in Nat /\ {"inner", "ended"} \subseteq CaptureStates
        BY Configured DEF CaptureStates
      <4>2. left' \in [Cameras -> Nat \cup {NoCapture}]
        BY <2>1, <4>1 DEF OpenFile, SourceTypes, Put
      <4>3. at' \in [Cameras -> CaptureStates]
        BY <2>1, <4>1 DEF OpenFile, SourceTypes, Goto
      <4>4. /\ lastError' \in [Cameras -> {"", "open", "rewind", "read"}]
            /\ outcome' \in [Cameras -> {"none", "failed", "end of stream"}]
        BY <2>1 DEF OpenFile, SourceTypes, Put
      <4> QED BY <4>2, <4>3, <4>4 DEF SourceTypes
    <3>2. FrameTypes'
      <4>1. \/ UNCHANGED <<nextFrameDue, nextSequence>>
            \/ /\ nextFrameDue' = [nextFrameDue EXCEPT ![c] = now]
               /\ nextSequence' = [nextSequence EXCEPT ![c] = 0]
        BY <2>1 DEF OpenFile, Put
      <4>2. UNCHANGED delivered
        BY <2>1 DEF OpenFile
      <4>3. nextFrameDue' \in [Cameras -> Nat]
        BY <2>0, <4>1 DEF FrameTypes
      <4>4. nextSequence' \in [Cameras -> Nat]
        BY <4>1 DEF FrameTypes
      <4> QED BY <4>2, <4>3, <4>4 DEF FrameTypes
    <3> QED BY <2>1, <2>0, <3>1, <3>2, Untouched
  <2>2. CASE OpenCamera(c) /\ UNCHANGED <<left, outcome, gateVars>>
    <3>1. SourceTypes'
      BY <2>2 DEF OpenCamera, NoUrl, ApplyOptions, Connect, SourceTypes, CaptureStates, Goto, Put
    <3>2. LinkTypes'
      <4>1. CASE ApplyOptions(c)
        <5>1. options' \in Transports /\ used' = used
          BY <4>1, Configured DEF ApplyOptions, OwnOptions
        <5>2. crossed' \in [Cameras -> SUBSET Transports]
          <6>1. \A d \in Cameras : crossed[d] \cup {config[c].transport} \in SUBSET Transports
            BY Configured DEF LinkTypes
          <6> QED BY <4>1, <6>1 DEF ApplyOptions, LinkTypes
        <5> QED BY <5>1, <5>2 DEF LinkTypes
      <4>2. CASE NoUrl(c) \/ Connect(c)
        BY <4>2 DEF NoUrl, Connect, LinkTypes, linkVars, Put
      <4> QED BY <2>2, <4>1, <4>2 DEF OpenCamera
    <3>3. FrameTypes'
      BY <2>2 DEF OpenCamera, NoUrl, ApplyOptions, Connect, Numbering, FrameTypes
    <3> QED BY <2>2, <2>0, <3>1, <3>2, <3>3, Untouched
  <2>3. CASE at[c] = "inner" /\ ReadVideo(c) /\ UNCHANGED <<outcome, linkVars, gateVars, frameVars>>
    <3>1. ASSUME NEW n \in Nat \cup {NoCapture}, ReadFrame(c, n) PROVE SourceTypes'
      <4>1. (IF n > 1 + config[c].skip THEN n - 1 - config[c].skip ELSE 0) \in Nat
        BY <3>1, Configured DEF NoCapture
      <4> QED BY <3>1, <2>3, <4>1 DEF ReadFrame, SourceTypes, CaptureStates, Goto, Put
    <3>2. ASSUME NEW e \in {"", "open", "rewind", "read"}, GiveUp(c, e) PROVE SourceTypes'
      BY <3>2, <2>3 DEF GiveUp, SourceTypes, CaptureStates, Goto, Put
    <3>3. left[c] \in Nat \cup {NoCapture} /\ lastError[c] \in {"", "open", "rewind", "read"}
      BY DEF SourceTypes
    <3>4. SourceTypes'
      BY <2>3, <3>1, <3>2, <3>3, Configured DEF ReadVideo, RewindFails
    <3> QED BY <2>3, <2>0, <3>4, Untouched
  <2>4. CASE Pace(c) /\ UNCHANGED <<left, lastError, outcome, linkVars, gateVars>>
    <3>1. SourceTypes'
      BY <2>4 DEF Pace, SourceTypes, CaptureStates, Goto
    <3>2. nextFrameDue' \in [Cameras -> Nat]
      <4>1. nextFrameDue[c] \in Nat /\ Interval(c) \in Nat
        BY Configured DEF FrameTypes
      <4>2. NoCatchUp(nextFrameDue[c] + Interval(c)) \in Nat
        BY <2>0, <4>1 DEF NoCatchUp
      <4>3. \/ nextFrameDue' = [nextFrameDue EXCEPT ![c] = NoCatchUp(@ + Interval(c))]
            \/ UNCHANGED nextFrameDue
        BY <2>4 DEF Pace
      <4> QED BY <4>2, <4>3 DEF FrameTypes
    <3>3. FrameTypes'
      BY <2>4, <3>2 DEF Pace, FrameTypes
    <3> QED BY <2>4, <2>0, <3>1, <3>3, Untouched
  <2>8. CASE Deliver(c) /\ UNCHANGED <<left, lastError, outcome, linkVars, gateVars>>
    <3>1. SourceTypes'
      BY <2>8 DEF Deliver, SourceTypes, CaptureStates, Goto
    <3>2. FrameTypes'
      BY <2>8, <2>0, ProduceTypes DEF Deliver, FrameTypes
    <3> QED BY <2>8, <2>0, <3>1, <3>2, Untouched
  <2>5. CASE ReadStream(c) /\ UNCHANGED <<left, outcome, linkVars, gateVars>>
    <3>1. SourceTypes'
      BY <2>5 DEF ReadStream, SourceTypes, CaptureStates, Goto, Put
    <3>2. FrameTypes'
      BY <2>5, <2>0, ProduceTypes DEF ReadStream, FrameTypes
    <3> QED BY <2>5, <2>0, <3>1, <3>2, Untouched
  <2>6. CASE Judge(c) /\ UNCHANGED <<left, lastError, outcome, linkVars, frameVars>>
    <3>1. SourceTypes'
      BY <2>6 DEF Judge, SourceTypes, CaptureStates, Goto
    <3>2. GateTypes'
      BY <2>6, <2>0, JudgeTypes
    <3> QED BY <2>6, <2>0, <3>1, <3>2, Untouched
  <2>7. CASE Finish(c) /\ UNCHANGED <<lastError, linkVars, gateVars, frameVars>>
    <3>1. SourceTypes'
      BY <2>7 DEF Finish, SourceTypes, CaptureStates, Goto, Put
    <3> QED BY <2>7, <2>0, <3>1, Untouched
  <2> QED BY <1>3, <2>1, <2>2, <2>3, <2>4, <2>5, <2>6, <2>7, <2>8 DEF CaptureStep
<1> QED BY <1>1, <1>2, <1>3 DEF Next

(* Every variable keeps its type. *)
THEOREM TypeCorrect == Spec => []TypeOK
  BY Initially, TypeStep, PTL DEF Spec

-----------------------------------------------------------------------------
(* The rhythm of a video.                                                  *)

(* n times a[i] that are an interval I apart, all but two of each run; all *)
(* of them past; and a time due that is ahead of them: since the i-th of   *)
(* them it has advanced by an interval for every time between them.        *)
Spaced(a, n, I) == \A i, j \in 1..n : i < j => a[j] - a[i] >= (j - i - 2) * I
Past(a, n, t) == \A i \in 1..n : a[i] <= t
Ahead(a, n, I, due) == \A i \in 1..n : i < n => due >= a[i] + (n - 1 - i) * I

(* Once the clock has been looked at for the next frame, due is an         *)
(* interval further, and so is the clock where it was.                     *)
Sampled(a, n, I, due, t) ==
    \A i \in 1..n : due >= a[i] + (n - i) * I /\ t >= a[i] + (n - 1 - i) * I

(* The times of a sequence of deliveries. *)
Times(d) == [k \in 1..Len(d) |-> d[k].at]

OnSchedule(c) ==
    LET a == Times(delivered[c])
        n == Len(delivered[c])
    IN  /\ Spaced(a, n, Interval(c)) /\ Past(a, n, now)
        /\ Ahead(a, n, Interval(c), nextFrameDue[c])
        /\ at[c] = "paced" => Sampled(a, n, Interval(c), nextFrameDue[c], now)

Schedule ==
    \A c \in Cameras : ~Live(c) =>
      /\ at[c] = "outer" => delivered[c] = <<>>
      /\ config[c].realtime => OnSchedule(c)

LEMMA Longer == \A m, n \in Int : (m + 1) * n = m * n + n
  BY SMT

(* A sequence that is extended. *)
LEMMA Extended ==
  ASSUME NEW S, NEW s \in Seq(S), NEW x \in S
  PROVE  /\ Append(s, x) \in Seq(S) /\ Len(s) \in Nat
         /\ Len(Append(s, x)) = Len(s) + 1
         /\ DOMAIN s = 1..Len(s) /\ DOMAIN Append(s, x) = 1..(Len(s) + 1)
         /\ \A k \in 1..Len(s) : Append(s, x)[k] = s[k]
         /\ Append(s, x)[Len(s) + 1] = x
         /\ \A k \in DOMAIN s : s[k] \in S
  BY AppendProperties, LenProperties, ElementOfSeq

(* The intervals between i and n, and one more. *)
LEMMA OneMoreInterval ==
  ASSUME NEW n \in Int, NEW I \in Nat, NEW i \in Int
  PROVE  (n - 1 - i) * I \in Int /\ (n - i) * I = (n - 1 - i) * I + I
<1>1. n - 1 - i \in Int /\ n - i = (n - 1 - i) + 1
  OBVIOUS
<1>2. \A m \in Int : m * I \in Int
  OBVIOUS
<1> QED BY <1>1, <1>2, Longer

(* The clock shows t, no earlier than a frame was due; the next one is due *)
(* no earlier than that and than an interval later.                        *)
LEMMA PacedFrame ==
  ASSUME NEW n \in Nat, NEW I \in Nat, NEW t \in Nat, NEW due \in Nat, NEW next \in Nat,
         NEW a \in [1..n -> Nat],
         Past(a, n, t), Ahead(a, n, I, due), t >= due, next >= t, next >= due + I
  PROVE  Ahead(a, n, I, next) /\ Sampled(a, n, I, next, t)
<1>1. ASSUME NEW i \in 1..n, i < n
      PROVE  next >= a[i] + (n - i) * I /\ next >= a[i] + (n - 1 - i) * I
             /\ t >= a[i] + (n - 1 - i) * I
  <2> DEFINE m == (n - 1 - i) * I
  <2>1. m \in Int /\ (n - i) * I = m + I
    BY OneMoreInterval
  <2>2. due >= a[i] + m /\ a[i] \in Nat
    BY <1>1 DEF Ahead
  <2> HIDE DEF m
  <2>3. next >= a[i] + (m + I) /\ next >= a[i] + m /\ t >= a[i] + m
    BY <2>1, <2>2
  <2> QED BY <2>1, <2>3 DEF m
<1>2. ASSUME NEW i \in 1..n, i = n
      PROVE  next >= a[i] + (n - i) * I /\ t >= a[i] + (n - 1 - i) * I
  <2>1. a[i] \in Nat /\ a[i] <= t
    BY DEF Past
  <2>2. n - i = 0 /\ 0 * I = 0
    BY <1>2
  <2>3. (n - i) * I = 0
    BY <2>2
  <2>4. (n - 1 - i) * I \in Int /\ (n - 1 - i) * I <= 0
    BY <2>3, OneMoreInterval
  <2> QED BY <2>1, <2>3, <2>4
<1>3. \A i \in 1..n : i < n \/ i = n
  OBVIOUS
<1> QED BY <1>1, <1>2, <1>3 DEF Ahead, Sampled

(* The frame is stamped, at any time since. *)
LEMMA StampedFrame ==
  ASSUME NEW n \in Nat, NEW I \in Nat, NEW t \in Nat, NEW due \in Nat,
         NEW a \in [1..n -> Nat], NEW b \in [1..(n + 1) -> Nat],
         \A k \in 1..n : b[k] = a[k],
         b[n + 1] = t,
         Spaced(a, n, I), Past(a, n, t), Sampled(a, n, I, due, t)
  PROVE  Spaced(b, n + 1, I) /\ Past(b, n + 1, t) /\ Ahead(b, n + 1, I, due)
<1>1. ASSUME NEW i \in 1..(n + 1), NEW j \in 1..(n + 1), i < j
      PROVE  b[j] - b[i] >= (j - i - 2) * I
  <2>1. i \in 1..n /\ b[i] = a[i] /\ a[i] \in Nat
    BY <1>1
  <2>2. CASE j \in 1..n
    BY <1>1, <2>1, <2>2 DEF Spaced
  <2>3. CASE j = n + 1
    <3>1. j - i - 2 = n - 1 - i /\ b[j] = t
      BY <2>1, <2>3
    <3>2. t >= a[i] + (n - 1 - i) * I /\ (n - 1 - i) * I \in Int
      BY <2>1, OneMoreInterval DEF Sampled
    <3>3. t - a[i] >= (n - 1 - i) * I
      BY <2>1, <3>2
    <3> QED BY <2>1, <3>1, <3>3
  <2> QED BY <2>2, <2>3
<1>2. Past(b, n + 1, t)
  BY DEF Past
<1>3. ASSUME NEW i \in 1..(n + 1), i < n + 1
      PROVE  due >= b[i] + (n + 1 - 1 - i) * I
  <2>1. i \in 1..n /\ n + 1 - 1 - i = n - i
    BY <1>3
  <2> QED BY <2>1 DEF Sampled
<1>4. Spaced(b, n + 1, I)
  BY <1>1 DEF Spaced
<1>5. Ahead(b, n + 1, I, due)
  BY <1>3 DEF Ahead
<1> QED BY <1>2, <1>4, <1>5

(* The times of deliveries are times. *)
LEMMA TimesType ==
  ASSUME NEW d \in Seq(Delivery)
  PROVE  /\ Len(d) \in Nat /\ DOMAIN d = 1..Len(d) /\ Times(d) \in [1..Len(d) -> Nat]
         /\ \A k \in 1..Len(d) : Times(d)[k] = d[k].at
<1>1. Len(d) \in Nat /\ DOMAIN d = 1..Len(d)
  BY LenProperties
<1>2. \A k \in 1..Len(d) : d[k] \in Delivery
  BY <1>1, ElementOfSeq
<1>3. \A k \in 1..Len(d) : Times(d)[k] = d[k].at /\ d[k].at \in Nat
  BY <1>2 DEF Times, Delivery
<1>4. Times(d) \in [1..Len(d) -> Nat]
  BY <1>3 DEF Times
<1> QED BY <1>1, <1>3, <1>4

(* A frame that is paced. *)
LEMMA PaceKeepsSchedule ==
  ASSUME TypeOK, NEW c \in Cameras, Pace(c), config[c].realtime, OnSchedule(c),
         UNCHANGED <<config, now>>
  PROVE  OnSchedule(c)'
<1> DEFINE a == Times(delivered[c])
           n == Len(delivered[c])
           I == Interval(c)
<1>0. now \in Nat /\ FrameTypes /\ WorldTypes /\ nextFrameDue[c] \in Nat
  BY TypeParts DEF WorldTypes, FrameTypes
<1>1. I \in Nat /\ Interval(c)' = I
  BY <1>0, Configured DEF Interval
<1>2. /\ now >= nextFrameDue[c] /\ delivered' = delivered
      /\ nextFrameDue' = [nextFrameDue EXCEPT ![c] = NoCatchUp(@ + Interval(c))]
  BY DEF Pace
<1>3. nextFrameDue'[c] >= now /\ nextFrameDue'[c] >= nextFrameDue[c] + I /\ nextFrameDue'[c] \in Nat
  <2>1. nextFrameDue'[c] = NoCatchUp(nextFrameDue[c] + I)
    BY <1>0, <1>2 DEF FrameTypes
  <2> QED BY <1>0, <1>1, <2>1 DEF NoCatchUp
<1>4. n \in Nat /\ a \in [1..n -> Nat]
  BY <1>0, TimesType DEF FrameTypes
<1>5. Spaced(a, n, I) /\ Past(a, n, now) /\ Ahead(a, n, I, nextFrameDue[c])
  BY DEF OnSchedule
<1>6. Ahead(a, n, I, nextFrameDue'[c]) /\ Sampled(a, n, I, nextFrameDue'[c], now)
  <2> HIDE DEF a, n, I
  <2> QED BY <1>0, <1>1, <1>2, <1>3, <1>4, <1>5, PacedFrame
<1>7. now' = now /\ delivered'[c] = delivered[c]
  BY <1>2
<1> QED BY <1>1, <1>5, <1>6, <1>7 DEF OnSchedule

(* A frame that leaves getNextFrame. *)
LEMMA DeliverKeepsSchedule ==
  ASSUME TypeOK, NEW c \in Cameras, Deliver(c), config[c].realtime, OnSchedule(c),
         UNCHANGED <<config, now>>
  PROVE  OnSchedule(c)'
<1> DEFINE d == delivered[c]
           e == delivered'[c]
           n == Len(d)
           I == Interval(c)
           x == [at |-> now, seq |-> nextSequence[c]]
<1>0. /\ now \in Nat /\ FrameTypes /\ WorldTypes /\ nextFrameDue[c] \in Nat
      /\ at[c] = "paced" /\ at'[c] = "frame" /\ Produce(c) /\ nextFrameDue' = nextFrameDue
  BY TypeParts DEF WorldTypes, FrameTypes, SourceTypes, Deliver, Goto
<1>1. I \in Nat /\ Interval(c)' = I
  BY <1>0, Configured DEF Interval
<1>2. d \in Seq(Delivery) /\ e = Append(d, x) /\ x \in Delivery /\ x.at = now
  BY <1>0, ProduceTypes DEF Delivery, FrameTypes
<1>3. /\ e \in Seq(Delivery) /\ Len(e) = n + 1 /\ n \in Nat
      /\ \A k \in 1..n : e[k] = d[k]
      /\ e[n + 1] = x
  BY <1>2, Extended
<1>4. Times(d) \in [1..n -> Nat] /\ Times(e) \in [1..(n + 1) -> Nat]
  BY <1>2, <1>3, TimesType
<1>5. (\A k \in 1..n : Times(e)[k] = Times(d)[k]) /\ Times(e)[n + 1] = now
  BY <1>2, <1>3 DEF Times
<1>6. /\ Spaced(Times(d), n, I) /\ Past(Times(d), n, now)
      /\ Sampled(Times(d), n, I, nextFrameDue[c], now)
  BY <1>0 DEF OnSchedule
<1>7. /\ Spaced(Times(e), n + 1, I) /\ Past(Times(e), n + 1, now)
      /\ Ahead(Times(e), n + 1, I, nextFrameDue[c])
  <2> HIDE DEF d, e, n, I
  <2> QED BY <1>0, <1>1, <1>3, <1>4, <1>5, <1>6, StampedFrame
<1>8. /\ Spaced(Times(e), Len(e), I) /\ Past(Times(e), Len(e), now)
      /\ Ahead(Times(e), Len(e), I, nextFrameDue[c])
  BY <1>3, <1>7
<1> QED BY <1>0, <1>1, <1>8 DEF OnSchedule

LEMMA ScheduleInit == Init => Schedule
<1> SUFFICES ASSUME Init, NEW c \in Cameras
             PROVE  delivered[c] = <<>> /\ OnSchedule(c)
  BY DEF Schedule
<1>1. delivered[c] = <<>>
  BY DEF Init
<1>2. 1..Len(delivered[c]) = {}
  BY <1>1
<1> QED BY <1>1, <1>2 DEF OnSchedule, Spaced, Past, Ahead, Sampled

LEMMA ScheduleStep == TypeOK /\ Schedule /\ [Next]_vars => Schedule'
<1> SUFFICES ASSUME TypeOK, Schedule, [Next]_vars, NEW e \in Cameras, (~Live(e))'
             PROVE  /\ (at[e] = "outer" => delivered[e] = <<>>)'
                    /\ (config[e].realtime => OnSchedule(e))'
  BY DEF Schedule
<1>0. /\ config' = config /\ ~Live(e)
      /\ at[e] = "outer" => delivered[e] = <<>>
      /\ config[e].realtime => OnSchedule(e)
  <2>1. config' = config
    BY DEF Next, Tick, vars
  <2>2. ~Live(e)
    BY <2>1 DEF Live
  <2> QED BY <2>1, <2>2 DEF Schedule
<1>1. ASSUME UNCHANGED <<now, delivered[e], nextFrameDue[e]>>,
             at'[e] \in {"outer", "paced"} => at[e] = at'[e]
      PROVE  /\ (at[e] = "outer" => delivered[e] = <<>>)'
             /\ (config[e].realtime => OnSchedule(e))'
  BY <1>0, <1>1 DEF OnSchedule, Interval
<1>2. CASE Tick
  <2> DEFINE a == Times(delivered[e])
             n == Len(delivered[e])
             I == Interval(e)
             due == nextFrameDue[e]
  <2>1. UNCHANGED <<config, at, delivered, nextFrameDue>> /\ now' = now + 1 /\ now \in Nat
    BY <1>2, TypeParts DEF Tick, frameVars, WorldTypes
  <2>2. n \in Nat /\ a \in [1..n -> Nat] /\ I \in Nat /\ Interval(e)' = I
    BY <2>1, TypeParts, TimesType, Configured DEF FrameTypes, Interval
  <2>3. \A i \in 1..n : (n - 1 - i) * I \in Int
    BY <2>2, OneMoreInterval
  <2>4. config[e].realtime => Past(a, n, now) /\ (at[e] = "paced" => Sampled(a, n, I, due, now))
    BY <1>0 DEF OnSchedule
  <2> HIDE DEF a, n, I, due
  <2>5. Past(a, n, now) => Past(a, n, now')
    BY <2>1, <2>2 DEF Past
  <2>6. Sampled(a, n, I, due, now) => Sampled(a, n, I, due, now')
    BY <2>1, <2>2, <2>3 DEF Sampled
  <2> QED BY <1>0, <2>1, <2>2, <2>4, <2>5, <2>6 DEF OnSchedule, a, n, I, due
<1>8. CASE UNCHANGED vars
  BY <1>1, <1>8 DEF vars, frameVars
<1>3. ASSUME NEW c \in Cameras, CaptureStep(c), UNCHANGED <<config, now>>
      PROVE  /\ (at[e] = "outer" => delivered[e] = <<>>)'
             /\ (config[e].realtime => OnSchedule(e))'
  <2>0. FrameTypes /\ SourceTypes /\ WorldTypes /\ now \in Nat
    BY TypeParts DEF WorldTypes
  <2>1. CASE OpenFile(c) /\ UNCHANGED <<linkVars, gateVars>>
    <3>1. CASE c # e
      <4>1. UNCHANGED <<delivered[e], nextFrameDue[e], at[e]>>
        <5>1. at'[e] = at[e]
          BY <2>0, <2>1, <3>1 DEF OpenFile, Goto, SourceTypes
        <5>2. nextFrameDue'[e] = nextFrameDue[e]
          BY <2>0, <2>1, <3>1 DEF OpenFile, Put, FrameTypes
        <5> QED BY <2>1, <5>1, <5>2 DEF OpenFile
      <4> QED BY <1>1, <1>3, <4>1
    <3>2. CASE c = e
      <4>1. at[e] = "outer" /\ delivered' = delivered
        BY <2>1, <3>2 DEF OpenFile, Goto
      <4>2. delivered'[e] = <<>>
        BY <1>0, <4>1
      <4>3. 1..Len(delivered'[e]) = {}
        BY <4>2
      <4> QED BY <4>2, <4>3 DEF OnSchedule, Spaced, Past, Ahead, Sampled
    <3> QED BY <3>1, <3>2
  <2>2. CASE OpenCamera(c) /\ UNCHANGED <<left, outcome, gateVars>>
    <3>1. c # e
      BY <1>0, <2>2 DEF OpenCamera
    <3>2. at'[e] = at[e]
      <4>1. \E s : at' = [at EXCEPT ![c] = s]
        BY <2>2 DEF OpenCamera, NoUrl, ApplyOptions, Connect, Goto
      <4> QED BY <2>0, <3>1, <4>1 DEF SourceTypes
    <3>3. UNCHANGED <<delivered[e], nextFrameDue[e]>>
      BY <2>2 DEF OpenCamera
    <3> QED BY <1>1, <1>3, <3>2, <3>3
  <2>3. CASE at[c] = "inner" /\ ReadVideo(c) /\ UNCHANGED <<outcome, linkVars, gateVars, frameVars>>
    <3>1. at'[e] \in {"outer", "paced"} => at[e] = at'[e]
      <4>1. \E s \in {"pacing", "over"} : at' = [at EXCEPT ![c] = s]
        BY <2>3 DEF ReadVideo, ReadFrame, GiveUp, RewindFails, Goto
      <4> QED BY <2>0, <4>1 DEF SourceTypes
    <3>2. UNCHANGED <<delivered[e], nextFrameDue[e]>>
      BY <2>3 DEF frameVars
    <3> QED BY <1>1, <1>3, <3>1, <3>2
  <2>4. CASE Pace(c) /\ UNCHANGED <<left, lastError, outcome, linkVars, gateVars>>
    <3>1. at'[e] = "outer" => at[e] = "outer" /\ e # c
      BY <2>0, <2>4 DEF Pace, Goto, SourceTypes
    <3>2. CASE c # e
      <4>1. UNCHANGED <<delivered[e], nextFrameDue[e], at[e]>>
        BY <2>0, <2>4, <3>2 DEF Pace, Goto, SourceTypes, FrameTypes
      <4> QED BY <1>1, <1>3, <4>1
    <3>3. CASE c = e
      <4>1. config'[e].realtime => OnSchedule(e)'
        BY <1>0, <1>3, <2>4, <3>3, PaceKeepsSchedule
      <4> QED BY <3>1, <3>3, <4>1
    <3> QED BY <3>2, <3>3
  <2>8. CASE Deliver(c) /\ UNCHANGED <<left, lastError, outcome, linkVars, gateVars>>
    <3>1. at'[e] = "outer" => at[e] = "outer" /\ e # c
      BY <2>0, <2>8 DEF Deliver, Goto, SourceTypes
    <3>2. CASE c # e
      <4>1. UNCHANGED <<delivered[e], nextFrameDue[e], at[e]>>
        BY <2>0, <2>8, <3>2 DEF Deliver, Produce, Goto, SourceTypes, FrameTypes
      <4> QED BY <1>1, <1>3, <4>1
    <3>3. CASE c = e
      <4>1. config'[e].realtime => OnSchedule(e)'
        BY <1>0, <1>3, <2>8, <3>3, DeliverKeepsSchedule
      <4> QED BY <3>1, <3>3, <4>1
    <3> QED BY <3>2, <3>3
  <2>5. CASE ReadStream(c) /\ UNCHANGED <<left, outcome, linkVars, gateVars>>
    <3>1. c # e
      BY <1>0, <2>5 DEF ReadStream
    <3>2. UNCHANGED <<at[e], delivered[e], nextFrameDue[e]>>
      BY <2>0, <2>5, <3>1 DEF ReadStream, Produce, Goto, SourceTypes, FrameTypes
    <3> QED BY <1>1, <1>3, <3>2
  <2>6. CASE Judge(c) /\ UNCHANGED <<left, lastError, outcome, linkVars, frameVars>>
    <3>1. at'[e] \in {"outer", "paced"} => at[e] = at'[e]
      BY <2>0, <2>6 DEF Judge, Goto, SourceTypes
    <3> QED BY <1>1, <1>3, <2>6, <3>1 DEF frameVars
  <2>7. CASE Finish(c) /\ UNCHANGED <<lastError, linkVars, gateVars, frameVars>>
    <3>1. at'[e] \in {"outer", "paced"} => at[e] = at'[e]
      BY <1>0, <2>0, <2>7 DEF Finish, Goto, SourceTypes
    <3> QED BY <1>1, <1>3, <2>7, <3>1 DEF frameVars
  <2> QED BY <1>3, <2>1, <2>2, <2>3, <2>4, <2>5, <2>6, <2>7, <2>8 DEF CaptureStep
<1> QED BY <1>2, <1>3, <1>8 DEF Next

(* However a video's thread is delayed, its frames never come in a burst:  *)
(* between two of them lies the time of all frames between them but two.   *)
THEOREM VideosArePaced == Spec => []Paced
<1>1. TypeOK /\ Schedule => Paced
  <2> SUFFICES ASSUME TypeOK, Schedule, NEW c \in Cameras, ~Live(c), config[c].realtime,
                      NEW i \in DOMAIN delivered[c], NEW j \in DOMAIN delivered[c], i < j
               PROVE  delivered[c][j].at - delivered[c][i].at >= (j - i - 2) * Interval(c)
    BY DEF Paced
  <2>1. Spaced(Times(delivered[c]), Len(delivered[c]), Interval(c))
    BY DEF Schedule, OnSchedule
  <2>2. delivered[c] \in Seq(Delivery)
    BY TypeParts DEF FrameTypes
  <2>3. /\ i \in 1..Len(delivered[c]) /\ j \in 1..Len(delivered[c])
        /\ Times(delivered[c])[i] = delivered[c][i].at /\ Times(delivered[c])[j] = delivered[c][j].at
    BY <2>2, TimesType
  <2> QED BY <2>1, <2>3 DEF Spaced
<1> QED BY <1>1, Initially, TypeStep, ScheduleInit, ScheduleStep, PTL DEF Spec

-----------------------------------------------------------------------------
(* The options of a live camera's connection.                              *)

(* A camera that is being opened or is open has its own options, or those  *)
(* that another thread set in between.                                     *)
Linked(c) ==
    /\ at[c] \notin {"pacing", "paced"}
    /\ at[c] = "opening" => options \in {config[c].transport} \cup crossed[c]
    /\ at[c] \in {"inner", "frame"} => used[c] \in {config[c].transport} \cup crossed[c]

Links == \A c \in Cameras : Live(c) => Linked(c)

LEMMA LinksInit == Init => Links
  BY DEF Init, Links, Linked

(* What a step of camera c does to another camera's place. *)
LEMMA OthersStay ==
  ASSUME SourceTypes, NEW c \in Cameras, NEW e \in Cameras, c # e, CaptureStep(c)
  PROVE  at'[e] = at[e]
<1>1. at' = at \/ \E s \in CaptureStates : at' = [at EXCEPT ![c] = s]
  BY DEF CaptureStep, OpenFile, OpenCamera, NoUrl, ApplyOptions, Connect, ReadVideo, ReadFrame,
         GiveUp, RewindFails, Pace, Deliver, ReadStream, Judge, Finish, Goto, CaptureStates
<1> QED BY <1>1 DEF SourceTypes

LEMMA LinksStep == TypeOK /\ Links /\ [Next]_vars => Links'
<1> SUFFICES ASSUME TypeOK, Links, [Next]_vars, NEW e \in Cameras, Live(e)'
             PROVE  Linked(e)'
  BY DEF Links
<1>0. config' = config /\ Live(e) /\ Linked(e) /\ SourceTypes /\ LinkTypes
  <2>1. config' = config
    BY DEF Next, Tick, vars
  <2> QED BY <2>1, TypeParts DEF Live, Links
<1>1. ASSUME UNCHANGED linkVars, at'[e] = at[e]
      PROVE  Linked(e)'
  BY <1>0, <1>1 DEF Linked, linkVars
<1>2. CASE Tick \/ UNCHANGED vars
  BY <1>1, <1>2 DEF Tick, vars
<1>3. ASSUME NEW c \in Cameras, CaptureStep(c), UNCHANGED <<config, now>>
      PROVE  Linked(e)'
  <2>1. CASE c # e
    <3>1. at'[e] = at[e]
      BY <1>0, <1>3, <2>1, OthersStay
    <3>2. CASE UNCHANGED linkVars
      BY <1>1, <3>1, <3>2
    <3>3. CASE ApplyOptions(c)
      <4>1. /\ used' = used /\ options' = config[c].transport
            /\ crossed'[e] = IF at[e] = "opening" THEN crossed[e] \cup {config[c].transport}
                                                 ELSE crossed[e]
        BY <2>1, <3>3 DEF ApplyOptions, OwnOptions
      <4>2. CASE at[e] = "opening"
        BY <1>0, <3>1, <4>1, <4>2 DEF Linked
      <4>3. CASE at[e] # "opening"
        BY <1>0, <3>1, <4>1, <4>3 DEF Linked
      <4> QED BY <4>2, <4>3
    <3>4. CASE Connect(c)
      <4>1. options' = options /\ crossed' = crossed /\ used'[e] = used[e]
        BY <1>0, <2>1, <3>4 DEF Connect, Put, LinkTypes
      <4> QED BY <1>0, <3>1, <4>1 DEF Linked
    <3> QED BY <1>3, <3>2, <3>3, <3>4 DEF CaptureStep, OpenCamera, NoUrl, linkVars
  <2>2. CASE c = e
    <3>1. CASE NoUrl(c) \/ ReadStream(c) \/ Finish(c)
      <4>1. at'[e] \in {"outer", "over"} \/ (at'[e] = "frame" /\ at[e] = "inner" /\ UNCHANGED linkVars)
        <5>1. CASE ReadStream(c)
          <6>1. UNCHANGED linkVars
            BY <1>3, <5>1, <2>2, <1>0
            DEF CaptureStep, OpenFile, OpenCamera, NoUrl, ApplyOptions, Connect, ReadVideo, Pace,
                Deliver, ReadStream, Judge, Finish, Goto
          <6> QED BY <1>0, <2>2, <5>1, <6>1 DEF ReadStream, Goto, SourceTypes
        <5>2. CASE NoUrl(c) \/ Finish(c)
          BY <1>0, <2>2, <5>2 DEF NoUrl, Finish, Goto, SourceTypes
        <5> QED BY <3>1, <5>1, <5>2
      <4> QED BY <1>0, <4>1 DEF Linked, linkVars
    <3>2. CASE ApplyOptions(c)
      <4>1. at'[e] = "opening" /\ options' = config[e].transport
        BY <1>0, <2>2, <3>2 DEF ApplyOptions, OwnOptions, Goto, SourceTypes
      <4> QED BY <1>0, <4>1 DEF Linked
    <3>3. CASE Connect(c)
      <4>1. CASE at'[e] = "inner" /\ used'[e] = options
        BY <1>0, <2>2, <3>3, <4>1 DEF Connect, Goto, Linked
      <4>2. CASE at'[e] = "outer"
        BY <4>2 DEF Linked
      <4> QED BY <1>0, <2>2, <3>3, <4>1, <4>2 DEF Connect, Goto, Put, SourceTypes, LinkTypes
    <3>4. CASE Judge(c) /\ UNCHANGED linkVars
      <4>1. at[e] = "frame" /\ at'[e] = "inner"
        BY <1>0, <2>2, <3>4 DEF Judge, Goto, SourceTypes
      <4> QED BY <1>0, <3>4, <4>1 DEF Linked, linkVars
    <3>5. ~OpenFile(c) /\ ~ReadVideo(c) /\ ~Pace(c) /\ ~Deliver(c)
      BY <1>0, <2>2 DEF OpenFile, ReadVideo, Pace, Deliver, Goto, Linked
    <3> QED BY <1>3, <3>1, <3>2, <3>3, <3>4, <3>5 DEF CaptureStep, OpenCamera
  <2> QED BY <2>1, <2>2
<1> QED BY <1>2, <1>3 DEF Next

(* A live camera's connection has the camera's own transport or that of a  *)
(* camera whose thread set the process's environment between the two steps *)
(* of this one's open().                                                   *)
THEOREM ConnectionsHaveTheirTransport == Spec => []OwnTransport
<1>1. Links => OwnTransport
  BY DEF Links, Linked, OwnTransport
<1> QED BY <1>1, Initially, TypeStep, LinksInit, LinksStep, PTL DEF Spec

-----------------------------------------------------------------------------
(* How a source ends.                                                      *)

(* A camera that stopped reading has an error, as has a looping video; one *)
(* that does not loop has none once it is open.                            *)
Ending(c) ==
    /\ outcome[c] = "end of stream" => ~Live(c) /\ ~config[c].loop
    /\ at[c] = "over" /\ (Live(c) \/ config[c].loop) => lastError[c] # ""
    /\ ~Live(c) /\ ~config[c].loop /\ at[c] \in {"inner", "pacing", "paced", "frame", "over"}
         => lastError[c] = ""

Endings == \A c \in Cameras : Ending(c)

LEMMA EndingsInit == Init => Endings
<1> SUFFICES ASSUME Init, NEW c \in Cameras PROVE Ending(c)
  BY DEF Endings
<1>1. at[c] \in {"outer", "ended"} /\ outcome[c] = "none"
  BY DEF Init
<1> QED BY <1>1 DEF Ending

LEMMA EndingsStep == TypeOK /\ Endings /\ [Next]_vars => Endings'
<1> SUFFICES ASSUME TypeOK, Endings, [Next]_vars, NEW e \in Cameras
             PROVE  Ending(e)'
  BY DEF Endings
<1>0. config' = config /\ (Live(e)' <=> Live(e)) /\ Ending(e) /\ SourceTypes
  <2>1. config' = config
    BY DEF Next, Tick, vars
  <2> QED BY <2>1, TypeParts DEF Live, Endings
<1>1. ASSUME UNCHANGED <<at[e], lastError[e], outcome[e]>>
      PROVE  Ending(e)'
  BY <1>0, <1>1 DEF Ending
<1>2. CASE Tick \/ UNCHANGED vars
  BY <1>1, <1>2 DEF Tick, vars
<1>3. ASSUME NEW c \in Cameras, CaptureStep(c), UNCHANGED <<config, now>>
      PROVE  Ending(e)'
  <2>1. CASE c # e
    <3>1. at'[e] = at[e]
      BY <1>0, <1>3, <2>1, OthersStay
    <3>2. lastError' = lastError \/ \E x : lastError' = [lastError EXCEPT ![c] = x]
      BY <1>3 DEF CaptureStep, OpenFile, OpenCamera, NoUrl, ApplyOptions, Connect, ReadVideo,
                  ReadFrame, GiveUp, RewindFails, ReadStream, Put
    <3>3. outcome' = outcome \/ \E x : outcome' = [outcome EXCEPT ![c] = x]
      BY <1>3 DEF CaptureStep, OpenFile, Finish, Put
    <3>4. lastError'[e] = lastError[e] /\ outcome'[e] = outcome[e]
      BY <1>0, <2>1, <3>2, <3>3 DEF SourceTypes
    <3> QED BY <1>1, <3>1, <3>4
  <2>2. CASE c = e
    <3>1. CASE OpenFile(c)
      <4>1. ~Live(e)
        BY <2>2, <3>1 DEF OpenFile
      <4>2. CASE at'[e] = "inner" /\ lastError'[e] = "" /\ outcome'[e] = outcome[e]
        BY <1>0, <4>1, <4>2 DEF Ending
      <4>3. CASE at'[e] = "ended" /\ outcome'[e] = "failed"
        BY <4>3 DEF Ending
      <4> QED BY <1>0, <2>2, <3>1, <4>2, <4>3 DEF OpenFile, Goto, Put, SourceTypes
    <3>2. CASE OpenCamera(c) /\ UNCHANGED outcome
      <4>1. Live(e) /\ at'[e] \in {"outer", "opening", "inner"}
        BY <1>0, <2>2, <3>2
        DEF OpenCamera, NoUrl, ApplyOptions, Connect, Goto, SourceTypes
      <4> QED BY <1>0, <3>2, <4>1 DEF Ending
    <3>3. CASE ReadVideo(c) /\ UNCHANGED outcome
      <4>1. ~Live(e) /\ at[e] = "inner"
        BY <2>2, <3>3 DEF ReadVideo, ReadFrame, RewindFails, GiveUp, Goto
      <4>2. CASE at'[e] = "pacing" /\ lastError' = lastError
        BY <1>0, <3>3, <4>1, <4>2 DEF Ending
      <4>3. CASE config[e].loop /\ at'[e] = "over" /\ lastError'[e] = "rewind"
        BY <1>0, <3>3, <4>1, <4>3 DEF Ending
      <4>4. CASE ~config[e].loop /\ at'[e] = "over" /\ lastError'[e] = lastError[e]
        BY <1>0, <3>3, <4>1, <4>4 DEF Ending
      <4>5. CASE ReadFrame(c, left[c]) \/ ReadFrame(c, config[c].frames)
        BY <1>0, <2>2, <4>2, <4>5 DEF ReadFrame, Goto, SourceTypes
      <4>6. CASE ~config[c].loop /\ GiveUp(c, lastError[c])
        BY <1>0, <2>2, <4>4, <4>6 DEF GiveUp, Goto, Put, SourceTypes
      <4>7. CASE config[c].loop /\ RewindFails(c)
        BY <1>0, <2>2, <4>3, <4>7 DEF RewindFails, GiveUp, Goto, Put, SourceTypes
      <4> QED BY <3>3, <4>5, <4>6, <4>7 DEF ReadVideo
    <3>4. CASE Pace(c) /\ UNCHANGED <<lastError, outcome>>
      <4>1. at[e] = "pacing" /\ at'[e] = "paced"
        BY <1>0, <2>2, <3>4 DEF Pace, Goto, SourceTypes
      <4> QED BY <1>0, <3>4, <4>1 DEF Ending
    <3>8. CASE Deliver(c) /\ UNCHANGED <<lastError, outcome>>
      <4>1. at[e] = "paced" /\ at'[e] = "frame"
        BY <1>0, <2>2, <3>8 DEF Deliver, Goto, SourceTypes
      <4> QED BY <1>0, <3>8, <4>1 DEF Ending
    <3>5. CASE ReadStream(c) /\ UNCHANGED outcome
      <4>1. Live(e) /\ (at'[e] = "frame" \/ (at'[e] = "over" /\ lastError'[e] = "read"))
        <5>1. Live(e) /\ \/ at' = [at EXCEPT ![e] = "frame"]
                         \/ /\ at' = [at EXCEPT ![e] = "over"]
                            /\ lastError' = [lastError EXCEPT ![e] = "read"]
          BY <2>2, <3>5 DEF ReadStream, Goto, Put
        <5> QED BY <1>0, <5>1 DEF SourceTypes
      <4> QED BY <1>0, <3>5, <4>1 DEF Ending
    <3>6. CASE Judge(c) /\ UNCHANGED <<lastError, outcome>>
      <4>1. at[e] = "frame" /\ at'[e] = "inner"
        BY <1>0, <2>2, <3>6 DEF Judge, Goto, SourceTypes
      <4> QED BY <1>0, <3>6, <4>1 DEF Ending
    <3>7. CASE Finish(c) /\ UNCHANGED lastError
      <4>1. /\ at[e] = "over" /\ at'[e] \in {"outer", "ended"}
            /\ outcome'[e] = IF lastError[e] = "" THEN "end of stream" ELSE "failed"
        BY <1>0, <2>2, <3>7 DEF Finish, Goto, Put, SourceTypes
      <4> QED BY <1>0, <4>1 DEF Ending
    <3> QED BY <1>3, <3>1, <3>2, <3>3, <3>4, <3>5, <3>6, <3>7, <3>8 DEF CaptureStep
  <2> QED BY <2>1, <2>2
<1> QED BY <1>2, <1>3 DEF Next

(* A camera or a looping video never ends as "end of stream", and a video  *)
(* that does not loop never ends as a failure once it has been opened.     *)
THEOREM EndsAreNotFailures == Spec => []EndIsNotFailure
<1>1. Endings => EndIsNotFailure
  BY DEF Endings, Ending, EndIsNotFailure
<1> QED BY <1>1, Initially, TypeStep, EndingsInit, EndingsStep, PTL DEF Spec

-----------------------------------------------------------------------------
(* The motion gate.                                                        *)

(* The j-th verdict of w saw a movement that is remembered. *)
Remembered(w, j) == j > WarmUp /\ w[j].moved

(* A gate g behind the verdicts w, at time t. *)
Follows(g, w, t) ==
    /\ \A i \in DOMAIN w : w[i].at <= t
    /\ \A i, j \in DOMAIN w : i < j => w[i].at <= w[j].at
    /\ g.warmed = IF Len(w) < WarmUp THEN Len(w) ELSE WarmUp
    /\ g.saw <=> \E j \in DOMAIN w : Remembered(w, j)
    /\ \A j \in DOMAIN w : Remembered(w, j) => w[j].at <= g.at
    /\ g.saw => \E j \in DOMAIN w : Remembered(w, j) /\ w[j].at = g.at

(* Why a frame passed, and which frames became jobs. *)
Explained(w) ==
    \A k \in DOMAIN w :
      /\ w[k].passed <=>
           \/ k <= WarmUp
           \/ \E j \in DOMAIN w :
                j <= k /\ Remembered(w, j) /\ (j = k \/ w[k].at - w[j].at < Cooldown)
      /\ w[k].job <=> w[k].passed /\ (k - 1) % EveryN = 0

Verdicts ==
    \A c \in Cameras :
      /\ config[c].gated => /\ counter[c] = Len(judged[c])
                            /\ Follows(gate[c], judged[c], now)
                            /\ Explained(judged[c])
      /\ ~config[c].gated => judged[c] = <<>>

LEMMA VerdictsInit == Init => Verdicts
<1> SUFFICES ASSUME Init, NEW c \in Cameras
             PROVE  /\ counter[c] = Len(judged[c]) /\ judged[c] = <<>>
                    /\ Follows(gate[c], judged[c], now) /\ Explained(judged[c])
  BY DEF Verdicts
<1>1. counter[c] = 0 /\ judged[c] = <<>> /\ gate[c] = NewGate
  BY DEF Init
<1>2. Len(judged[c]) = 0 /\ DOMAIN judged[c] = {}
  BY <1>1
<1>3. gate[c].warmed = 0 /\ ~gate[c].saw
  BY <1>1 DEF NewGate
<1>4. Follows(gate[c], judged[c], now)
  BY <1>2, <1>3, Bounds DEF Follows
<1> QED BY <1>1, <1>2, <1>4 DEF Explained

(* Time passes. *)
LEMMA FollowsLater ==
  ASSUME NEW g, NEW w \in Seq(Verdict), NEW t \in Nat, Follows(g, w, t)
  PROVE  Follows(g, w, t + 1)
<1>1. \A i \in DOMAIN w : w[i].at \in Nat
  <2>1. \A i \in DOMAIN w : w[i] \in Verdict
    BY ElementOfSeq, LenProperties
  <2> QED BY <2>1 DEF Verdict
<1> QED BY <1>1 DEF Follows

(* What the gate makes of a frame at time t. *)
LEMMA FrameFollows ==
  ASSUME NEW g \in Gate, NEW w \in Seq(Verdict), NEW t \in Nat, NEW v \in Verdict,
         Follows(g, w, t), Explained(w), v.at = t,
         v.passed = ShouldProcess(g, v.moved, t),
         v.job <=> v.passed /\ Len(w) % EveryN = 0
  PROVE  Follows(AfterFrame(g, v.moved, t), Append(w, v), t) /\ Explained(Append(w, v))
<1> DEFINE n == Len(w)
           x == Append(w, v)
           h == AfterFrame(g, v.moved, t)
<1>1. /\ n \in Nat /\ Len(x) = n + 1 /\ DOMAIN w = 1..n /\ DOMAIN x = 1..(n + 1)
      /\ \A k \in 1..n : x[k] = w[k]
      /\ x[n + 1] = v
  BY Extended
<1>2. (\A k \in 1..n : w[k] \in Verdict) /\ \A k \in 1..(n + 1) : x[k].at \in Nat
  <2>1. \A k \in 1..n : w[k] \in Verdict
    BY <1>1, ElementOfSeq
  <2> QED BY <1>1, <2>1 DEF Verdict
<1>3. v.moved \in BOOLEAN /\ g.warmed \in Nat /\ g.saw \in BOOLEAN /\ g.at \in Nat
  BY DEF Verdict, Gate
<1> HIDE DEF n, x, h
<1>4. /\ \A k \in 1..n : Remembered(x, k) <=> Remembered(w, k)
      /\ Remembered(x, n + 1) <=> n >= WarmUp /\ v.moved
      /\ Settling(g) <=> n < WarmUp
      /\ g.saw <=> \E j \in 1..n : Remembered(w, j)
  BY <1>1, Bounds DEF Remembered, Settling, Follows, n
<1>5. /\ h.warmed = IF n < WarmUp THEN g.warmed + 1 ELSE g.warmed
      /\ h.saw <=> g.saw \/ Remembered(x, n + 1)
      /\ h.at = IF Remembered(x, n + 1) THEN t ELSE g.at
  <2>1. /\ [g EXCEPT !.warmed = @ + 1].warmed = g.warmed + 1
        /\ [g EXCEPT !.warmed = @ + 1].saw = g.saw
        /\ [g EXCEPT !.warmed = @ + 1].at = g.at
        /\ [g EXCEPT !.saw = TRUE, !.at = t].warmed = g.warmed
        /\ [g EXCEPT !.saw = TRUE, !.at = t].saw = TRUE
        /\ [g EXCEPT !.saw = TRUE, !.at = t].at = t
    BY DEF Gate
  <2>2. CASE n < WarmUp
    <3>1. h = [g EXCEPT !.warmed = @ + 1] /\ ~Remembered(x, n + 1)
      BY <1>1, <1>4, <2>2, Bounds DEF h, AfterFrame
    <3> QED BY <2>1, <2>2, <3>1
  <2>3. CASE n >= WarmUp /\ v.moved
    <3>1. h = [g EXCEPT !.saw = TRUE, !.at = t] /\ Remembered(x, n + 1) /\ ~(n < WarmUp)
      BY <1>1, <1>4, <2>3, Bounds DEF h, AfterFrame, Noted
    <3> QED BY <2>1, <3>1
  <2>4. CASE n >= WarmUp /\ ~v.moved
    <3>1. h = g /\ ~Remembered(x, n + 1) /\ ~(n < WarmUp)
      BY <1>1, <1>4, <2>4, Bounds DEF h, AfterFrame, Noted
    <3> QED BY <3>1
  <2> QED BY <1>1, <1>3, <2>2, <2>3, <2>4, Bounds
<1>6. Follows(h, x, t)
  <2>1. \A i \in 1..(n + 1) : x[i].at <= t
    BY <1>1 DEF Follows
  <2>2. \A i, j \in 1..(n + 1) : i < j => x[i].at <= x[j].at
    <3> TAKE i, j \in 1..(n + 1)
    <3>1. CASE j = n + 1
      BY <1>1, <2>1, <3>1
    <3>2. CASE j \in 1..n
      BY <1>1, <3>2 DEF Follows
    <3> QED BY <1>1, <3>1, <3>2
  <2>3. h.warmed = IF n + 1 < WarmUp THEN n + 1 ELSE WarmUp
    BY <1>1, <1>5, Bounds DEF Follows, n
  <2>4. h.saw <=> \E j \in 1..(n + 1) : Remembered(x, j)
    BY <1>1, <1>4, <1>5
  <2>5. \A j \in 1..(n + 1) : Remembered(x, j) => x[j].at <= h.at
    <3> SUFFICES ASSUME NEW j \in 1..(n + 1), Remembered(x, j) PROVE x[j].at <= h.at
      OBVIOUS
    <3>1. CASE Remembered(x, n + 1)
      BY <1>5, <2>1, <3>1
    <3>2. CASE ~Remembered(x, n + 1)
      <4>1. j \in 1..n /\ Remembered(w, j)
        BY <1>1, <1>4, <3>2
      <4> QED BY <1>1, <1>5, <3>2, <4>1 DEF Follows
    <3> QED BY <3>1, <3>2
  <2>6. h.saw => \E j \in 1..(n + 1) : Remembered(x, j) /\ x[j].at = h.at
    <3>1. CASE Remembered(x, n + 1)
      BY <1>1, <1>5, <3>1
    <3>2. CASE ~Remembered(x, n + 1)
      <4>1. h.saw => \E j \in 1..n : Remembered(w, j) /\ w[j].at = h.at
        BY <1>1, <1>5, <3>2 DEF Follows
      <4> QED BY <1>1, <1>4, <4>1
    <3> QED BY <3>1, <3>2
  <2> QED BY <1>1, <2>1, <2>2, <2>3, <2>4, <2>5, <2>6 DEF Follows
<1>7. v.passed <=>
        \/ n + 1 <= WarmUp
        \/ \E j \in 1..(n + 1) : Remembered(x, j) /\ (j = n + 1 \/ t - x[j].at < Cooldown)
  <2>1. v.passed <=> n < WarmUp \/ v.moved \/ (g.saw /\ t - g.at < Cooldown)
    BY <1>4 DEF ShouldProcess
  <2>2. CASE n < WarmUp
    <3>1. v.passed /\ n + 1 <= WarmUp
      BY <1>1, <2>1, <2>2, Bounds
    <3> QED BY <3>1
  <2>3. CASE n >= WarmUp /\ v.moved
    <3>1. v.passed
      BY <2>1, <2>3
    <3>2. Remembered(x, n + 1)
      BY <1>4, <2>3
    <3>3. n + 1 \in 1..(n + 1)
      BY <1>1
    <3> QED BY <3>1, <3>2, <3>3
  <2>4. CASE n >= WarmUp /\ ~v.moved
    <3>1. g.saw /\ t - g.at < Cooldown
            => \E j \in 1..n : Remembered(x, j) /\ t - x[j].at < Cooldown
      BY <1>1, <1>4 DEF Follows
    <3>2. (\E j \in 1..n : Remembered(x, j) /\ t - x[j].at < Cooldown)
            => g.saw /\ t - g.at < Cooldown
      <4> SUFFICES ASSUME NEW j \in 1..n, Remembered(x, j), t - x[j].at < Cooldown
                   PROVE  g.saw /\ t - g.at < Cooldown
        OBVIOUS
      <4>1. Remembered(w, j) /\ x[j].at = w[j].at /\ w[j].at \in Nat
        BY <1>1, <1>2, <1>4 DEF Verdict
      <4>2. w[j].at <= g.at /\ g.saw
        BY <1>1, <1>4, <4>1 DEF Follows
      <4> QED BY <1>3, <4>1, <4>2, Bounds
    <3> QED BY <1>1, <1>4, <2>1, <2>4, <3>1, <3>2, Bounds
  <2> QED BY <1>1, <2>2, <2>3, <2>4, Bounds
<1>8. Explained(x)
  <2> SUFFICES ASSUME NEW k \in 1..(n + 1)
               PROVE  /\ x[k].passed <=>
                           \/ k <= WarmUp
                           \/ \E j \in 1..(n + 1) :
                                j <= k /\ Remembered(x, j) /\ (j = k \/ x[k].at - x[j].at < Cooldown)
                      /\ x[k].job <=> x[k].passed /\ (k - 1) % EveryN = 0
    BY <1>1 DEF Explained
  <2>1. CASE k = n + 1
    <3>1. x[k] = v /\ k - 1 = n /\ \A j \in 1..(n + 1) : j <= k
      BY <1>1, <2>1
    <3>2. v.job <=> v.passed /\ (k - 1) % EveryN = 0
      BY <3>1 DEF n
    <3> QED BY <1>7, <2>1, <3>1, <3>2
  <2>2. CASE k \in 1..n
    <3>1. /\ w[k].passed <=>
               \/ k <= WarmUp
               \/ \E j \in 1..n :
                    j <= k /\ Remembered(w, j) /\ (j = k \/ w[k].at - w[j].at < Cooldown)
          /\ w[k].job <=> w[k].passed /\ (k - 1) % EveryN = 0
      BY <1>1, <2>2 DEF Explained
    <3>2. x[k] = w[k] /\ \A j \in 1..(n + 1) : j <= k => j \in 1..n
      BY <1>1, <2>2
    <3>3. \A j \in 1..n : (Remembered(x, j) <=> Remembered(w, j)) /\ x[j] = w[j] /\ j \in 1..(n + 1)
      BY <1>1, <1>4
    <3> QED BY <3>1, <3>2, <3>3
  <2> QED BY <1>1, <2>1, <2>2
<1> QED BY <1>6, <1>8 DEF x, h

LEMMA VerdictsStep == TypeOK /\ Verdicts /\ [Next]_vars => Verdicts'
<1> SUFFICES ASSUME TypeOK, Verdicts, [Next]_vars, NEW e \in Cameras
             PROVE  /\ (config[e].gated => /\ counter[e] = Len(judged[e])
                                           /\ Follows(gate[e], judged[e], now)
                                           /\ Explained(judged[e]))'
                    /\ (~config[e].gated => judged[e] = <<>>)'
  BY DEF Verdicts
<1>0. config' = config /\ GateTypes /\ now \in Nat
  <2>1. config' = config
    BY DEF Next, Tick, vars
  <2> QED BY <2>1, TypeParts DEF WorldTypes
<1>1. /\ config[e].gated => /\ counter[e] = Len(judged[e])
                            /\ Follows(gate[e], judged[e], now)
                            /\ Explained(judged[e])
      /\ ~config[e].gated => judged[e] = <<>>
  BY DEF Verdicts
<1>2. CASE UNCHANGED <<now, gate[e], counter[e], judged[e]>>
  BY <1>0, <1>1, <1>2 DEF Follows, Explained, Remembered
<1>3. CASE Tick
  <2>1. UNCHANGED <<gate, counter, judged>> /\ now' = now + 1
    BY <1>3 DEF Tick, gateVars
  <2>2. config[e].gated => Follows(gate[e], judged[e], now + 1)
    <3>1. judged[e] \in Seq(Verdict)
      BY <1>0 DEF GateTypes
    <3> QED BY <1>0, <1>1, <3>1, FollowsLater
  <2>3. config[e].gated => Follows(gate[e], judged[e], now)'
    BY <2>1, <2>2 DEF Follows, Remembered
  <2>4. Explained(judged[e]) => Explained(judged[e])'
    BY <2>1 DEF Explained, Remembered
  <2> QED BY <1>0, <1>1, <2>1, <2>3, <2>4
<1>4. ASSUME NEW c \in Cameras, CaptureStep(c), UNCHANGED <<config, now>>
      PROVE  /\ (config[e].gated => /\ counter[e] = Len(judged[e])
                                    /\ Follows(gate[e], judged[e], now)
                                    /\ Explained(judged[e]))'
             /\ (~config[e].gated => judged[e] = <<>>)'
  <2>1. CASE UNCHANGED gateVars
    BY <1>2, <1>4, <2>1 DEF gateVars
  <2>2. CASE Judge(c) /\ c # e
    <3>1. UNCHANGED <<gate[e], counter[e], judged[e]>>
      BY <1>0, <2>2, JudgeTypes
    <3> QED BY <1>2, <1>4, <3>1
  <2>3. CASE Judge(c) /\ c = e /\ ~config[e].gated
    <3>1. judged' = judged
      BY <1>0, <2>3, JudgeTypes
    <3> QED BY <1>0, <1>1, <2>3, <3>1
  <2>4. CASE Judge(c) /\ c = e /\ config[e].gated
    <3>1. counter'[e] = counter[e] + 1 /\ judged[e] \in Seq(Verdict) /\ gate[e] \in Gate
      BY <1>0, <2>4, JudgeTypes
    <3>2. PICK moved \in BOOLEAN :
            /\ Judged(e, moved) \in Verdict
            /\ gate'[e] = AfterFrame(gate[e], moved, now)
            /\ judged'[e] = Append(judged[e], Judged(e, moved))
      BY <1>0, <2>4, JudgeTypes
    <3> DEFINE v == Judged(e, moved)
    <3>3. /\ v.at = now /\ v.moved = moved
          /\ v.passed = ShouldProcess(gate[e], v.moved, now)
          /\ v.job <=> v.passed /\ Len(judged[e]) % EveryN = 0
      BY <1>1, <2>4 DEF Judged, Turn
    <3> HIDE DEF v
    <3>4. Follows(gate'[e], judged'[e], now) /\ Explained(judged'[e])
      BY <1>0, <1>1, <2>4, <3>1, <3>2, <3>3, FrameFollows DEF v
    <3>5. Len(judged'[e]) = Len(judged[e]) + 1
      BY <3>1, <3>2, Extended
    <3>6. Follows(gate[e], judged[e], now)' /\ Explained(judged[e])'
      BY <1>4, <3>4 DEF Follows, Explained, Remembered
    <3> QED BY <1>0, <1>1, <2>4, <3>1, <3>5, <3>6
  <2> QED BY <1>4, <2>1, <2>2, <2>3, <2>4 DEF CaptureStep
<1>5. CASE UNCHANGED vars
  BY <1>2, <1>5 DEF vars, gateVars
<1> QED BY <1>3, <1>4, <1>5 DEF Next

(* Among N numbers in a row one is a multiple of N. *)
LEMMA MultipleNear ==
  ASSUME NEW m \in Nat, NEW N \in Nat \ {0}
  PROVE  \E k \in m..(m + N - 1) : k % N = 0
<1>1. /\ m = N * (m \div N) + (m % N)
      /\ m % N \in 0..(N - 1) /\ m \div N \in Nat
  BY SMT
<1>2. CASE m % N = 0
  BY <1>2
<1>3. CASE m % N # 0
  <2> DEFINE q == m \div N
             r == m % N
             p == N * (q + 1)
  <2>1. q + 1 \in Nat /\ p % N = 0
    <3>1. \A d \in Nat : (N * d) % N = 0
      BY SMT
    <3> QED BY <1>1, <3>1
  <2>2. p = N * q + N /\ N * q \in Nat
    BY <1>1
  <2>3. p = m - r + N /\ r \in 1..(N - 1)
    <3> HIDE DEF p
    <3> QED BY <1>1, <1>3, <2>2
  <2>4. p \in m..(m + N - 1)
    <3> HIDE DEF p, r
    <3> QED BY <2>3
  <2> QED BY <2>1, <2>4
<1> QED BY <1>2, <1>3

(* Of EveryN judged frames that follow a remembered movement within the    *)
(* cooldown, the first among them, one becomes a job.                      *)
LEMMA MovementIsSubmitted ==
  ASSUME NEW g, NEW w \in Seq(Verdict), NEW t, Follows(g, w, t), Explained(w),
         NEW j \in DOMAIN w, Remembered(w, j), j + EveryN - 1 <= Len(w),
         w[j + EveryN - 1].at - w[j].at < Cooldown
  PROVE  \E k \in j..(j + EveryN - 1) : w[k].job
<1>1. DOMAIN w = 1..Len(w) /\ Len(w) \in Nat /\ j \in Nat /\ j >= 1
  BY LenProperties
<1>2. PICK m \in (j - 1)..(j - 1 + EveryN - 1) : m % EveryN = 0
  <2>1. j - 1 \in Nat /\ EveryN \in Nat \ {0}
    BY <1>1, CaptureAssumption
  <2> QED BY <2>1, MultipleNear
<1>3. /\ m + 1 \in j..(j + EveryN - 1) /\ m + 1 \in DOMAIN w /\ j <= m + 1
      /\ j + EveryN - 1 \in DOMAIN w /\ (m + 1) - 1 = m
  BY <1>1, <1>2, Bounds
<1>4. w[m + 1].at \in Nat /\ w[j].at \in Nat /\ w[j + EveryN - 1].at \in Nat
  <2>1. w[m + 1] \in Verdict /\ w[j] \in Verdict /\ w[j + EveryN - 1] \in Verdict
    BY <1>1, <1>3, ElementOfSeq
  <2> QED BY <2>1 DEF Verdict
<1>5. w[m + 1].at <= w[j + EveryN - 1].at
  <2>1. CASE m + 1 = j + EveryN - 1
    BY <1>4, <2>1
  <2>2. CASE m + 1 < j + EveryN - 1
    BY <1>3, <2>2 DEF Follows
  <2> QED BY <1>1, <1>3, <2>1, <2>2, Bounds
<1>6. w[m + 1].at - w[j].at < Cooldown
  <2>1. \A a, b, x \in Nat : a <= b /\ b - x < Cooldown => a - x < Cooldown
    BY Bounds
  <2> QED BY <1>4, <1>5, <2>1
<1>7. w[m + 1].passed
  BY <1>3, <1>6 DEF Explained
<1>8. w[m + 1].job
  BY <1>2, <1>3, <1>7 DEF Explained
<1> QED BY <1>3, <1>8

(* Frames pass while the background settles, and then exactly for the      *)
(* cooldown behind each movement.                                          *)
THEOREM GateIsMotion == Spec => []GateFollowsMotion
<1>1. TypeOK /\ Verdicts => GateFollowsMotion
  <2> SUFFICES ASSUME TypeOK, Verdicts, NEW c \in Cameras, config[c].gated, NEW k \in DOMAIN judged[c]
               PROVE  judged[c][k].passed <=>
                        \/ k <= WarmUp
                        \/ \E j \in (WarmUp + 1)..k :
                             /\ judged[c][j].moved
                             /\ j = k \/ judged[c][k].at - judged[c][j].at < Cooldown
    BY DEF GateFollowsMotion
  <2>1. judged[c] \in Seq(Verdict) /\ Explained(judged[c])
    BY TypeParts DEF GateTypes, Verdicts
  <2>2. DOMAIN judged[c] = 1..Len(judged[c]) /\ Len(judged[c]) \in Nat
    BY <2>1, LenProperties
  <2>3. \A j : j \in (WarmUp + 1)..k <=> j \in DOMAIN judged[c] /\ j <= k /\ j > WarmUp
    BY <2>2, Bounds
  <2> QED BY <2>1, <2>3 DEF Explained, Remembered
<1> QED BY <1>1, Initially, TypeStep, VerdictsInit, VerdictsStep, PTL DEF Spec

(* A movement in front of a camera becomes a job before the cooldown       *)
(* behind it is over, if EveryN frames are judged in that time.            *)
THEOREM MotionIsSubmitted == Spec => []MotionReachesAlpr
<1>1. TypeOK /\ Verdicts => MotionReachesAlpr
  <2> SUFFICES ASSUME TypeOK, Verdicts, NEW c \in Cameras, NEW j \in DOMAIN judged[c],
                      judged[c][j].moved, j > WarmUp, j + EveryN - 1 <= Len(judged[c]),
                      judged[c][j + EveryN - 1].at - judged[c][j].at < Cooldown
               PROVE  \E k \in j..(j + EveryN - 1) : judged[c][k].job
    BY DEF MotionReachesAlpr
  <2>1. judged[c] \in Seq(Verdict)
    BY TypeParts DEF GateTypes
  <2>2. config[c].gated
    <3>1. judged[c] # <<>>
      BY <2>1, LenProperties, EmptySeq
    <3> QED BY <3>1 DEF Verdicts
  <2>3. Follows(gate[c], judged[c], now) /\ Explained(judged[c])
    BY <2>2 DEF Verdicts
  <2>4. Remembered(judged[c], j)
    BY DEF Remembered
  <2> QED BY <2>1, <2>3, <2>4, MovementIsSubmitted
<1> QED BY <1>1, Initially, TypeStep, VerdictsInit, VerdictsStep, PTL DEF Spec

-----------------------------------------------------------------------------
(* The numbers of a camera's frames.                                       *)

(* The next number is the number of frames delivered. *)
Numbered ==
    \A c \in Cameras :
      /\ nextSequence[c] = Len(delivered[c])
      /\ \A k \in DOMAIN delivered[c] : delivered[c][k].seq = k - 1

LEMMA NumberedInit == Init => Numbered
<1> SUFFICES ASSUME Init, NEW c \in Cameras
             PROVE  nextSequence[c] = Len(delivered[c]) /\ DOMAIN delivered[c] = {}
  BY DEF Numbered
<1>1. nextSequence[c] = 0 /\ delivered[c] = <<>>
  BY DEF Init
<1> QED BY <1>1

LEMMA NumberedStep == TypeOK /\ Schedule /\ Numbered /\ [Next]_vars => Numbered'
<1> SUFFICES ASSUME TypeOK, Schedule, Numbered, [Next]_vars, NEW e \in Cameras
             PROVE  /\ nextSequence'[e] = Len(delivered'[e])
                    /\ \A k \in DOMAIN delivered'[e] : delivered'[e][k].seq = k - 1
  BY DEF Numbered
<1>0. FrameTypes /\ now \in Nat
  BY TypeParts DEF WorldTypes
<1>1. CASE UNCHANGED <<nextSequence[e], delivered[e]>>
  BY <1>1 DEF Numbered
<1>2. CASE Tick \/ UNCHANGED vars
  BY <1>1, <1>2 DEF Tick, vars, frameVars
<1>3. ASSUME NEW c \in Cameras, Produce(c), nextFrameDue' \in [Cameras -> Nat]
      PROVE  /\ nextSequence'[e] = Len(delivered'[e])
             /\ \A k \in DOMAIN delivered'[e] : delivered'[e][k].seq = k - 1
  <2>1. CASE c # e
    <3>1. UNCHANGED <<nextSequence[e], delivered[e]>>
      BY <1>0, <1>3, <2>1, ProduceTypes
    <3> QED BY <1>1, <3>1
  <2>2. CASE c = e
    <3> DEFINE d == delivered[e]
               x == [at |-> now, seq |-> nextSequence[e]]
    <3>1. d \in Seq(Delivery) /\ nextSequence'[e] = nextSequence[e] + 1 /\ delivered'[e] = Append(d, x)
      BY <1>0, <1>3, <2>2, ProduceTypes
    <3>2. x \in Delivery /\ x.seq = nextSequence[e]
      BY <1>0 DEF Delivery, FrameTypes
    <3>3. nextSequence[e] = Len(d) /\ \A k \in DOMAIN d : d[k].seq = k - 1
      BY DEF Numbered
    <3> HIDE DEF d, x
    <3>4. /\ Len(delivered'[e]) = Len(d) + 1 /\ DOMAIN delivered'[e] = 1..(Len(d) + 1)
          /\ DOMAIN d = 1..Len(d) /\ Len(d) \in Nat
          /\ \A k \in 1..Len(d) : delivered'[e][k] = d[k]
          /\ delivered'[e][Len(d) + 1] = x
      BY <3>1, <3>2, Extended
    <3> QED BY <3>1, <3>2, <3>3, <3>4
  <2> QED BY <2>1, <2>2
<1>4. ASSUME NEW c \in Cameras, CaptureStep(c), UNCHANGED <<config, now>>
      PROVE  /\ nextSequence'[e] = Len(delivered'[e])
             /\ \A k \in DOMAIN delivered'[e] : delivered'[e][k].seq = k - 1
  <2>1. CASE UNCHANGED <<nextSequence, delivered>>
    BY <1>1, <2>1
  <2>2. CASE Produce(c)
    <3>1. nextFrameDue' \in [Cameras -> Nat]
      BY <1>4, TypeStep, TypeParts DEF Next, FrameTypes
    <3> QED BY <1>3, <2>2, <3>1
  <2>3. CASE OpenFile(c)
    <3>1. delivered' = delivered /\ delivered[c] = <<>>
      BY <2>3 DEF OpenFile, Goto, Schedule
    <3>2. nextSequence' = nextSequence \/ nextSequence' = [nextSequence EXCEPT ![c] = 0]
      BY <2>3 DEF OpenFile, Put
    <3>3. nextSequence[c] = 0 /\ nextSequence'[e] = nextSequence[e]
      BY <1>0, <3>1, <3>2 DEF Numbered, FrameTypes
    <3> QED BY <1>1, <3>1, <3>3
  <2>4. OpenFile(c) \/ Produce(c) \/ UNCHANGED <<nextSequence, delivered>>
    BY <1>4 DEF CaptureStep, OpenCamera, NoUrl, ApplyOptions, Connect, Numbering, Pace, Deliver,
                ReadStream, frameVars
  <2> QED BY <2>1, <2>2, <2>3, <2>4
<1> QED BY <1>2, <1>4 DEF Next

(* A camera's frames are numbered without gap or repetition, over any      *)
(* number of reconnects.                                                   *)
THEOREM FramesAreNumbered == Spec => []FramesNumbered
<1>1. Numbered => FramesNumbered
  BY DEF Numbered, FramesNumbered
<1> QED
  BY <1>1, Initially, TypeStep, ScheduleInit, ScheduleStep, NumberedInit, NumberedStep, PTL DEF Spec
=============================================================================
