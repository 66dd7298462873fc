-------------------------- MODULE CommandLineProofs --------------------------
(***************************************************************************)
(* Theorems about CommandLine and the modules it composes, for every       *)
(* configuration file, command line, network and image.                    *)
(***************************************************************************)
EXTENDS CommandLine, CommonLemmas

(* A camera as loadFromFile leaves it, and after --source. *)
ListedCamera == [id : Nat, enabled : BOOLEAN, source : {"simulation", "camera"}]
UsedCamera == [id : Nat, enabled : BOOLEAN, source : {"simulation", "camera", Value("source")}]

-----------------------------------------------------------------------------
(* The configuration.                                                      *)

(* What loadFromFile accepts. *)
LEMMA Accepted ==
  ASSUME NEW f \in RawFiles, LoadFromFile(f).accepted
  PROVE  /\ LoadFromFile(f) = [accepted |-> TRUE, cameras |-> CameraList(f),
                               processing |-> f.processing]
         /\ CameraList(f) \in Seq(ListedCamera)
         /\ Len(CameraList(f)) <= MaxCameras
         /\ Distinct(CameraList(f))
         /\ \A k \in DOMAIN CameraList(f) : KnownSource(CameraList(f)[k].source)
         /\ f.processing.everyN # 0
<1>1. /\ KnownSource(f.capture)
      /\ \A k \in DOMAIN f.cameras : KnownSource(f.cameras[k].source)
      /\ Len(CameraList(f)) <= MaxCameras
      /\ Distinct(CameraList(f))
      /\ GoodProcessing(f.processing)
      /\ LoadFromFile(f) = [accepted |-> TRUE, cameras |-> CameraList(f),
                            processing |-> f.processing]
  BY DEF LoadFromFile, Refused
<1>2. f.cameras \in Seq([id : Nat, enabled : BOOLEAN, source : STRING])
  BY CommandAssumption
<1>3. f.processing.everyN # 0
  BY <1>1 DEF GoodProcessing, GoodStride
<1>4. CASE f.listed
  <2> DEFINE n == Len(f.cameras)
             named(k) == IF f.cameras[k].id = 0 THEN [f.cameras[k] EXCEPT !.id = k]
                                                ELSE f.cameras[k]
  <2>0. /\ n \in Nat /\ DOMAIN f.cameras = 1..n
        /\ \A k \in 1..n : f.cameras[k] \in [id : Nat, enabled : BOOLEAN, source : STRING]
    BY <1>2, LenProperties, ElementOfSeq
  <2>1. n \in Nat /\ DOMAIN f.cameras = 1..n /\ \A k \in 1..n : f.cameras[k] \in ListedCamera
    BY <1>1, <2>0 DEF ListedCamera, KnownSource
  <2>2. CameraList(f) = [k \in 1..n |-> named(k)]
    BY <1>4, <2>1 DEF CameraList, Named
  <2>3. \A k \in 1..n : named(k) \in ListedCamera /\ named(k).source = f.cameras[k].source
    BY <2>1 DEF ListedCamera
  <2> HIDE DEF named, n
  <2>4. CameraList(f) \in Seq(ListedCamera)
    BY <2>1, <2>2, <2>3, IsASeq
  <2>5. \A k \in DOMAIN CameraList(f) : KnownSource(CameraList(f)[k].source)
    BY <1>1, <2>1, <2>2, <2>3
  <2> QED BY <1>1, <1>3, <2>4, <2>5
<1>5. CASE ~f.listed
  <2> DEFINE only == [id |-> 1, enabled |-> TRUE, source |-> f.capture]
  <2>1. CameraList(f) = <<only>>
    BY <1>5 DEF CameraList, Legacy
  <2>2. only \in ListedCamera /\ only.source = f.capture
    <3>1. f.capture \in {"simulation", "camera"}
      BY <1>1 DEF KnownSource
    <3>2. 1 \in Nat /\ TRUE \in BOOLEAN
      OBVIOUS
    <3> QED BY <3>1, <3>2 DEF ListedCamera
  <2> HIDE DEF only
  <2>3. CameraList(f) \in Seq(ListedCamera)
    <3>1. <<only>> \in Seq(ListedCamera)
      BY <2>2
    <3> QED BY <2>1, <3>1
  <2>4. \A k \in DOMAIN CameraList(f) : KnownSource(CameraList(f)[k].source)
    BY <1>1, <2>1, <2>2
  <2> QED BY <1>1, <1>3, <2>3, <2>4
<1> QED BY <1>4, <1>5

(* --source changes the first camera's source and nothing else. *)
LEMMA OverrideKeeps ==
  ASSUME NEW cameras \in Seq(ListedCamera)
  PROVE  /\ Overridden(cameras) \in Seq(UsedCamera)
         /\ Len(Overridden(cameras)) = Len(cameras)
         /\ DOMAIN Overridden(cameras) = DOMAIN cameras
         /\ \A k \in DOMAIN cameras :
              /\ Overridden(cameras)[k].id = cameras[k].id
              /\ \/ Overridden(cameras)[k].source = cameras[k].source
                 \/ k = 1 /\ Given("source")
<1> DEFINE n == Len(cameras)
           v == Value("source")
           camera(k) == IF Given("source") /\ v # "" /\ k = 1
                        THEN [cameras[k] EXCEPT !.source = v] ELSE cameras[k]
<1>1. n \in Nat /\ DOMAIN cameras = 1..n /\ \A k \in 1..n : cameras[k] \in ListedCamera
  BY LenProperties, ElementOfSeq
<1>2. cameras = [k \in 1..n |-> cameras[k]]
  BY <1>1, LenProperties
<1>3. Overridden(cameras) = [k \in 1..n |-> camera(k)]
  <2>1. CASE Given("source") /\ v # ""
    <3>1. \A k \in 1..n : k \in FirstCamera(cameras) <=> k = 1
      BY <1>1 DEF FirstCamera
    <3> QED BY <1>1, <2>1, <3>1 DEF Overridden
  <2>2. CASE ~(Given("source") /\ v # "")
    BY <1>2, <2>2 DEF Overridden
  <2> QED BY <2>1, <2>2
<1>4. \A k \in 1..n : /\ camera(k) \in UsedCamera
                      /\ camera(k).id = cameras[k].id
                      /\ camera(k).source = cameras[k].source \/ (k = 1 /\ Given("source"))
  BY <1>1 DEF UsedCamera, ListedCamera
<1> HIDE DEF camera, n
<1>5. Overridden(cameras) \in Seq(UsedCamera)
  BY <1>1, <1>3, <1>4, IsASeq
<1>6. Len(Overridden(cameras)) = n
  BY <1>1, <1>3, <1>5, LenProperties
<1> QED BY <1>1, <1>3, <1>4, <1>5, <1>6 DEF n

(* What a loaded configuration guarantees until the pipeline is started. *)
Loaded ==
    main \in {"image", "pipeline", "running"} =>
      /\ config.processing.everyN # 0
      /\ config.cameras \in Seq(UsedCamera)
      /\ Len(config.cameras) <= MaxCameras
      /\ Distinct(config.cameras)
      /\ \A k \in DOMAIN config.cameras :
           KnownSource(config.cameras[k].source) \/ (k = 1 /\ Given("source"))

Configured ==
    /\ file \in RawFiles
    /\ Loaded
    /\ main = "running" => Enabled # <<>>

LEMMA LoadConfigures == Configured /\ Load /\ UNCHANGED <<arguments, file>> => Configured'
<1> SUFFICES ASSUME Configured, Load, UNCHANGED <<arguments, file>> PROVE Configured'
  OBVIOUS
<1> DEFINE loaded == LoadFromFile(file)
<1>1. CASE ~loaded.accepted
  BY <1>1 DEF Load, Exit, Configured, Loaded
<1>2. CASE loaded.accepted
  <2>1. /\ config' = [loaded EXCEPT !.cameras = Overridden(@)]
        /\ main' \in {"image", "pipeline"}
    BY <1>2 DEF Load
  <2>2. /\ loaded = [accepted |-> TRUE, cameras |-> CameraList(file), processing |-> file.processing]
        /\ CameraList(file) \in Seq(ListedCamera)
        /\ Len(CameraList(file)) <= MaxCameras
        /\ Distinct(CameraList(file))
        /\ \A k \in DOMAIN CameraList(file) : KnownSource(CameraList(file)[k].source)
        /\ file.processing.everyN # 0
    BY <1>2, Accepted DEF Configured
  <2> DEFINE cameras == CameraList(file)
  <2>3. config'.cameras = Overridden(cameras) /\ config'.processing = file.processing
    BY <2>1, <2>2
  <2>4. Given("source")' = Given("source") /\ UsedCamera' = UsedCamera
    BY DEF Given, Value, UsedCamera
  <2> HIDE DEF cameras, loaded
  <2>5. /\ Overridden(cameras) \in Seq(UsedCamera)
        /\ Len(Overridden(cameras)) = Len(cameras)
        /\ DOMAIN Overridden(cameras) = DOMAIN cameras
        /\ \A k \in DOMAIN cameras :
              /\ Overridden(cameras)[k].id = cameras[k].id
              /\ \/ Overridden(cameras)[k].source = cameras[k].source
                 \/ k = 1 /\ Given("source")
    BY <2>2, OverrideKeeps DEF cameras
  <2>6. Distinct(Overridden(cameras))
    BY <2>2, <2>5 DEF Distinct, IsInjective, cameras
  <2>7. \A k \in DOMAIN Overridden(cameras) :
          KnownSource(Overridden(cameras)[k].source) \/ (k = 1 /\ Given("source"))
    BY <2>2, <2>5 DEF cameras
  <2>8. Loaded'
    BY <2>2, <2>3, <2>4, <2>5, <2>6, <2>7 DEF Loaded, cameras
  <2> QED BY <2>1, <2>8 DEF Configured
<1> QED BY <1>1, <1>2

LEMMA ConfiguredInit == CommandInit => Configured
BY DEF CommandInit, Configured, Loaded

LEMMA ConfiguredStep == Configured /\ [CommandNext]_<<vars, mainVars>> => Configured'
<1> SUFFICES ASSUME Configured, [CommandNext]_<<vars, mainVars>> PROVE Configured'
  OBVIOUS
<1>1. CASE UNCHANGED mainVars
  BY <1>1 DEF mainVars, Configured, Loaded, Enabled, Given, Value, UsedCamera
<1>2. CASE Load /\ UNCHANGED <<arguments, file>>
  BY <1>2, LoadConfigures
<1>3. CASE (Parse \/ Discovered \/ ImageTest) /\ UNCHANGED <<arguments, file>>
  <2>1. main' \in {"exit", "discover", "load"}
    BY <1>3 DEF Parse, Discovered, ImageTest, Exit
  <2> QED BY <1>3, <2>1 DEF Configured, Loaded
<1>4. CASE Pipeline /\ UNCHANGED <<arguments, file>>
  <2>1. /\ main = "pipeline" /\ config' = config
        /\ main' = "exit" \/ (main' = "running" /\ Enabled # <<>>)
    BY <1>4 DEF Pipeline, Exit
  <2> QED BY <1>4, <2>1 DEF Configured, Loaded, Enabled, Given, Value, UsedCamera
<1> QED BY <1>1, <1>2, <1>3, <1>4 DEF CommandNext

(* Leaving out the disabled cameras keeps the identifiers apart. *)
LEMMA EnabledDistinct ==
  ASSUME config.cameras \in Seq(UsedCamera), Distinct(config.cameras)
  PROVE  /\ Distinct(Enabled)
         /\ Enabled # <<>> => Len(config.cameras) # 0
<1> DEFINE cameras == config.cameras
           kept == {k \in DOMAIN cameras : cameras[k].enabled}
<1>1. DOMAIN cameras = 1..Len(cameras) /\ Len(cameras) \in Nat
  BY LenProperties
<1>2. kept \in SUBSET (1..Len(cameras)) /\ cameras \in Seq(UsedCamera)
  BY <1>1
<1>3. Enabled = Select(cameras, kept)
  BY DEF Enabled
<1>4. \A k, l \in DOMAIN cameras : cameras[k].id = cameras[l].id => k = l
  BY DEF Distinct, IsInjective
<1> HIDE DEF cameras, kept
<1>5. /\ Select(cameras, kept) \in Seq(UsedCamera) /\ Len(Select(cameras, kept)) \in Nat
      /\ \E from : PlacesOf(from, Select(cameras, kept), cameras, kept)
  BY <1>2, SelectPlaces
<1> DEFINE m == Len(Select(cameras, kept))
<1>6. PICK from \in [1..m -> kept] :
        /\ \A i \in 1..m : Enabled[i] = cameras[from[i]]
        /\ \A i, j \in 1..m : i < j => from[i] < from[j]
  BY <1>3, <1>5 DEF PlacesOf
<1>7. DOMAIN Enabled = 1..m /\ m \in Nat
  BY <1>3, <1>5, LenProperties
<1> HIDE DEF m
<1>8. ASSUME NEW i \in 1..m, NEW j \in 1..m, Enabled[i].id = Enabled[j].id PROVE i = j
  <2>1. from[i] \in DOMAIN cameras /\ from[j] \in DOMAIN cameras
    BY <1>1, <1>2
  <2>2. from[i] = from[j]
    BY <1>4, <1>6, <1>8, <2>1
  <2>3. from[i] \in Nat /\ from[j] \in Nat
    BY <1>1, <2>1
  <2>4. ~(i < j) /\ ~(j < i)
    BY <1>6, <2>2, <2>3
  <2> QED BY <1>7, <2>4
<1>9. Distinct(Enabled)
  BY <1>7, <1>8 DEF Distinct, IsInjective
<1>10. Enabled # <<>> => Len(cameras) # 0
  <2> SUFFICES ASSUME Len(cameras) = 0, m # 0 PROVE FALSE
    BY <1>3, <1>5, EmptySeq DEF m
  <2>1. from[1] \in kept
    BY <1>7
  <2>2. from[1] \in 1..Len(cameras)
    BY <1>2, <2>1
  <2> QED BY <1>1, <2>2
<1> QED BY <1>9, <1>10 DEF cameras

(* Whatever the file and the command line say: a pipeline that is started  *)
(* has a stride to divide by, between one and MaxCameras cameras with      *)
(* identifiers of their own, and sources that exist - but for the one that *)
(* --source puts in after the validation.                                  *)
THEOREM StartsSound == Spec => []PipelineStartsSound
<1>1. Configured => PipelineStartsSound
  <2> SUFFICES ASSUME Configured, main = "running" PROVE PipelineStartsSound
    BY DEF PipelineStartsSound
  <2>1. /\ config.cameras \in Seq(UsedCamera) /\ Distinct(config.cameras) /\ Enabled # <<>>
        /\ Len(config.cameras) <= MaxCameras
    BY DEF Configured, Loaded
  <2>2. Distinct(Enabled) /\ Len(config.cameras) # 0
    BY <2>1, EnabledDistinct
  <2>3. Len(config.cameras) \in 1..MaxCameras
    BY <2>1, <2>2, LenProperties, ConfigurationAssumption
  <2> QED BY <2>2, <2>3 DEF Configured, Loaded, PipelineStartsSound
<1> QED BY ConfiguredInit, ConfiguredStep, <1>1, PTL DEF Spec

-----------------------------------------------------------------------------
(* Discovery.                                                              *)

(* The library's enumeration of a finite set has each element once. *)
LEMMA SetAsSequence ==
  ASSUME NEW S, IsFiniteSet(S)
  PROVE  /\ SetToSeq(S) \in Seq(S)
         /\ Len(SetToSeq(S)) = Cardinality(S) /\ Cardinality(S) \in Nat
         /\ Unrepeated(SetToSeq(S))
         /\ Elements(SetToSeq(S)) = S
<1> DEFINE n == Cardinality(S)
           q == SetToSeq(S)
<1>1. n \in Nat /\ ExistsBijection(1..n, S)
  BY FS_CardinalityType
<1>2. PICK f : f \in Bijection(1..n, S)
  BY <1>1 DEF ExistsBijection
<1>3. f \in [1..n -> S] /\ IsInjective(f)
  BY <1>2 DEF Bijection, Injection, IsInjective
<1>4. q \in [1..n -> S] /\ IsInjective(q)
  BY <1>3 DEF SetToSeq
<1>5. IsFiniteSet(1..n) /\ Cardinality(1..n) = n
  BY <1>1, FS_Interval
<1> HIDE DEF n, q
<1>6. q \in Injection(1..n, S)
  BY <1>4 DEF Injection
<1>7. q \in Surjection(1..n, S)
  BY <1>5, <1>6, FS_Injection DEF n
<1>8. q \in Seq(S)
  BY <1>1, <1>4, IsASeq
<1>9. Len(q) = n
  BY <1>1, <1>4, <1>8, LenProperties
<1>10. Unrepeated(q)
  BY <1>4, <1>9 DEF IsInjective, Unrepeated
<1>11. Elements(q) = S
  BY <1>4, <1>7, <1>9 DEF Surjection, Elements
<1> QED BY <1>1, <1>8, <1>9, <1>10, <1>11 DEF n, q

(* Devices with the same key answer the same. *)
LEMMA KeyIdentifies ==
  ASSUME NEW d \in Devices, NEW e \in Devices, Key(Found(d)) = Key(Found(e))
  PROVE  Found(d) = Found(e)
<1>1. Found(d).serial = d.serial /\ Found(e).serial = e.serial
  BY DEF Found
<1>2. Found(d) = [serial |-> d.serial, address |-> Found(d).address]
      /\ Found(e) = [serial |-> e.serial, address |-> Found(e).address]
  BY DEF Found
<1>3. CASE d.serial = None /\ e.serial = None
  <2>1. <<"address", Found(d).address>> = <<"address", Found(e).address>>
    BY <1>1, <1>3 DEF Key
  <2> QED BY <1>2, <1>3, <2>1
<1>4. CASE d.serial # None /\ e.serial # None
  <2>1. <<"serial", d.serial>> = <<"serial", e.serial>>
    BY <1>1, <1>4 DEF Key
  <2>2. d.serial = e.serial
    BY <2>1
  <2> QED BY <1>4, <2>2, DiscoveryAssumption
<1>5. CASE d.serial = None <=> e.serial # None
  <2>1. \/ <<"serial", d.serial>> = <<"address", Found(e).address>>
        \/ <<"address", Found(d).address>> = <<"serial", e.serial>>
    BY <1>1, <1>5 DEF Key
  <2> QED BY <2>1
<1> QED BY <1>3, <1>4, <1>5

(* The answer of a device that the scan finds. *)
Scanned(d) == [serial |-> None, address |-> d.from]

UsableNets == {Interfaces[i] : i \in {k \in DOMAIN Interfaces : Usable(Interfaces[k])}}

(* The devices whose subnet has been scanned. *)
Reached == {d \in Devices : d.net \in UsableNets /\ d.net \notin Elements(bases)}

Answers == {Found(d) : d \in Devices} \cup {Scanned(d) : d \in Devices}

(* What was heard is what is listed by its key; what the scan has found is *)
(* what it has reached in time.                                            *)
Listening ==
    /\ heard \subseteq Devices
    /\ DOMAIN bySerial = {Key(Found(d)) : d \in heard}
    /\ \A d \in heard : bySerial[Key(Found(d))] = Found(d)
    /\ phase \in {"off", "listening"} => result = <<>> /\ missed = {}
    /\ phase = "off" => heard = {}

Scanning ==
    phase = "scanning" =>
      /\ heard = {}
      /\ bases \in Seq(UsableNets) /\ Unrepeated(bases)
      /\ missed \subseteq Reached
      /\ result \in Seq(Answers) /\ Unrepeated(result)
      /\ Elements(result) = {Scanned(d) : d \in Reached \ missed}

Discovers == Listening /\ Scanning /\ ListsEveryAnswerOnce

(* Each usable subnet is scanned once. *)
LEMMA BasesOnce ==
  /\ LocalSubnetBases \in Seq(UsableNets) /\ Unrepeated(LocalSubnetBases)
  /\ Elements(LocalSubnetBases) = UsableNets
<1> DEFINE s == Interfaces
           n == Len(Interfaces)
           U(i) == Usable(Interfaces[i])
           kept == {i \in DOMAIN s : U(i) /\ \A j \in DOMAIN s : s[j] = s[i] => i <= j}
           All == {Interfaces[i] : i \in DOMAIN Interfaces}
           q == Select(s, kept)
<1>1. s \in Seq(All) /\ n \in Nat /\ DOMAIN s = 1..n
  BY DiscoveryAssumption, LenProperties
<1>2. LocalSubnetBases = q
  BY DEF LocalSubnetBases
<1>3. UsableNets = {s[i] : i \in {k \in 1..n : U(k)}}
  BY <1>1 DEF UsableNets
<1>4. kept = {i \in 1..n : U(i) /\ \A j \in 1..n : s[j] = s[i] => i <= j}
  BY <1>1
<1>5. kept \in SUBSET (1..n)
  BY <1>4
<1>6. \A k \in kept : k \in 1..n /\ U(k) /\ \A j \in 1..n : s[j] = s[k] => k <= j
  BY <1>4
<1>7. ASSUME NEW k \in 1..n, U(k)
      PROVE  \E i \in kept : s[i] = s[k]
  <2> DEFINE same == {i \in 1..n : s[i] = s[k]}
  <2>1. same \subseteq Nat /\ same # {}
    OBVIOUS
  <2>2. PICK i \in same : \A j \in same : i <= j
    <3> HIDE DEF same
    <3> QED BY <2>1, LeastExists
  <2>3. i \in 1..n /\ s[i] = s[k] /\ \A j \in 1..n : s[j] = s[i] => i <= j
    BY <2>2
  <2>4. U(i)
    BY <1>7, <2>3
  <2> HIDE DEF U
  <2> QED BY <1>4, <2>3, <2>4
<1> HIDE DEF kept, U, All
<1>8. /\ q \in Seq(All) /\ Len(q) \in Nat
      /\ \E from : PlacesOf(from, q, s, kept)
  BY <1>1, <1>5, SelectPlaces
<1> HIDE DEF q
<1>9. PICK from \in [1..Len(q) -> kept] :
           /\ \A i \in 1..Len(q) : q[i] = s[from[i]]
           /\ \A i, j \in 1..Len(q) : i < j => from[i] < from[j]
           /\ \A k \in kept : \E i \in 1..Len(q) : from[i] = k
  BY <1>8 DEF PlacesOf
<1>10. \A i \in 1..Len(q) : q[i] \in UsableNets
  BY <1>3, <1>6, <1>9
<1>11. q \in Seq(UsableNets)
  <2>1. q = [i \in 1..Len(q) |-> q[i]]
    BY <1>8, LenProperties
  <2>2. [i \in 1..Len(q) |-> q[i]] \in Seq(UsableNets)
    BY <1>8, <1>10, IsASeq
  <2> QED BY <2>1, <2>2
<1>12. Unrepeated(q)
  <2> SUFFICES ASSUME NEW i \in 1..Len(q), NEW j \in 1..Len(q), q[i] = q[j] PROVE i = j
    BY DEF Unrepeated
  <2>1. from[i] \in kept /\ from[j] \in kept /\ s[from[i]] = s[from[j]]
    BY <1>9
  <2>2. from[i] <= from[j] /\ from[j] <= from[i] /\ from[i] \in Nat /\ from[j] \in Nat
    BY <1>1, <1>6, <2>1
  <2>3. ~(i < j) /\ ~(j < i)
    BY <1>9, <2>2
  <2> QED BY <1>8, <2>3
<1>13. Elements(q) = UsableNets
  <2>1. Elements(q) \subseteq UsableNets
    BY <1>10 DEF Elements
  <2>2. ASSUME NEW net \in UsableNets PROVE net \in Elements(q)
    <3>1. PICK k \in 1..n : U(k) /\ net = s[k]
      BY <1>3
    <3>2. PICK i \in kept : s[i] = s[k]
      BY <1>7, <3>1
    <3>3. PICK m \in 1..Len(q) : from[m] = i
      BY <1>9
    <3> QED BY <1>9, <3>1, <3>2, <3>3 DEF Elements
  <2> QED BY <2>1, <2>2
<1> QED BY <1>2, <1>11, <1>12, <1>13

LEMMA DiscoversInit == Init => Discovers
<1> SUFFICES ASSUME Init PROVE Discovers
  OBVIOUS
<1>1. phase = "off" /\ bySerial = <<>> /\ result = <<>> /\ heard = {} /\ missed = {}
  BY DEF Init
<1>2. DOMAIN bySerial = {}
  BY <1>1, EmptySeq
<1> QED BY <1>1, <1>2 DEF Discovers, Listening, Scanning, ListsEveryAnswerOnce

(* Nothing that was heard is overwritten by another device. *)
LEMMA HearDiscovers ==
  ASSUME Discovers, NEW d \in Devices, Hear(d)
  PROVE  Discovers'
<1> DEFINE key == Key(Found(d))
<1>1. /\ phase = "listening" /\ heard' = heard \cup {d}
      /\ bySerial' = [k \in DOMAIN bySerial \cup {key} |->
                        IF k = key THEN Found(d) ELSE bySerial[k]]
      /\ UNCHANGED <<phase, bases, result, error, missed>>
  BY DEF Hear
<1>2. heard \subseteq Devices /\ DOMAIN bySerial = {Key(Found(e)) : e \in heard}
      /\ \A e \in heard : bySerial[Key(Found(e))] = Found(e)
  BY DEF Discovers, Listening
<1>3. DOMAIN bySerial' = {Key(Found(e)) : e \in heard'}
  BY <1>1, <1>2
<1>4. ASSUME NEW e \in heard' PROVE bySerial'[Key(Found(e))] = Found(e)
  <2>1. e \in Devices /\ Key(Found(e)) \in DOMAIN bySerial'
    BY <1>1, <1>2, <1>3
  <2>2. CASE Key(Found(e)) = key
    <3>1. Found(e) = Found(d)
      BY <2>1, <2>2, KeyIdentifies
    <3> QED BY <1>1, <2>1, <2>2, <3>1
  <2>3. CASE Key(Found(e)) # key
    <3>1. e \in heard
      BY <1>1, <2>3
    <3> QED BY <1>1, <1>2, <2>1, <2>3, <3>1
  <2> QED BY <2>2, <2>3
<1>5. Listening'
  <2>1. /\ phase' \in {"off", "listening"} => result' = <<>> /\ missed' = {}
        /\ phase' # "off"
    BY <1>1 DEF Discovers, Listening
  <2> QED BY <1>1, <1>2, <1>3, <1>4, <2>1 DEF Listening
<1> QED BY <1>1, <1>5 DEF Discovers, Scanning, ListsEveryAnswerOnce

LEMMA DeadlineDiscovers ==
  ASSUME Discovers, Deadline
  PROVE  Discovers'
<1> DEFINE keys == DOMAIN bySerial
           q == SetToSeq(keys)
           n == Cardinality(keys)
<1>0. /\ phase = "listening" /\ UNCHANGED <<bySerial, error, heard, missed>>
  BY DEF Deadline, Goto
<1>1. /\ heard \subseteq Devices /\ keys = {Key(Found(d)) : d \in heard}
      /\ \A d \in heard : bySerial[Key(Found(d))] = Found(d)
      /\ result = <<>> /\ missed = {}
  BY <1>0 DEF Discovers, Listening
<1>2. CASE keys = {}
  <2>1. /\ phase' = "scanning" /\ bases' = LocalSubnetBases /\ result' = result
    BY <1>2 DEF Deadline, Goto
  <2>2. heard = {}
    BY <1>1, <1>2
  <2>3. bases' \in Seq(UsableNets) /\ Unrepeated(bases') /\ Elements(bases') = UsableNets
    BY <2>1, BasesOnce
  <2>4. Reached' = {} /\ missed' = {}
    BY <1>0, <1>1, <2>3 DEF Reached
  <2>5. result' = <<>> /\ Len(result') = 0 /\ result' \in Seq(Answers)
    BY <1>1, <2>1, EmptySeq
  <2>6. Unrepeated(result') /\ Elements(result') = {}
    BY <2>5 DEF Unrepeated, Elements
  <2>7. {Scanned(d) : d \in Reached' \ missed'} = {}
    BY <2>4
  <2>8. Scanning'
    BY <1>0, <2>2, <2>3, <2>4, <2>5, <2>6, <2>7 DEF Scanning, Unrepeated, UsableNets
  <2>9. Listening'
    BY <1>0, <1>1, <2>1 DEF Listening
  <2> QED BY <2>1, <2>8, <2>9 DEF Discovers, ListsEveryAnswerOnce
<1>3. CASE keys # {}
  <2>1. /\ phase' = "over" /\ bases' = bases
        /\ result' = [k \in 1..n |-> bySerial[q[k]]]
    BY <1>3 DEF Deadline, Goto
  <2>2. IsFiniteSet(keys)
    <3> DEFINE f == [d \in heard |-> Key(Found(d))]
    <3>1. IsFiniteSet(heard)
      BY <1>1, DiscoveryAssumption, FS_Subset
    <3>2. f \in Surjection(heard, keys)
      BY <1>1 DEF Surjection
    <3> QED BY <3>1, <3>2, FS_Surjection
  <2>3. /\ n \in Nat /\ q \in Seq(keys) /\ Len(q) = n /\ Unrepeated(q) /\ Elements(q) = keys
    BY <2>2, SetAsSequence
  <2> HIDE DEF q, n, keys
  <2>4. DOMAIN result' = 1..n /\ \A k \in 1..n : result'[k] = bySerial[q[k]] /\ q[k] \in keys
    BY <2>1, <2>3 DEF Elements
  <2>5. ASSUME NEW i \in 1..n PROVE Key(result'[i]) = q[i]
    <3>1. PICK d \in heard : q[i] = Key(Found(d))
      BY <1>1, <2>4
    <3> QED BY <1>1, <2>4, <3>1
  <2>6. \A i, j \in DOMAIN result' : Key(result'[i]) = Key(result'[j]) => i = j
    BY <2>3, <2>4, <2>5 DEF Unrepeated
  <2>7. ASSUME NEW d \in heard PROVE \E i \in DOMAIN result' : result'[i] = Found(d)
    <3>1. Key(Found(d)) \in Elements(q)
      BY <1>1, <2>3
    <3>2. PICK i \in 1..n : q[i] = Key(Found(d))
      BY <2>3, <3>1 DEF Elements
    <3> QED BY <1>1, <2>4, <3>2
  <2>8. heard # {}
    BY <1>1, <1>3
  <2>9. ListsEveryAnswerOnce'
    BY <1>0, <2>6, <2>7, <2>8 DEF ListsEveryAnswerOnce, Key, Found
  <2>10. Listening'
    BY <1>0, <1>1, <2>1 DEF Listening, keys
  <2> QED BY <2>1, <2>9, <2>10 DEF Discovers, Scanning
<1> QED BY <1>2, <1>3

LEMMA ScanDiscovers ==
  ASSUME Discovers, ScanSubnet
  PROVE  Discovers'
<1> DEFINE h == Head(bases)
           hosts == Hosts(h)
<1>0. /\ phase = "scanning" /\ bases # <<>> /\ bases' = Tail(bases)
      /\ UNCHANGED <<phase, bySerial, error, heard>>
  BY DEF ScanSubnet
<1>1. /\ heard = {} /\ bases \in Seq(UsableNets) /\ Unrepeated(bases) /\ missed \subseteq Reached
      /\ result \in Seq(Answers) /\ Unrepeated(result)
      /\ Elements(result) = {Scanned(d) : d \in Reached \ missed}
  BY <1>0 DEF Discovers, Scanning
<1>2. PICK signed \in SUBSET hosts :
        /\ result' = result \o FromScan(signed)
        /\ missed' = missed \cup (hosts \ signed)
  <2>1. PICK sdkOpen \in ScanTcpPort(hosts, 8000) :
          \E rtspOpen \in ScanTcpPort(sdkOpen, 554) :
          \E signed \in SUBSET {d \in rtspOpen : d.isapi} :
            /\ result' = result \o FromScan(signed)
            /\ missed' = missed \cup (hosts \ signed)
    BY DEF ScanSubnet
  <2>2. PICK rtspOpen \in ScanTcpPort(sdkOpen, 554) :
          \E signed \in SUBSET {d \in rtspOpen : d.isapi} :
            /\ result' = result \o FromScan(signed)
            /\ missed' = missed \cup (hosts \ signed)
    BY <2>1
  <2>3. PICK signed \in SUBSET {d \in rtspOpen : d.isapi} :
            /\ result' = result \o FromScan(signed)
            /\ missed' = missed \cup (hosts \ signed)
    BY <2>2
  <2> HIDE DEF hosts
  <2>4. signed \in SUBSET hosts
    <3>1. sdkOpen \subseteq hosts /\ rtspOpen \subseteq sdkOpen
      BY <2>1, <2>2 DEF ScanTcpPort
    <3> QED BY <2>2, <2>3, <3>1
  <2> QED BY <2>3, <2>4
<1>20. hosts = {d \in Devices : d.net = h} /\ signed \subseteq hosts
  BY DEF Hosts
<1> HIDE DEF hosts
<1> DEFINE new == {Scanned(d) : d \in signed}
           q == SetToSeq(new)
<1>3. result' = result \o q
  BY <1>2 DEF Scanned, FromScan
<1>4. /\ bases' \in Seq(UsableNets) /\ Unrepeated(bases') /\ h \in Elements(bases)
      /\ Elements(bases') = Elements(bases) \ {h}
  BY <1>0, <1>1, UnrepeatedTail
<1>5. h \in UsableNets
  <2>1. bases[1] = h /\ 1 \in 1..Len(bases)
    BY <1>0, <1>1, HeadTailProperties, EmptySeq, LenProperties
  <2> QED BY <1>1, <2>1, ElementOfSeq
<1>6. IsFiniteSet(new)
  <2> DEFINE f == [d \in signed |-> Scanned(d)]
  <2>1. IsFiniteSet(signed)
    BY <1>20, DiscoveryAssumption, FS_Subset
  <2>2. f \in Surjection(signed, new)
    BY DEF Surjection
  <2> QED BY <2>1, <2>2, FS_Surjection
<1>7. /\ q \in Seq(new) /\ Unrepeated(q) /\ Elements(q) = new
  BY <1>6, SetAsSequence
<1>8. new \subseteq Answers
  BY <1>20 DEF Answers
<1>9. q \in Seq(Answers)
  <2> HIDE DEF new, q
  <2> QED BY <1>7, <1>8, SeqMonotonic
<1>10. /\ Reached' = Reached \cup hosts /\ Reached \cap hosts = {}
  BY <1>4, <1>5, <1>20 DEF Reached, UsableNets
<1>11. Elements(result) \cap new = {}
  <2> SUFFICES ASSUME NEW d \in Reached, NEW e \in signed, Scanned(d) = Scanned(e) PROVE FALSE
    BY <1>1
  <2>1. d.from = e.from
    BY DEF Scanned
  <2>2. d.net = e.net /\ e.net = h
    BY <2>1, <1>20, DiscoveryAssumption DEF Reached
  <2> QED BY <1>4, <2>2 DEF Reached
<1>12. Reached' \ missed' = (Reached \ missed) \cup signed
  BY <1>1, <1>2, <1>10, <1>20
<1> HIDE DEF q
<1>13. Unrepeated(result') /\ result' \in Seq(Answers) /\ Elements(result') = Elements(result) \cup new
  <2> HIDE DEF new
  <2> QED BY <1>1, <1>3, <1>7, <1>9, <1>11, UnrepeatedConcat, ElementsOfConcat, ConcatProperties
<1>14. Elements(result') = {Scanned(d) : d \in Reached' \ missed'}
  BY <1>1, <1>12, <1>13
<1>15. missed' \subseteq Reached'
  BY <1>1, <1>2, <1>10, <1>20
<1>16. Scanning'
  BY <1>0, <1>1, <1>4, <1>13, <1>14, <1>15 DEF Scanning, Unrepeated, UsableNets, Answers, Elements,
     Scanned, Found
<1>17. Listening'
  BY <1>0 DEF Discovers, Listening
<1> QED BY <1>0, <1>16, <1>17 DEF Discovers, ListsEveryAnswerOnce

LEMMA EndScanDiscovers ==
  ASSUME Discovers, EndScan
  PROVE  Discovers'
<1>0. /\ phase = "scanning" /\ phase' = "over" /\ bases = <<>>
      /\ UNCHANGED <<bySerial, bases, result, error, heard, missed>>
  BY DEF EndScan, Goto
<1>1. /\ heard = {} /\ result \in Seq(Answers) /\ Unrepeated(result)
      /\ Elements(result) = {Scanned(d) : d \in Reached \ missed}
  BY <1>0 DEF Discovers, Scanning
<1>2. Elements(bases) = {}
  BY <1>0, EmptySeq DEF Elements
<1>3. DOMAIN result = 1..Len(result) /\ Len(result) \in Nat
  BY <1>1, LenProperties
<1>4. ASSUME NEW i \in DOMAIN result
      PROVE  \E d \in Reached \ missed : result[i] = Scanned(d)
  BY <1>1, <1>3 DEF Elements
<1>5. ASSUME NEW i \in DOMAIN result, NEW j \in DOMAIN result, Key(result[i]) = Key(result[j])
      PROVE  i = j
  <2>1. PICK d \in Reached \ missed : result[i] = Scanned(d)
    BY <1>4
  <2>2. PICK e \in Reached \ missed : result[j] = Scanned(e)
    BY <1>4
  <2>3. <<"address", d.from>> = <<"address", e.from>>
    BY <1>5, <2>1, <2>2 DEF Key, Scanned
  <2>4. d.from = e.from
    BY <2>3
  <2>5. result[i] = result[j]
    BY <2>1, <2>2, <2>4 DEF Scanned
  <2> QED BY <1>1, <1>3, <2>5 DEF Unrepeated
<1>6. Reached = {e \in Devices : \E i \in DOMAIN Interfaces :
                                e.net = Interfaces[i] /\ Usable(e.net)}
  BY <1>2 DEF Reached, UsableNets
<1>7. {result[i].address : i \in DOMAIN result} = {d.from : d \in Reached \ missed}
  <2>1. ASSUME NEW i \in DOMAIN result
        PROVE  result[i].address \in {d.from : d \in Reached \ missed}
    BY <1>4 DEF Scanned
  <2>2. ASSUME NEW d \in Reached \ missed
        PROVE  \E i \in DOMAIN result : result[i].address = d.from
    <3>1. Scanned(d) \in Elements(result)
      BY <1>1
    <3>2. PICK i \in 1..Len(result) : result[i] = Scanned(d)
      BY <3>1 DEF Elements
    <3> QED BY <1>3, <3>2 DEF Scanned
  <2> QED BY <2>1, <2>2
<1>8. {result[i].address : i \in DOMAIN result} =
             {d.from : d \in {e \in Devices \ missed : \E i \in DOMAIN Interfaces :
                                e.net = Interfaces[i] /\ Usable(e.net)}}
  <2>1. Reached \ missed = {e \in Devices \ missed : \E i \in DOMAIN Interfaces :
                                e.net = Interfaces[i] /\ Usable(e.net)}
    BY <1>6
  <2> QED BY <1>7, <2>1
<1>9. ListsEveryAnswerOnce
  BY <1>1, <1>5, <1>8 DEF ListsEveryAnswerOnce
<1>10. ListsEveryAnswerOnce'
  BY <1>0, <1>1, <1>5, <1>8 DEF ListsEveryAnswerOnce, Key
<1>11. Listening'
  BY <1>0 DEF Discovers, Listening
<1> QED BY <1>0, <1>10, <1>11 DEF Discovers, Scanning

LEMMA DiscoversStep == Discovers /\ [CommandNext]_<<vars, mainVars>> => Discovers'
<1> SUFFICES ASSUME Discovers, [CommandNext]_<<vars, mainVars>> PROVE Discovers'
  OBVIOUS
<1>1. CASE UNCHANGED vars
  <2>1. UNCHANGED <<phase, bySerial, bases, result, error, heard, missed>>
    BY <1>1 DEF vars
  <2>2. Reached' = Reached
    BY <2>1 DEF Reached
  <2>3. Listening'
    BY <2>1 DEF Discovers, Listening
  <2>4. Scanning'
    BY <2>1, <2>2 DEF Discovers, Scanning
  <2>5. ListsEveryAnswerOnce'
    BY <2>1 DEF Discovers, ListsEveryAnswerOnce
  <2> QED BY <2>3, <2>4, <2>5 DEF Discovers
<1>2. CASE OpenSocket
  <2>1. /\ UNCHANGED <<bySerial, bases, result, heard, missed>> /\ phase = "off"
        /\ phase' = "listening" \/ (phase' = "over" /\ error')
    BY <1>2 DEF OpenSocket, Goto
  <2> QED BY <2>1 DEF Discovers, Listening, Scanning, ListsEveryAnswerOnce
<1>3. ASSUME NEW d \in Devices, Hear(d) PROVE Discovers'
  BY <1>3, HearDiscovers
<1> QED BY <1>1, <1>2, <1>3, DeadlineDiscovers, ScanDiscovers, EndScanDiscovers
        DEF CommandNext, Next

(* Whichever devices answer, how often and in which order, and whichever   *)
(* are too late for the scan: the list has one entry for each device that  *)
(* was heard and, after a silence, for each camera that was found on a     *)
(* usable subnet - and no camera twice.                                    *)
THEOREM EveryAnswerIsListedOnce == Spec => []ListsEveryAnswerOnce
<1>1. CommandInit => Discovers
  BY DiscoversInit DEF CommandInit
<1>2. Discovers => ListsEveryAnswerOnce
  BY DEF Discovers
<1> QED BY <1>1, <1>2, DiscoversStep, PTL DEF Spec

-----------------------------------------------------------------------------
(* The recognizer.                                                         *)

Scored(c, n) == DOMAIN c = 1..n /\ \A k \in 1..n : c[k].score \in Int

(* Sorting by score gives every place to one candidate: those no later     *)
(* than one are a part of those no later than the next.                    *)
LEMMA EveryPlaceIsTaken ==
  ASSUME NEW c, NEW n \in Nat, Scored(c, n), NEW i \in 1..n
  PROVE  \E k \in 1..n : Cardinality(NoLater(c, k)) = i
<1> DEFINE rank == [k \in 1..n |-> Cardinality(NoLater(c, k))]
           ahead(k) == {j \in 1..n : c[j].score > c[k].score \/ (c[j].score = c[k].score /\ j <= k)}
<1>0. DOMAIN c = 1..n /\ \A k \in 1..n : c[k].score \in Int
  BY DEF Scored
<1>1. ASSUME NEW k \in 1..n PROVE NoLater(c, k) = ahead(k)
  <2>1. \A j : j \in NoLater(c, k) <=> j \in ahead(k)
    BY <1>0 DEF NoLater
  <2> HIDE DEF ahead
  <2> QED BY <2>1
<1>2. IsFiniteSet(1..n) /\ Cardinality(1..n) = n
  BY FS_Interval
<1>3. ASSUME NEW k \in 1..n
      PROVE  ahead(k) \in SUBSET (1..n) /\ k \in ahead(k)
  OBVIOUS
<1>4. ASSUME NEW k \in 1..n, NEW l \in 1..n, k # l
      PROVE  \/ ahead(k) \subseteq ahead(l) /\ l \notin ahead(k)
             \/ ahead(l) \subseteq ahead(k) /\ k \notin ahead(l)
  <2>1. CASE c[k].score > c[l].score \/ (c[k].score = c[l].score /\ k < l)
    BY <1>0, <2>1
  <2>2. CASE c[l].score > c[k].score \/ (c[k].score = c[l].score /\ l < k)
    BY <1>0, <2>2
  <2> QED BY <1>0, <1>4, <2>1, <2>2
<1> HIDE DEF ahead
<1>5. ASSUME NEW k \in 1..n
      PROVE  IsFiniteSet(ahead(k)) /\ Cardinality(ahead(k)) \in 1..n
  <2>1. IsFiniteSet(ahead(k)) /\ Cardinality(ahead(k)) <= n /\ Cardinality(ahead(k)) \in Nat
    BY <1>2, <1>3, FS_Subset, FS_CardinalityType
  <2>2. Cardinality(ahead(k)) # 0
    BY <1>3, <2>1, FS_EmptySet
  <2> QED BY <2>1, <2>2
<1>6. ASSUME NEW k \in 1..n, NEW l \in 1..n, k # l
      PROVE  Cardinality(ahead(k)) # Cardinality(ahead(l))
  <2>1. CASE ahead(k) \subseteq ahead(l) /\ l \notin ahead(k)
    BY <1>3, <1>5, <2>1, FS_Subset
  <2>2. CASE ahead(l) \subseteq ahead(k) /\ k \notin ahead(l)
    BY <1>3, <1>5, <2>2, FS_Subset
  <2> QED BY <1>4, <1>6, <2>1, <2>2
<1>7. rank \in [1..n -> 1..n] /\ \A k \in 1..n : rank[k] = Cardinality(ahead(k))
  BY <1>1, <1>5
<1> HIDE DEF rank
<1>8. rank \in Injection(1..n, 1..n)
  BY <1>6, <1>7 DEF Injection, IsInjective
<1>9. rank \in Surjection(1..n, 1..n)
  BY <1>2, <1>8, FS_Injection
<1>10. PICK k \in 1..n : rank[k] = i
  BY <1>9 DEF Surjection
<1> QED BY <1>1, <1>7, <1>10

(* ... and the first place to one of the best. *)
LEMMA BestComesFirst ==
  ASSUME NEW c, NEW n \in Nat, Scored(c, n)
  PROVE  /\ DOMAIN ByScore(c) = 1..n
         /\ \A i \in 1..n : \E k \in 1..n : ByScore(c)[i] = c[k]
         /\ \A i, k \in 1..n : i = 1 => c[k].score <= ByScore(c)[i].score
<1> DEFINE at(i) == CHOOSE k \in DOMAIN c : Cardinality(NoLater(c, k)) = i
<1>0. DOMAIN c = 1..n /\ \A k \in 1..n : c[k].score \in Int
  BY DEF Scored
<1>1. \A i \in 1..n : at(i) \in 1..n /\ Cardinality(NoLater(c, at(i))) = i
  <2> SUFFICES ASSUME NEW i \in 1..n
               PROVE  at(i) \in 1..n /\ Cardinality(NoLater(c, at(i))) = i
    OBVIOUS
  <2>1. \E k \in DOMAIN c : Cardinality(NoLater(c, k)) = i
    <3>1. \E k \in 1..n : Cardinality(NoLater(c, k)) = i
      BY EveryPlaceIsTaken
    <3> QED BY <1>0, <3>1
  <2> QED BY <1>0, <2>1
<1>2. ByScore(c) = [i \in 1..n |-> c[at(i)]]
  BY <1>0 DEF ByScore
<1> HIDE DEF at
<1>3. ASSUME NEW k \in 1..n, 1 \in 1..n PROVE c[k].score <= c[at(1)].score
  <2> SUFFICES ASSUME c[k].score > c[at(1)].score PROVE FALSE
    BY <1>0, <1>1
  <2> DEFINE S == NoLater(c, at(1))
  <2>1. at(1) \in 1..n /\ Cardinality(S) = 1
    BY <1>1
  <2>2. at(1) \in S /\ k \in S /\ k # at(1) /\ S \subseteq 1..n
    BY <1>0, <1>3, <2>1 DEF NoLater
  <2> HIDE DEF S
  <2>3. IsFiniteSet(S)
    <3>1. IsFiniteSet(1..n)
      BY FS_Interval
    <3> QED BY <2>2, <3>1, FS_Subset
  <2>4. \E x : S = {x}
    BY <2>1, <2>3, FS_Singleton
  <2> QED BY <2>2, <2>4
<1> QED BY <1>0, <1>1, <1>2, <1>3

(* NMSBoxes keeps some of its candidates, and the first of them is the     *)
(* first by score: where that is not above the threshold, none is.         *)
StartsWithBest(s) == \A i \in 1..Len(s) : s[i].score \in Int /\ s[i].score <= s[1].score

Kept(s, k, kept) ==
    StartsWithBest(s) =>
      IF k = 0 \/ s[1].score <= DetThreshold THEN kept = <<>> ELSE kept # <<>> /\ kept[1] = s[1]

LEMMA KeepsTheBest ==
  ASSUME NEW S, NEW s \in Seq(S)
  PROVE  LET kept == FoldLeft(WithBox, <<>>, s) IN
         /\ kept \in Seq(S)
         /\ StartsWithBest(s) /\ kept # <<>> => s # <<>> /\ kept[1] = s[1]
<1> DEFINE n == Len(s)
           G == Seq(S)
           step == [p \in (1..n) \X G |-> WithBox(p[2], s[p[1]])]
           Result(h) == h = [t \in SUBSET (1..n) |->
                               IF t = {} THEN <<>> ELSE WithBox(h[t \ {Max(t)}], s[Max(t)])]
           P == {p \in Nat \X G : Kept(s, p[1], p[2])}
<1>1. n \in Nat /\ DOMAIN s = 1..n /\ \A k \in 1..n : s[k] \in S
  BY LenProperties, ElementOfSeq
<1>2. <<>> \in G
  OBVIOUS
<1>3. ASSUME NEW kept \in G, NEW k \in 1..n
      PROVE  /\ WithBox(kept, s[k]) \in G
             /\ Kept(s, k - 1, kept) => Kept(s, k, WithBox(kept, s[k]))
  <2>1. /\ Append(kept, s[k]) \in G /\ Append(kept, s[k]) # <<>>
        /\ kept # <<>> => Append(kept, s[k])[1] = kept[1]
        /\ kept = <<>> => Append(kept, s[k])[1] = s[k]
    BY <1>1, AppendProperties, EmptySeq, LenProperties
  <2>2. WithBox(kept, s[k]) \in {kept, Append(kept, s[k])}
    BY DEF WithBox
  <2>3. ASSUME StartsWithBest(s), Kept(s, k - 1, kept)
        PROVE  Kept(s, k, WithBox(kept, s[k]))
    <3>1. /\ s[k].score <= s[1].score /\ s[k].score \in Int /\ s[1].score \in Int
          /\ DetThreshold \in Int /\ k # 0 /\ (k - 1 = 0 => k = 1)
      BY <1>1, <2>3, CommandAssumption DEF StartsWithBest
    <3>2. CASE s[1].score <= DetThreshold
      <4>1. kept = <<>>
        BY <2>3, <3>2 DEF Kept
      <4>2. s[k].score <= DetThreshold
        BY <3>1, <3>2
      <4> QED BY <3>2, <4>1, <4>2 DEF WithBox, Kept
    <3>3. CASE ~(s[1].score <= DetThreshold) /\ k # 1
      <4>1. kept # <<>> /\ kept[1] = s[1]
        BY <2>3, <3>1, <3>3 DEF Kept
      <4> QED BY <2>1, <2>2, <3>1, <3>3, <4>1 DEF Kept
    <3>4. CASE ~(s[1].score <= DetThreshold) /\ k = 1
      <4>1. kept = <<>> /\ DOMAIN kept = {}
        BY <2>3, <3>4, EmptySeq DEF Kept
      <4>2. WithBox(kept, s[k]) = Append(kept, s[k])
        BY <3>4, <4>1 DEF WithBox
      <4> QED BY <2>1, <3>4, <4>1, <4>2 DEF Kept
    <3> QED BY <3>2, <3>3, <3>4
  <2> QED BY <2>1, <2>2, <2>3 DEF Kept
<1>4. step \in [(1..n) \X G -> G]
  BY <1>3
<1>5. PICK g : g \in LeftFoldSolutions(n, G, <<>>, step)
  <2> HIDE DEF n, G, step
  <2> QED BY <1>1, <1>2, <1>4, FoldLeftExists
<1>6. \A t \in SUBSET (1..n) :
        g[t] = IF t = {} THEN <<>> ELSE WithBox(g[t \ {Max(t)}], s[Max(t)])
  <2> SUFFICES ASSUME NEW t \in SUBSET (1..n), t # {}
               PROVE  g[t] = WithBox(g[t \ {Max(t)}], s[Max(t)])
    BY <1>5 DEF LeftFoldSolutions
  <2>1. Max(t) = Greatest(t) /\ Greatest(t) \in 1..n
    BY <1>1, GreatestIsElement DEF Max, Greatest
  <2>2. <<Greatest(t), g[t \ {Greatest(t)}]>> \in (1..n) \X G
    BY <1>5, <2>1 DEF LeftFoldSolutions
  <2>3. g[t] = step[<<Greatest(t), g[t \ {Greatest(t)}]>>]
    BY <1>5 DEF LeftFoldSolutions
  <2> QED BY <2>1, <2>2, <2>3
<1>7. Result(g)
  BY <1>5, <1>6 DEF LeftFoldSolutions
<1> DEFINE h == CHOOSE h : Result(h)
<1>8. Result(h)
  BY <1>7
<1>9. FoldLeft(WithBox, <<>>, s) = h[1..n]
  BY <1>1 DEF FoldLeft, MapThenFoldSet
<1> HIDE DEF h
<1>10. h[{}] = <<>>
  BY <1>8
<1>11. ASSUME NEW k \in 1..n PROVE h[1..k] = WithBox(h[1..(k - 1)], s[k])
  <2>1. Max(1..k) = k /\ (1..k) \ {k} = 1..(k - 1) /\ 1..k # {} /\ 1..k \in SUBSET (1..n)
    BY <1>1, GreatestOfPrefix DEF Max, Greatest
  <2> QED BY <1>8, <2>1
<1>12. <<n, h[1..n]>> \in P
  <2>1. <<0, h[{}]>> \in P
    BY <1>2, <1>10 DEF Kept
  <2>2. \A k \in 1..n : <<k - 1, h[1..(k - 1)]>> \in P => <<k, h[1..k]>> \in P
    BY <1>1, <1>3, <1>11
  <2> HIDE DEF P, n
  <2> QED BY <1>1, <2>1, <2>2, PrefixInduction
<1>13. FoldLeft(WithBox, <<>>, s) \in G /\ Kept(s, n, FoldLeft(WithBox, <<>>, s))
  BY <1>9, <1>12
<1>14. n = 0 => s = <<>>
  BY EmptySeq
<1> HIDE DEF h
<1> QED BY <1>13, <1>14, EmptySeq, LenProperties DEF Kept

(* What a mark gives as a candidate. *)
SeenAs(mark, view, origin, filter) ==
    [box |-> Shifted(mark.box \cap view, -origin),
     score |-> BestClass(mark, filter), glyphs |-> mark.glyphs]

Passing(marks, view, origin, filter) ==
    {k \in DOMAIN marks : LET seen == SeenAs(marks[k], view, origin, filter)
                          IN  seen.score >= DetThreshold /\ seen.box # {}}

(* The candidates are what the marks that pass give. *)
AreSeen(c, marks, view, origin, filter) ==
    /\ \A i \in 1..Len(c) : \E k \in Passing(marks, view, origin, filter) :
         c[i] = SeenAs(marks[k], view, origin, filter)
    /\ \A k \in Passing(marks, view, origin, filter) : \E i \in 1..Len(c) :
         c[i] = SeenAs(marks[k], view, origin, filter)

LEMMA CandidatesAreMarks ==
  ASSUME NEW M, NEW marks \in Seq(M), NEW view, NEW origin, NEW filter
  PROVE  LET c == Candidates(marks, view, origin, filter) IN
         /\ c \in Seq({SeenAs(marks[k], view, origin, filter) : k \in DOMAIN marks})
         /\ AreSeen(c, marks, view, origin, filter)
<1> DEFINE n == Len(marks)
           Row(k) == SeenAs(marks[k], view, origin, filter)
           R == {Row(k) : k \in DOMAIN marks}
           rows == [k \in 1..n |-> Row(k)]
           kept == {k \in 1..n : rows[k].score >= DetThreshold /\ rows[k].box # {}}
           c == Candidates(marks, view, origin, filter)
<1>1. n \in Nat /\ DOMAIN marks = 1..n
  BY LenProperties
<1>2. c = Select(rows, kept)
  BY <1>1 DEF Candidates, SeenAs
<1>3. kept = Passing(marks, view, origin, filter)
  BY <1>1 DEF Passing
<1>4. kept \in SUBSET (1..n) /\ \A k \in 1..n : rows[k] = Row(k) /\ Row(k) \in R
  BY <1>1
<1> HIDE DEF Row, R, kept
<1>5. rows \in Seq(R) /\ Len(rows) = n
  <2>1. rows \in Seq(R)
    BY <1>1, <1>4, IsASeq
  <2> QED BY <1>1, <2>1, LenProperties
<1> HIDE DEF rows
<1>6. /\ Select(rows, kept) \in Seq(R)
      /\ Len(Select(rows, kept)) \in Nat
      /\ \E from : PlacesOf(from, Select(rows, kept), rows, kept)
  <2>1. kept \in SUBSET (1..Len(rows))
    BY <1>4, <1>5
  <2> QED BY <1>5, <2>1, SelectPlaces
<1> HIDE DEF c
<1>7. PICK from \in [1..Len(c) -> kept] :
           /\ \A i \in 1..Len(c) : c[i] = rows[from[i]]
           /\ \A k \in kept : \E i \in 1..Len(c) : from[i] = k
  BY <1>2, <1>6 DEF PlacesOf
<1>8. \A i \in 1..Len(c) : from[i] \in kept /\ c[i] = Row(from[i])
  BY <1>4, <1>7
<1>9. \A k \in kept : \E i \in 1..Len(c) : c[i] = Row(k)
  BY <1>7, <1>8
<1>10. AreSeen(c, marks, view, origin, filter)
  BY <1>3, <1>8, <1>9 DEF AreSeen, Row
<1> QED BY <1>2, <1>6, <1>10 DEF c, R, Row

(* The class the best score is of. *)
LEMMA BestClassType ==
  ASSUME NEW frame \in Frames, NEW k \in DOMAIN frame.plates
  PROVE  BestClass(frame.plates[k], {}) \in Int
<1> DEFINE mark == frame.plates[k]
           allowed == DOMAIN mark.scores
           w == [c \in allowed |-> mark.scores[c]]
           scores == {mark.scores[c] : c \in allowed}
<1>1. IsFiniteSet(allowed) /\ \A c \in allowed : mark.scores[c] \in Nat
  BY CommandAssumption
<1>2. CASE allowed = {}
  BY <1>2 DEF BestClass
<1>3. CASE allowed # {}
  <2>1. w \in [allowed -> Nat]
    BY <1>1
  <2>2. PICK c \in allowed : \A l \in allowed : w[l] <= w[c]
    <3> HIDE DEF w, allowed
    <3> QED BY <1>1, <1>3, <2>1, HeaviestExists
  <2>3. mark.scores[c] \in scores /\ \A y \in scores : mark.scores[c] >= y
    BY <1>1, <2>2
  <2>4. \A y \in scores : y \in Nat
    BY <1>1
  <2>5. BestClass(mark, {}) = Max(scores)
    BY <1>3 DEF BestClass
  <2>6. Max(scores) \in scores
    <3> HIDE DEF scores
    <3> QED BY <2>3 DEF Max
  <2> HIDE DEF scores
  <2>7. Max(scores) \in Int
    BY <2>4, <2>6
  <2> QED BY <2>5, <2>7
<1> QED BY <1>2, <1>3

(* A region within an image has a first cell, and a box of it that is      *)
(* moved there and back is where it was.                                   *)
LEMMA ThereAndBack ==
  ASSUME NEW frame \in Frames, NEW vehicle, NEW box, box \cap Roi(vehicle, frame.image) # {}
  PROVE  LET roi == Roi(vehicle, frame.image) IN
         Shifted(Shifted(box \cap roi, -Min(roi)), Min(roi)) = box \cap roi
<1> DEFINE roi == Roi(vehicle, frame.image)
<1>1. roi \subseteq frame.image /\ frame.image \subseteq Nat
  BY CommandAssumption DEF Roi
<1>2. roi # {} /\ roi \subseteq Nat
  BY <1>1
<1> HIDE DEF roi
<1>3. \E x \in roi : \A y \in roi : x <= y
  BY <1>2, LeastExists
<1>4. Min(roi) \in Nat
  BY <1>2, <1>3 DEF Min
<1> DEFINE m == Min(roi)
           inside == box \cap roi
<1>5. inside \subseteq Nat /\ m \in Nat
  BY <1>2, <1>4
<1> HIDE DEF inside, m
<1>6. \A x \in inside : x + (-m) \in Int /\ (x + (-m)) + m = x
  BY <1>5
<1>7. Shifted(inside, -m) = {x + (-m) : x \in inside}
  BY DEF Shifted
<1>8. Shifted(Shifted(inside, -m), m) = {y + m : y \in {x + (-m) : x \in inside}}
  BY <1>7 DEF Shifted
<1>9. Shifted(Shifted(inside, -m), m) = inside
  BY <1>6, <1>8
<1> QED BY <1>9 DEF inside, m, roi

(* The box is what the detector's best mark covers of the vehicle's region. *)
Strongest(box, vehicle, frame) ==
    LET roi == Roi(vehicle, frame.image) IN
    \E m \in DOMAIN frame.plates :
      /\ box = frame.plates[m].box \cap roi
      /\ \A n \in DOMAIN frame.plates :
           frame.plates[n].box \cap roi # {} =>
             BestClass(frame.plates[n], {}) <= BestClass(frame.plates[m], {})

LEMMA PlateOfIsStrongest ==
  ASSUME NEW frame \in Frames, NEW vehicle, PlateOf(vehicle, frame) # <<>>
  PROVE  Strongest(PlateOf(vehicle, frame)[1].box, vehicle, frame)
<1> DEFINE roi == Roi(vehicle, frame.image)
           marks == frame.plates
           Seen(k) == SeenAs(marks[k], roi, Min(roi), {})
           passing == Passing(marks, roi, Min(roi), {})
           M == {marks[k] : k \in DOMAIN marks}
           c == Candidates(marks, roi, Min(roi), {})
           n == Len(c)
           s == ByScore(c)
           found == FoldLeft(WithBox, <<>>, s)
           R == {Seen(k) : k \in DOMAIN marks}
<1>1. marks \in Seq(M)
  BY CommandAssumption
<1>2. c \in Seq(R) /\ AreSeen(c, marks, roi, Min(roi), {})
  <2> HIDE DEF marks, M, roi
  <2> QED BY <1>1, CandidatesAreMarks
<1>3. found # <<>> /\ PlateOf(vehicle, frame) = <<ToFrame(found[1], roi)>>
  BY DEF PlateOf, RunYolo, NMSBoxes
<1>4. PlateOf(vehicle, frame)[1].box = Shifted(found[1].box, Min(roi))
  <2> DEFINE plate == ToFrame(found[1], roi)
  <2>1. plate.box = Shifted(found[1].box, Min(roi))
    <3> HIDE DEF found, roi
    <3> QED BY DEF ToFrame
  <2> HIDE DEF plate
  <2>2. <<plate>>[1] = plate
    OBVIOUS
  <2> QED BY <1>3, <2>1, <2>2 DEF plate
<1>5. /\ \A i \in 1..n : \E k \in passing : c[i] = Seen(k)
      /\ \A k \in passing : \E i \in 1..n : c[i] = Seen(k)
  BY <1>2 DEF AreSeen
<1>6. \A k \in passing : k \in DOMAIN marks /\ Seen(k).score >= DetThreshold
  BY DEF Passing
<1>7. \A k \in DOMAIN marks : BestClass(marks[k], {}) \in Int
  BY BestClassType
<1>8. \A k \in DOMAIN marks : /\ Seen(k).score = BestClass(marks[k], {})
                              /\ Seen(k).box = Shifted(marks[k].box \cap roi, -Min(roi))
  BY DEF SeenAs
<1>9. \A k \in DOMAIN marks :
        Seen(k).score >= DetThreshold /\ Seen(k).box # {} => k \in passing
  BY DEF Passing
<1>10. \A k \in DOMAIN marks : marks[k].box \cap roi # {} => Seen(k).box # {}
  <2> SUFFICES ASSUME NEW k \in DOMAIN marks, NEW x \in marks[k].box \cap roi
               PROVE  Seen(k).box # {}
    OBVIOUS
  <2>1. x + (-Min(roi)) \in Shifted(marks[k].box \cap roi, -Min(roi))
    BY DEF Shifted
  <2> QED BY <1>8, <2>1
<1>11. \A k \in passing : Seen(k).box # {}
  BY DEF Passing
<1>12. \A k \in passing : marks[k].box \cap roi # {}
  <2> SUFFICES ASSUME NEW k \in passing, marks[k].box \cap roi = {} PROVE FALSE
    OBVIOUS
  <2>1. Shifted({}, -Min(roi)) = {}
    BY DEF Shifted
  <2> QED BY <1>6, <1>8, <1>11, <2>1
<1>13. n \in Nat /\ DOMAIN c = 1..n
  BY <1>2, LenProperties
<1> HIDE DEF Seen, passing, R, found, s, n, c
<1>14. Scored(c, n)
  <2>1. ASSUME NEW i \in 1..n PROVE c[i].score \in Int
    <3>1. PICK k \in passing : c[i] = Seen(k)
      BY <1>5
    <3> QED BY <1>6, <1>7, <1>8, <3>1
  <2> QED BY <1>13, <2>1 DEF Scored
<1>15. /\ DOMAIN s = 1..n
       /\ \A i \in 1..n : \E k \in 1..n : s[i] = c[k]
       /\ \A i, k \in 1..n : i = 1 => c[k].score <= s[i].score
  BY <1>13, <1>14, BestComesFirst DEF s
<1> DEFINE S == {c[k] : k \in 1..n}
<1>16. s \in Seq(S) /\ Len(s) = n
  <2>1. s = [i \in 1..n |-> s[i]]
    BY <1>15 DEF s, ByScore
  <2>2. \A i \in 1..n : s[i] \in S
    BY <1>15
  <2> HIDE DEF S
  <2>3. s \in Seq(S)
    BY <1>13, <2>1, <2>2, IsASeq
  <2> QED BY <1>13, <1>15, <2>3, LenProperties
<1>17. StartsWithBest(s)
  <2> SUFFICES ASSUME NEW i \in 1..n PROVE s[i].score \in Int /\ s[i].score <= s[1].score
    BY <1>16 DEF StartsWithBest
  <2>1. 1 \in 1..n
    BY <1>13
  <2> QED BY <1>14, <1>15, <2>1 DEF Scored
<1>18. s # <<>> /\ found[1] = s[1]
  BY <1>3, <1>16, <1>17, KeepsTheBest DEF found
<1>19. 1 \in 1..n
  BY <1>13, <1>16, <1>18, EmptySeq
<1>20. PICK m \in passing : found[1] = Seen(m)
  <2>1. PICK k \in 1..n : s[1] = c[k]
    BY <1>15, <1>19
  <2>2. PICK m \in passing : c[k] = Seen(m)
    BY <1>5, <2>1
  <2> QED BY <1>18, <2>1, <2>2
<1>21. PlateOf(vehicle, frame)[1].box = marks[m].box \cap roi
  <2>1. m \in DOMAIN marks /\ marks[m].box \cap roi # {}
    BY <1>6, <1>12
  <2>2. PlateOf(vehicle, frame)[1].box = Shifted(Shifted(marks[m].box \cap roi, -Min(roi)), Min(roi))
    BY <1>4, <1>8, <1>20, <2>1
  <2> DEFINE box == marks[m].box
  <2>3. box \cap Roi(vehicle, frame.image) # {}
    BY <2>1
  <2> HIDE DEF box
  <2>4. Shifted(Shifted(box \cap roi, -Min(roi)), Min(roi)) = box \cap roi
    BY <2>3, ThereAndBack
  <2> QED BY <2>2, <2>4 DEF box
<1>22. ASSUME NEW k \in DOMAIN marks, marks[k].box \cap roi # {}
       PROVE  BestClass(marks[k], {}) <= BestClass(marks[m], {})
  <2>1. CASE BestClass(marks[k], {}) >= DetThreshold
    <3>1. PICK i \in 1..n : c[i] = Seen(k)
      BY <1>5, <1>8, <1>9, <1>10, <1>22, <2>1
    <3>2. c[i].score <= found[1].score
      BY <1>15, <1>18, <1>19
    <3> QED BY <1>6, <1>8, <1>20, <3>1, <3>2
  <2>2. CASE ~(BestClass(marks[k], {}) >= DetThreshold)
    <3>1. BestClass(marks[m], {}) >= DetThreshold /\ m \in DOMAIN marks
      BY <1>6, <1>8
    <3> QED BY <1>7, <2>2, <3>1, CommandAssumption
  <2> QED BY <2>1, <2>2
<1> QED BY <1>6, <1>21, <1>22 DEF Strongest

(* The vehicles are a list. *)
LEMMA VehiclesListed ==
  ASSUME NEW frame \in Frames
  PROVE  \E V : Vehicles(frame) \in Seq(V)
<1> DEFINE marks == frame.vehicles
           M == {marks[k] : k \in DOMAIN marks}
           c == Candidates(marks, frame.image, 0, VehicleClasses)
           R == {SeenAs(marks[k], frame.image, 0, VehicleClasses) : k \in DOMAIN marks}
           s == ByScore(c)
           S == {s[k] : k \in DOMAIN s}
<1>1. marks \in Seq(M)
  BY CommandAssumption
<1>2. c \in Seq(R)
  <2> HIDE DEF marks, M
  <2> QED BY <1>1, CandidatesAreMarks
<1>3. Len(c) \in Nat /\ DOMAIN s = 1..Len(c)
  BY <1>2, LenProperties DEF ByScore
<1>4. s = [k \in 1..Len(c) |-> s[k]]
  BY <1>3 DEF ByScore
<1>5. Vehicles(frame) = FoldLeft(WithBox, <<>>, s)
  BY DEF Vehicles, RunYolo, NMSBoxes
<1> HIDE DEF s, c
<1>6. \A k \in 1..Len(c) : s[k] \in S
  BY <1>3
<1> HIDE DEF S
<1>7. s \in Seq(S)
  BY <1>3, <1>4, <1>6, IsASeq
<1>8. FoldLeft(WithBox, <<>>, s) \in Seq(S)
  BY <1>7, KeepsTheBest
<1> QED BY <1>5, <1>8

(* Each plate of the list belongs to a vehicle of its own and is the       *)
(* strongest of that vehicle's region.                                     *)
OwnerOf(owner, list, frame) ==
    /\ owner \in [DOMAIN list -> DOMAIN Vehicles(frame)]
    /\ IsInjective(owner)
    /\ \A k \in DOMAIN list : Strongest(list[k].box, Vehicles(frame)[owner[k]], frame)

LEMMA EachHasAnOwner ==
  ASSUME NEW frame \in Frames, NEW vehicleFirst, vehicleFirst
  PROVE  \E owner : OwnerOf(owner, Recognize(frame, vehicleFirst), frame)
<1> DEFINE vehicles == Vehicles(frame)
           bearing == {k \in DOMAIN vehicles : PlateOf(vehicles[k], frame) # <<>>}
           chosen == Select(vehicles, bearing)
           found == [k \in DOMAIN chosen |-> PlateOf(chosen[k], frame)[1]]
           readable == {k \in DOMAIN found : Readable(found[k].glyphs)}
           list == Select(found, readable)
           F == {found[k] : k \in DOMAIN found}
<1>1. PICK V : vehicles \in Seq(V)
  BY VehiclesListed
<1>2. DOMAIN vehicles = 1..Len(vehicles) /\ Len(vehicles) \in Nat
  BY <1>1, LenProperties
<1>3. bearing \in SUBSET (1..Len(vehicles)) /\ \A k \in bearing : PlateOf(vehicles[k], frame) # <<>>
  BY <1>2
<1>4. Recognize(frame, vehicleFirst) = list
  BY DEF Recognize, DetectPlates
<1> HIDE DEF vehicles, bearing
<1>5. /\ chosen \in Seq(V) /\ Len(chosen) \in Nat
      /\ \E from : PlacesOf(from, chosen, vehicles, bearing)
  BY <1>1, <1>3, SelectPlaces
<1> HIDE DEF chosen
<1>6. PICK from \in [1..Len(chosen) -> bearing] :
           /\ \A i \in 1..Len(chosen) : chosen[i] = vehicles[from[i]]
           /\ \A i, j \in 1..Len(chosen) : i < j => from[i] < from[j]
  BY <1>5 DEF PlacesOf
<1>7. DOMAIN chosen = 1..Len(chosen)
  BY <1>5, LenProperties
<1>8. found = [k \in 1..Len(chosen) |-> found[k]]
      /\ \A k \in 1..Len(chosen) : found[k] = PlateOf(chosen[k], frame)[1]
  BY <1>7
<1>9. DOMAIN found = 1..Len(chosen)
  BY <1>7
<1>10. readable \in SUBSET (1..Len(chosen))
  BY <1>9
<1> HIDE DEF found, readable
<1>11. \A k \in 1..Len(chosen) : found[k] \in F
  BY <1>9
<1> HIDE DEF F
<1>12. found \in Seq(F) /\ Len(found) = Len(chosen)
  <2>1. found \in Seq(F)
    BY <1>5, <1>8, <1>11, IsASeq
  <2> QED BY <1>5, <1>9, <2>1, LenProperties
<1>13. /\ list \in Seq(F) /\ Len(list) \in Nat
       /\ \E place : PlacesOf(place, list, found, readable)
  <2>1. readable \in SUBSET (1..Len(found))
    BY <1>10, <1>12
  <2> QED BY <1>12, <2>1, SelectPlaces
<1> HIDE DEF list
<1>14. PICK place \in [1..Len(list) -> readable] :
            /\ \A i \in 1..Len(list) : list[i] = found[place[i]]
            /\ \A i, j \in 1..Len(list) : i < j => place[i] < place[j]
  BY <1>13 DEF PlacesOf
<1>15. DOMAIN list = 1..Len(list)
  BY <1>13, LenProperties
<1> DEFINE owner == [k \in 1..Len(list) |-> from[place[k]]]
<1>16. \A k \in 1..Len(list) : /\ place[k] \in 1..Len(chosen)
                               /\ from[place[k]] \in bearing
                               /\ from[place[k]] \in 1..Len(vehicles)
  BY <1>3, <1>6, <1>10, <1>14
<1>17. owner \in [DOMAIN list -> DOMAIN vehicles]
  BY <1>2, <1>15, <1>16
<1>18. ASSUME NEW i \in 1..Len(list), NEW j \in 1..Len(list), i < j
       PROVE  from[place[i]] < from[place[j]]
  BY <1>6, <1>14, <1>16, <1>18
<1>19. ASSUME NEW i \in 1..Len(list), NEW j \in 1..Len(list), owner[i] = owner[j]
       PROVE  i = j
  <2>1. from[place[i]] \in Nat /\ from[place[i]] = from[place[j]]
    BY <1>16, <1>19
  <2>2. ~(i < j) /\ ~(j < i)
    BY <1>18, <2>1
  <2> QED BY <1>13, <2>2
<1>20. IsInjective(owner)
  <2>1. DOMAIN owner = 1..Len(list)
    OBVIOUS
  <2> HIDE DEF owner
  <2> QED BY <1>19, <2>1 DEF IsInjective
<1>21. ASSUME NEW k \in 1..Len(list)
       PROVE  Strongest(list[k].box, vehicles[owner[k]], frame)
  <2>1. /\ list[k] = PlateOf(vehicles[owner[k]], frame)[1]
        /\ PlateOf(vehicles[owner[k]], frame) # <<>>
    <3>1. place[k] \in 1..Len(chosen) /\ list[k] = found[place[k]] /\ owner[k] = from[place[k]]
      BY <1>14, <1>16
    <3>2. chosen[place[k]] = vehicles[owner[k]] /\ owner[k] \in bearing
      BY <1>6, <1>16, <3>1
    <3>3. found[place[k]] = PlateOf(chosen[place[k]], frame)[1]
      BY <1>8, <3>1
    <3> HIDE DEF owner
    <3> QED BY <1>3, <3>1, <3>2, <3>3
  <2> DEFINE vehicle == vehicles[owner[k]]
  <2> HIDE DEF vehicle
  <2>2. PlateOf(vehicle, frame) # <<>> => Strongest(PlateOf(vehicle, frame)[1].box, vehicle, frame)
    BY PlateOfIsStrongest
  <2> QED BY <2>1, <2>2 DEF vehicle
<1> HIDE DEF owner
<1>22. OwnerOf(owner, list, frame)
  BY <1>15, <1>17, <1>20, <1>21 DEF OwnerOf, vehicles
<1> QED BY <1>4, <1>22

(* What --image lists is what the recognizer makes of one of the images,   *)
(* and nothing is done after that.                                         *)
ImageListed ==
    plates # <<>> =>
      /\ main = "exit"
      /\ \E frame \in Frames : plates = <<frame, Recognize(frame, Profile.vehicleFirst)>>

LEMMA ImageListedInit == CommandInit => ImageListed
BY DEF CommandInit, ImageListed

LEMMA ImageListedStep == ImageListed /\ [CommandNext]_<<vars, mainVars>> => ImageListed'
<1> SUFFICES ASSUME ImageListed, [CommandNext]_<<vars, mainVars>> PROVE ImageListed'
  OBVIOUS
<1>1. CASE UNCHANGED mainVars
  BY <1>1 DEF mainVars, ImageListed, Profile
<1>2. CASE Parse \/ Discovered \/ Load \/ Pipeline
  <2>1. main # "exit" /\ plates' = plates
    BY <1>2 DEF Parse, Discovered, Load, Pipeline
  <2> QED BY <2>1 DEF ImageListed
<1>3. CASE ImageTest
  <2>1. main = "image" /\ main' = "exit" /\ config' = config
    BY <1>3 DEF ImageTest, Exit
  <2>2. Profile' = Profile
    BY <2>1 DEF Profile
  <2>3. CASE UNCHANGED plates
    BY <2>1, <2>3 DEF ImageListed
  <2>4. CASE \E frame \in Frames : plates' = <<frame, Recognize(frame, Profile.vehicleFirst)>>
    BY <2>1, <2>2, <2>4 DEF ImageListed
  <2> QED BY <1>3, <2>3, <2>4 DEF ImageTest
<1> QED BY <1>1, <1>2, <1>3 DEF CommandNext

(* Whatever the networks mark in an image: in vehicle-first mode each      *)
(* plate that --image lists belongs to a vehicle of its own, covers only   *)
(* what the detector marked in that vehicle's region, and nothing that is  *)
(* marked there is better.                                                 *)
THEOREM OnePlateEach == Spec => []OnePlatePerVehicle
<1>1. ImageListed => OnePlatePerVehicle
  <2> SUFFICES ASSUME ImageListed, plates # <<>>, Profile.vehicleFirst PROVE OnePlatePerVehicle
    BY DEF OnePlatePerVehicle
  <2>1. PICK frame \in Frames : plates = <<frame, Recognize(frame, Profile.vehicleFirst)>>
    BY DEF ImageListed
  <2> DEFINE first == Profile.vehicleFirst
             list == Recognize(frame, first)
  <2>2. PICK owner : OwnerOf(owner, list, frame)
    <3> HIDE DEF first
    <3>1. first
      BY DEF first
    <3> QED BY <3>1, EachHasAnOwner
  <2>3. plates = <<frame, list>>
    BY <2>1
  <2> HIDE DEF list
  <2>4. plates[1] = frame /\ plates[2] = list
    BY <2>3
  <2> QED BY <2>2, <2>4 DEF OnePlatePerVehicle, OwnerOf, Strongest
<1> QED BY ImageListedInit, ImageListedStep, <1>1, PTL DEF Spec
=============================================================================
