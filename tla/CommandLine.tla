---------------------------- MODULE CommandLine ----------------------------
(***************************************************************************)
(* control/main.cpp: one run of the program up to the pipeline, composed   *)
(* of the modules for what it calls: discovery (--discover), Config, and   *)
(* the recognizer (--image).                                               *)
(***************************************************************************)
EXTENDS Configuration, Discovery, Recognizer

CONSTANTS
    Commands,    \* bound: the command lines considered
    RawFiles,    \* bound: the configuration files
    Frames,      \* bound: the images
    Engines      \* the recognizers there are: {"opencv_dnn"}

(* What the JSON reader yields, and what an image and its marks are.       *)
ASSUME CommandAssumption ==
    /\ DetThreshold \in Nat
    /\ \A f \in RawFiles : f.cameras \in Seq([id : Nat, enabled : BOOLEAN, source : STRING])
    /\ \A frame \in Frames :
         /\ frame.image \subseteq Nat
         /\ frame.vehicles \in Seq({frame.vehicles[k] : k \in DOMAIN frame.vehicles})
         /\ frame.plates \in Seq({frame.plates[k] : k \in DOMAIN frame.plates})
         /\ \A k \in DOMAIN frame.plates :
              LET mark == frame.plates[k] IN
              /\ mark.box \subseteq Int
              /\ IsFiniteSet(DOMAIN mark.scores)
              /\ \A c \in DOMAIN mark.scores : mark.scores[c] \in Nat

VARIABLES
    main,        \* where main() is
    arguments,
    file,        \* the configuration file
    config,      \* AppConfig
    plates,      \* history: what runImageTest listed
    exitCode     \* -1: running

mainVars == <<main, arguments, file, config, plates, exitCode>>

CommandInit ==
    /\ Init
    /\ main = "start"
    /\ arguments \in Commands
    /\ file \in RawFiles
    /\ config = Refused
    /\ plates = <<>>
    /\ exitCode = -1

Given(key) == \E k \in DOMAIN arguments : arguments[k].key = key

(* The last of several counts. *)
Value(key) == arguments[Max({k \in DOMAIN arguments : arguments[k].key = key})].value

KnownKeys == {"help", "config", "source", "video", "image", "display", "discover", "log-level"}

Step(here, there) == main = here /\ main' = there

Exit(code) == main' = "exit" /\ exitCode' = code

(* parseArgs reads all arguments before anything is done with them. *)
Parse ==
    /\ main = "start"
    /\ \/ (\E k \in DOMAIN arguments : arguments[k].key \notin KnownKeys) /\ Exit(2)
       \/ /\ \A k \in DOMAIN arguments : arguments[k].key \in KnownKeys
          /\ \/ Given("help") /\ Exit(0)
             \/ /\ ~Given("help")
                /\ main' = IF Given("discover") THEN "discover" ELSE "load"
                /\ UNCHANGED exitCode
    /\ UNCHANGED <<config, plates>>

(* runDiscovery lists what was found. *)
Discovered ==
    /\ main = "discover" /\ phase = "over"
    /\ Exit(IF error THEN 1 ELSE 0)
    /\ UNCHANGED <<config, plates>>

(* config.cameras[0] *)
FirstCamera(cameras) == DOMAIN cameras \cap {1}

(* "CLI overrides take precedence over the config file": --source replaces *)
(* the first camera's source after the file was validated.                 *)
Overridden(cameras) ==
    IF Given("source") /\ Value("source") # ""
    THEN [k \in DOMAIN cameras |-> IF k \in FirstCamera(cameras)
            THEN [cameras[k] EXCEPT !.source = Value("source")] ELSE cameras[k]]
    ELSE cameras

Load ==
    /\ main = "load"
    /\ LET loaded == LoadFromFile(file) IN
       \/ ~loaded.accepted /\ Exit(1) /\ UNCHANGED config
       \/ /\ loaded.accepted
          /\ config' = [loaded EXCEPT !.cameras = Overridden(@)]
          /\ main' = IF Given("image") /\ Value("image") # "" THEN "image" ELSE "pipeline"
          /\ UNCHANGED exitCode
    /\ UNCHANGED plates

Profile == config.processing.profiles[config.processing.active]

(* createPlateRecognizer and initialize: the models the profile uses are   *)
(* there, can be loaded, and there is a character set.                     *)
Recognizes ==
    /\ config.processing.active \in DOMAIN config.processing.profiles
    /\ Profile.engine \in Engines
    /\ {"detection", "ocr", "charset"} \cup (IF Profile.vehicleFirst THEN {"vehicle"} ELSE {})
         \subseteq Profile.installed

(* runImageTest *)
ImageTest ==
    /\ main = "image"
    /\ \/ Exit(1) /\ UNCHANGED plates
       \/ /\ Recognizes
          /\ \E frame \in Frames : plates' = <<frame, Recognize(frame, Profile.vehicleFirst)>>
          /\ Exit(0)
    /\ UNCHANGED config

Enabled == Select(config.cameras, {k \in DOMAIN config.cameras : config.cameras[k].enabled})

(* runMultiCameraPipeline: "only enabled cameras take part", and there     *)
(* must be one.                                                            *)
Pipeline ==
    /\ main = "pipeline"
    /\ \/ Enabled = <<>> /\ Exit(1)
       \/ Enabled # <<>> /\ main' = "running" /\ UNCHANGED exitCode
    /\ UNCHANGED <<config, plates>>

CommandNext ==
    \/ /\ Parse \/ Discovered \/ Load \/ ImageTest \/ Pipeline
       /\ UNCHANGED <<vars, arguments, file>>
    \/ main = "discover" /\ Next /\ UNCHANGED mainVars

Spec == CommandInit /\ [][CommandNext]_<<vars, mainVars>>

-----------------------------------------------------------------------------
(* Properties.                                                             *)

(* What the pipeline, and AlprPipeline's PipelineAssumption, take for      *)
(* granted of the configuration holds when it is started: a stride one can *)
(* divide by, at most MaxCameras cameras with identifiers of their own,    *)
(* and sources that exist, but for a first one given by --source.          *)
PipelineStartsSound ==
    main = "running" =>
      /\ config.processing.everyN # 0
      /\ Len(config.cameras) \in 1..MaxCameras
      /\ Distinct(Enabled)
      /\ \A k \in DOMAIN config.cameras :
           KnownSource(config.cameras[k].source) \/ (k = 1 /\ Given("source"))

(* "At most one plate is reported per vehicle", and where it was seen: in  *)
(* vehicle-first mode each plate that is listed belongs to a vehicle of    *)
(* its own, covers only what the detector marked, and is the strongest in  *)
(* that vehicle's region.                                                  *)
OnePlatePerVehicle ==
    plates # <<>> /\ Profile.vehicleFirst =>
      LET frame == plates[1]
          list == plates[2]
      IN  \E owner \in [DOMAIN list -> DOMAIN Vehicles(frame)] :
            /\ IsInjective(owner)
            /\ \A k \in DOMAIN list :
                 LET roi == Roi(Vehicles(frame)[owner[k]], frame.image) IN
                 \E m \in DOMAIN frame.plates :
                   /\ list[k].box = frame.plates[m].box \cap roi
                   /\ \A n \in DOMAIN frame.plates :
                        frame.plates[n].box \cap roi # {} =>
                          BestClass(frame.plates[n], {}) <= BestClass(frame.plates[m], {})
=============================================================================
