---------------------------- MODULE Configuration ----------------------------
(***************************************************************************)
(* core/Config.cpp: what AppConfig::loadFromFile accepts, and what it      *)
(* makes of it, as operators.  A JSON file is a record of what decides:    *)
(* a camera's id is the n of "cam<n>" (0: none given), a profile its       *)
(* engine, backend and preprocessing, listed whether there is a camera     *)
(* list.  Keys that are merely copied are left out.                        *)
(***************************************************************************)
EXTENDS Integers, Sequences, Functions

CONSTANTS
    MaxCameras    \* 64

ASSUME ConfigurationAssumption == MaxCameras \in Nat

Refused == [accepted |-> FALSE]

KnownSource(source) == source \in {"simulation", "camera"}

(* readPreprocess *)
GoodPreprocess(p) ==
    p.color \in {"BGR", "RGB"} /\ p.channels \in {1, 3} /\ p.layout \in {"nchw", "nhwc"}

(* readModelProfile, with the preprocessing of its models *)
GoodProfile(p) ==
    /\ p.backend \in {"cpu", "opencl", "opencl_fp16", "cuda", "cuda_fp16"}
    /\ \A k \in DOMAIN p.preprocess : GoodPreprocess(p.preprocess[k])

(* Deviant: any stride is taken. *)
AnyStride(n) == TRUE

(* process_every_n_frames *)
GoodStride(n) == n >= 1

(* readProcessing.  The profile in use must be among those there are, if   *)
(* there are any.                                                          *)
GoodProcessing(p) ==
    /\ p.workers \in 0..16
    /\ GoodStride(p.everyN)
    /\ \A name \in DOMAIN p.profiles : GoodProfile(p.profiles[name])
    /\ DOMAIN p.profiles = {} \/ p.active \in DOMAIN p.profiles

(* A camera without an id is named after its place. *)
Named(cameras) == [k \in DOMAIN cameras |->
                     IF cameras[k].id = 0 THEN [cameras[k] EXCEPT !.id = k] ELSE cameras[k]]

Distinct(cameras) == IsInjective([k \in DOMAIN cameras |-> cameras[k].id])

(* "Legacy single-camera config: synthesize one camera entry." *)
Legacy(capture) == <<[id |-> 1, enabled |-> TRUE, source |-> capture]>>

CameraList(file) == IF file.listed THEN Named(file.cameras) ELSE Legacy(file.capture)

(* loadFromFile *)
LoadFromFile(file) ==
    IF /\ file.readable
       /\ KnownSource(file.capture)
       /\ \A k \in DOMAIN file.cameras : KnownSource(file.cameras[k].source)
       /\ Len(CameraList(file)) <= MaxCameras
       /\ Distinct(CameraList(file))
       /\ GoodProcessing(file.processing)
    THEN [accepted |-> TRUE, cameras |-> CameraList(file), processing |-> file.processing]
    ELSE Refused
=============================================================================
