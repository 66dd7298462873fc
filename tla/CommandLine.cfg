SPECIFICATION Spec
CONSTANTS
    MaxCameras = 3
    Devices <- Lan
    Interfaces <- Adapters
    Usable <- NotVpn
    None = None
    VehicleClasses = {2, 7}
    RoiExpand = 30
    DetThreshold = 40
    OcrThreshold = 60
    NmsThreshold = 45
    PadChar = "_"
    Commands <- Lines
    RawFiles <- Configs
    Frames <- Scenes
    Engines = {"opencv_dnn"}
CHECK_DEADLOCK FALSE
INVARIANTS
    PipelineStartsSound
    ListsEveryAnswerOnce
    OnePlatePerVehicle
