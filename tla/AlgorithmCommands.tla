--------------------------- MODULE AlgorithmCommands ---------------------------
(***************************************************************************)
(* An ordinary command of the camera and algorithm groups, from its        *)
(* message to its answer, outside a recording or a replay.                 *)
(*                                                                         *)
(* The subscriber thread looks the command up in gAlgoParamReg, its parser *)
(* (MqttParse_) fills the one argument structure of the command and copies *)
(* the text of the arguments into the one text buffer of the command       *)
(* (pJsonBuf); its converter (cvtJP2P_) then copies the arguments into a   *)
(* task of the queue of the camera.  The worker of the camera runs the     *)
(* method (Method_), which leaves its results in the one result structure  *)
(* of the command (pRes), and the generator (JsonEditor_) tells them and   *)
(* quotes the text buffer.  Structure, buffer and results belong to the    *)
(* command, not to the camera: both workers and the subscriber share them. *)
(*                                                                         *)
(* A value is the number of the message it comes from, 0 when it comes     *)
(* from none.  Numbers are given in the order of the messages.             *)
(***************************************************************************)
EXTENDS Naturals, Sequences

CONSTANTS
    Cameras,      \* the cameras, each with a queue and a worker
    Kinds,        \* the commands sent: a subset of DOMAIN Commands
    Handles,      \* what a worker may find: a subset of {"there", "gone"}
    MaxCommands   \* how many messages arrive

-----------------------------------------------------------------------------
(* What the parser of each command fills in.  A parser assigns all its     *)
(* fields in every message: a missing argument becomes empty or zero.      *)

InOut == {"strInputImgPath", "strResultImgPath"}
InSaveOut == InOut \cup {"strSaveImgPath"}

MqttParse_GigECameraInit == {}
MqttParse_GigECameraInq == {}
MqttParse_GigECameraCfg == {"bPixelFormat", "iWidth", "iHeight", "iOffset_X",
    "iOffset_Y", "iBinning_Scale", "bExposureAuto", "dbExposureTime",
    "bIsEnbTriggerMode", "iTriggerActivation", "strSaveImgPath"}
MqttParse_GigECameraParam == {"bIsEnbReadImageMode", "strInputImgPath", "strSaveImgPath"}
MqttParse_GigECameraRelease == {}
MqttParse_GigECameraStrmInit == {}
MqttParse_GigECameraStrmInq == {}
MqttParse_GigECameraStrmStart == {}
MqttParse_GigECameraStrmCapture == {"strSaveImgPath"}
MqttParse_GigECameraStrmStop == {}
MqttParse_GigECameraStrmRelease == {}
MqttParse_IMG_Calibration == {"dbE2E_Distance_mm"} \cup InOut
MqttParse_CropROI_GTemplate == {"roiRect"} \cup InSaveOut
MqttParse_ALGO_PatternMatch == {"roiSearch", "strTemplateImgPath"} \cup InOut
MqttParse_ALGO_FindProfile == {"roiSearch", "roiMask", "bDirection", "bPolarity",
    "iSelLineNo"} \cup InOut
MqttParse_ALGO_DetectCircle == {"roiSearch", "roiMask", "bDirection", "bPolarity",
    "iMinEdgeStrength"} \cup InOut
MqttParse_ALGO_IBOX_Annulus == {"roiAnnulus"} \cup InOut
MqttParse_ALGO_IBOX_Rect == {"roiRect"} \cup InOut
MqttParse_ALGO_IBOX_Circle == {"roiCircle"} \cup InOut
MqttParse_ALGO_CalcCoord == {"seFMarkBox", "seInspBox", "seCoorBindBoxIn"}
MqttParse_ALGO_Crop_Annulus == {"seCoordBox", "roiAnnulus"} \cup InSaveOut
MqttParse_ALGO_Crop_Rect == {"seCoordBox", "roiRect"} \cup InSaveOut
MqttParse_ALGO_Crop_Circle == {"seCoordBox", "roiCircle"} \cup InSaveOut
MqttParse_ALGO_Hisg_Annulus == {"roiAnnulus"} \cup InOut
MqttParse_ALGO_Hisg_Rect == {"roiRect"} \cup InOut
MqttParse_ALGO_Hisg_Circle == {"roiCircle"} \cup InOut
MqttParse_ALGO_IP_Threshold == {"dbThresh", "dbMaxVal", "emTypes"} \cup InSaveOut
MqttParse_ALGO_IP_Morphology == {"emShapes", "iKSize", "emOperation"} \cup InSaveOut
MqttParse_ALGO_IP_NoiseRemoval == {"dbLimit_min", "dbLimit_max"} \cup InSaveOut
MqttParse_ALGO_IP_DataAugmentation == {"seDA_Param"} \cup InSaveOut
MqttParse_ALGO_MeasGW_Annulus == {"roiAnnuls", "stepSize", "dbmm_per_pixel"} \cup InOut
MqttParse_ALGO_MeasGW_Rect == {"roiRect", "stepSize", "dbmm_per_pixel"} \cup InOut

(* What the converter of each command copies into the task: the arguments  *)
(* into pParm, the paths into strings of the task.                         *)

cvtJP2P_GigECam_Initialize == {}
cvtJP2P_GigECam_Inquiry == {}
cvtJP2P_GigECam_Config == {"bPixelFormat", "iOffset_X", "iOffset_Y", "iWidth", "iHeight",
    "iBinning_Scale", "dbExposureTime", "bExposureAuto", "bIsEnbTriggerMode",
    "iTriggerActivation"} \cup InSaveOut
cvtJP2P_GigECam_Capture == {"bIsEnbReadImageMode", "bPixelFormat", "iOffset_X",
    "iOffset_Y", "iWidth", "iHeight", "iBinning_Scale", "dbExposureTime",
    "bExposureAuto"} \cup InSaveOut
cvtJP2P_GigECam_Release == {}
cvtJP2P_GigECamStrm_Initialize == {}
cvtJP2P_GigECamStrm_Inquiry == {}
cvtJP2P_GigECamStrm_Start == {}
cvtJP2P_GigECamStrm_Capture == {"strSaveImgPath"}
cvtJP2P_GigECamStrm_Stop == {}
cvtJP2P_GigECamStrm_Release == {}
cvtJP2P_Image_Calibration == {"dbE2E_Distance_mm"} \cup InOut
cvtJP2P_Crop_GoldenTemplate == {"roiRect"} \cup InSaveOut
cvtJP2P_PatternMatch == {"roiSearch", "strTemplateImgPath"} \cup InOut
cvtJP2P_FindProfile == {"roiSearch", "roiMask", "bDirection", "bPolarity", "stepSize",
    "iKSize", "iSelLineNo", "strTemplateImgPath"} \cup InOut
cvtJP2P_DetectCircle == {"roiSearch", "roiMask", "bDirection", "bPolarity", "stepSize",
    "iMinEdgeStrength", "iKSize"} \cup InOut
cvtJP2P_IBOX_Annulus == {"roiAnnulus"} \cup InOut
cvtJP2P_IBOX_Rect == {"roiRect"} \cup InOut
cvtJP2P_IBOX_Circle == {"roiCircle"} \cup InOut
cvtJP2P_CalcCoord == {"seFMarkBox", "seInspBox", "seCoorBindBoxIn", "strInputImgPath"}
cvtJP2P_Crop_Annulus == {"seCoordBox", "roiAnnulus"} \cup InSaveOut
cvtJP2P_Crop_Rect == {"seCoordBox", "roiRect"} \cup InSaveOut
cvtJP2P_Crop_Circle == {"seCoordBox", "roiCircle"} \cup InSaveOut
cvtJP2P_Histogram_Annulus == {"roiAnnulus"} \cup InSaveOut
cvtJP2P_Histogram_Rect == {"roiRect"} \cup InSaveOut
cvtJP2P_Histogram_Circle == {"roiCircle"} \cup InSaveOut
cvtJP2P_Threshold == {"dbThresh", "dbMaxVal", "emTypes"} \cup InSaveOut
cvtJP2P_Mrophology == {"emShapes", "iKSize", "emOperation"} \cup InSaveOut
cvtJP2P_NoiseRemoval == {"dbLimit_min", "dbLimit_max"} \cup InSaveOut
cvtJP2P_DataAugmentation == {"seDA_Param"} \cup InSaveOut
cvtJP2P_MeasGW_Annulus == {"roiAnnuls", "stepSize", "dbmm_per_pixel"} \cup InSaveOut
cvtJP2P_MeasGW_Rect == {"roiRect", "stepSize", "dbmm_per_pixel"} \cup InSaveOut

(* The methods: the arguments they read when they run alone, and the       *)
(* results they write.  The crop of a circle takes its paths from pParm,   *)
(* where nothing has put them.  The capture reads the flag and the path of *)
(* the read-image mode and uses neither; the measurements use no save      *)
(* path, the coordinates no image.                                         *)

Method(reads, writes) == [reads |-> reads, writes |-> writes]

Method_GigECameraCtl_Initialize == Method({}, {"retState", "seCamConfig"})
Method_GigECameraCtl_Inquiry == Method({}, {"retState", "seCamConfig"})
Method_GigECameraCtl_Config ==
    Method({"bPixelFormat", "iOffset_X", "iOffset_Y", "iWidth", "iHeight",
    "iBinning_Scale", "bExposureAuto", "dbExposureTime", "bIsEnbTriggerMode",
    "iTriggerActivation"}, {"retState"})
Method_GigECameraCtl_Capture == Method({"strSaveImgPath"}, {"retState"})
Method_GigECameraCtl_Release == Method({}, {"retState", "seCamConfig"})
Method_GigECameraStrm_Initialize == Method({}, {"retState", "seCamConfig"})
Method_GigECameraStrm_Inquiry == Method({}, {"retState", "seCamConfig"})
Method_GigECameraStrm_Start == Method({}, {"retState", "seCamConfig"})
Method_GigECameraStrm_Capture == Method({"strSaveImgPath"}, {"retState", "seCamConfig"})
Method_GigECameraStrm_Stop == Method({}, {"retState", "seCamConfig"})
Method_GigECameraStrm_Release == Method({}, {"retState", "seCamConfig"})
Method_ImageCalibration ==
    Method({"dbE2E_Distance_mm"} \cup InOut, {"retState", "dbPixelCount_X",
    "dbPixelCount_Y", "dbmm_per_pixel"})
Method_Crop_GoldenTemplate == Method({"roiRect"} \cup InSaveOut, {"retState"})
Method_PatternMatch ==
    Method({"roiSearch", "strTemplateImgPath"} \cup InOut, {"retState", "dbScoreOut",
    "seFMarkBoxOut"})
Method_FindProfile ==
    Method({"roiSearch", "roiMask", "bDirection", "bPolarity", "iSelLineNo"} \cup InOut,
    {"retState", "iDataCnt", "i1DArrayOut"})
Method_DetectCircle ==
    Method({"roiSearch", "roiMask", "bDirection", "bPolarity",
    "iMinEdgeStrength"} \cup InOut, {"retState", "seFMarkBoxOut"})
Method_IBOX_Annulus == Method({"roiAnnulus"} \cup InOut, {"retState", "seBoundBoxOut"})
Method_IBOX_Rect == Method({"roiRect"} \cup InOut, {"retState", "seBoundBoxOut"})
Method_IBOX_Circle == Method({"roiCircle"} \cup InOut, {"retState", "seBoundBoxOut"})
Method_CalcCoord ==
    Method({"seFMarkBox", "seInspBox", "seCoorBindBoxIn"}, {"retState",
    "seCoorBindBoxOut"})
Method_CropImg_Annulus ==
    Method({"seCoordBox", "roiAnnulus"} \cup InSaveOut, {"retState",
    "seRoiOffset_Annulus"})
Method_CropImg_Rect ==
    Method({"seCoordBox", "roiRect"} \cup InSaveOut, {"retState", "seRoiOffset_Rect"})
Method_CropImg_Circle ==
    Method({"seCoordBox", "roiCircle", "pParm.strInputImgPath", "pParm.strSaveImgPath",
    "pParm.strResultImgPath"}, {"retState", "seRoiOffset_Circle"})
Method_Histogram_Annulus ==
    Method({"roiAnnulus"} \cup InOut, {"retState", "iDataCnt", "db1DArray"})
Method_Histogram_Rect ==
    Method({"roiRect"} \cup InOut, {"retState", "iDataCnt", "db1DArray"})
Method_Histogram_Circle ==
    Method({"roiCircle"} \cup InOut, {"retState", "iDataCnt", "db1DArray"})
Method_Threshold ==
    Method({"dbThresh", "dbMaxVal", "emTypes"} \cup InSaveOut, {"retState"})
Method_Morphology ==
    Method({"emShapes", "iKSize", "emOperation"} \cup InSaveOut, {"retState"})
Method_NoiseRemoval == Method({"dbLimit_min", "dbLimit_max"} \cup InSaveOut, {"retState"})
Method_DataAugmentation == Method({"seDA_Param"} \cup InSaveOut, {"retState"})
Method_GlueWidthMeasure_Annulus ==
    Method({"roiAnnuls", "stepSize", "dbmm_per_pixel"} \cup InOut, {"retState",
    "iDataCnt", "dbLength_InnerOut", "dbLength_OuterOut", "pos_InnerOut", "pos_OuterOut",
    "dbGlueAreaOut"})
Method_GlueWidthMeasure_Rect ==
    Method({"roiRect", "stepSize", "dbmm_per_pixel"} \cup InOut, {"retState", "iDataCnt",
    "dbLength_InnerOut", "dbLength_OuterOut", "pos_InnerOut", "pos_OuterOut",
    "dbGlueAreaOut"})

(* The results each generator tells.                                       *)

JsonEditor_GigECam_Initialize == {"retState", "seCamConfig"}
JsonEditor_GigECam_Inquiry == {"retState", "seCamConfig"}
JsonEditor_GigECam_Config == {"retState"}
JsonEditor_GigECam_Parameter == {"retState"}
JsonEditor_GigECam_Release == {"retState", "seCamConfig"}
JsonEditor_GigECamStrm_Initialize == {"retState", "seCamConfig"}
JsonEditor_GigECamStrm_Inquiry == {"retState", "seCamConfig"}
JsonEditor_GigECamStrm_Start == {"retState", "seCamConfig"}
JsonEditor_GigECamStrm_Capture == {"retState", "seCamConfig"}
JsonEditor_GigECamStrm_Stop == {"retState", "seCamConfig"}
JsonEditor_GigECamStrm_Release == {"retState", "seCamConfig"}
JsonEditor_ImageCalibrations ==
    {"retState", "dbPixelCount_X", "dbPixelCount_Y", "dbmm_per_pixel"}
JsonEditor_Crop_GoldenTemplate == {"retState"}
JsonEditor_PatternMatch == {"retState", "dbScoreOut", "seFMarkBoxOut"}
JsonEditor_FindProfile == {"retState", "iDataCnt", "i1DArrayOut"}
JsonEditor_DetectCircle == {"retState", "seFMarkBoxOut"}
JsonEditor_IBOX_Annulus == {"retState", "seBoundBoxOut"}
JsonEditor_IBOX_Rect == {"retState", "seBoundBoxOut"}
JsonEditor_IBOX_Circle == {"retState", "seBoundBoxOut"}
JsonEditor_CalcCoord == {"retState", "seCoorBindBoxOut"}
JsonEditor_CropImg_Annulus == {"retState", "seRoiOffset_Annulus"}
JsonEditor_CropImg_Rect == {"retState", "seRoiOffset_Rect"}
JsonEditor_CropImg_Circle == {"retState", "seRoiOffset_Circle"}
JsonEditor_Histogram_Annulus == {"retState", "iDataCnt", "db1DArray"}
JsonEditor_Histogram_Rect == {"retState", "iDataCnt", "db1DArray"}
JsonEditor_Histogram_Circle == {"retState", "iDataCnt", "db1DArray"}
JsonEditor_Threshold == {"retState"}
JsonEditor_Morphology == {"retState"}
JsonEditor_NoiseRemoval == {"retState"}
JsonEditor_DataAugmentation == {"retState"}
JsonEditor_GlueWidthMeasure_Annulus ==
    {"retState", "iDataCnt", "dbLength_InnerOut", "dbLength_OuterOut", "pos_InnerOut",
    "pos_OuterOut", "dbGlueAreaOut"}
JsonEditor_GlueWidthMeasure_Rect ==
    {"retState", "iDataCnt", "dbLength_InnerOut", "dbLength_OuterOut", "pos_InnerOut",
    "pos_OuterOut", "dbGlueAreaOut"}

(* gAlgoParamReg and gAlgoMethodReg, row by row.                           *)
Row(parses, copies, method, tells) ==
    [parses |-> parses, copies |-> copies, method |-> method, tells |-> tells]

Commands == [
    initialize |-> Row(MqttParse_GigECameraInit, cvtJP2P_GigECam_Initialize,
        Method_GigECameraCtl_Initialize, JsonEditor_GigECam_Initialize),
    inquiry |-> Row(MqttParse_GigECameraInq, cvtJP2P_GigECam_Inquiry,
        Method_GigECameraCtl_Inquiry, JsonEditor_GigECam_Inquiry),
    config |-> Row(MqttParse_GigECameraCfg, cvtJP2P_GigECam_Config,
        Method_GigECameraCtl_Config, JsonEditor_GigECam_Config),
    capture |-> Row(MqttParse_GigECameraParam, cvtJP2P_GigECam_Capture,
        Method_GigECameraCtl_Capture, JsonEditor_GigECam_Parameter),
    release |-> Row(MqttParse_GigECameraRelease, cvtJP2P_GigECam_Release,
        Method_GigECameraCtl_Release, JsonEditor_GigECam_Release),
    streamInitialize |-> Row(MqttParse_GigECameraStrmInit, cvtJP2P_GigECamStrm_Initialize,
        Method_GigECameraStrm_Initialize, JsonEditor_GigECamStrm_Initialize),
    streamInquiry |-> Row(MqttParse_GigECameraStrmInq, cvtJP2P_GigECamStrm_Inquiry,
        Method_GigECameraStrm_Inquiry, JsonEditor_GigECamStrm_Inquiry),
    streamStart |-> Row(MqttParse_GigECameraStrmStart, cvtJP2P_GigECamStrm_Start,
        Method_GigECameraStrm_Start, JsonEditor_GigECamStrm_Start),
    streamCapture |-> Row(MqttParse_GigECameraStrmCapture, cvtJP2P_GigECamStrm_Capture,
        Method_GigECameraStrm_Capture, JsonEditor_GigECamStrm_Capture),
    streamStop |-> Row(MqttParse_GigECameraStrmStop, cvtJP2P_GigECamStrm_Stop,
        Method_GigECameraStrm_Stop, JsonEditor_GigECamStrm_Stop),
    streamRelease |-> Row(MqttParse_GigECameraStrmRelease, cvtJP2P_GigECamStrm_Release,
        Method_GigECameraStrm_Release, JsonEditor_GigECamStrm_Release),
    imageCalibration |-> Row(MqttParse_IMG_Calibration, cvtJP2P_Image_Calibration,
        Method_ImageCalibration, JsonEditor_ImageCalibrations),
    cropGoldenTemplate |-> Row(MqttParse_CropROI_GTemplate, cvtJP2P_Crop_GoldenTemplate,
        Method_Crop_GoldenTemplate, JsonEditor_Crop_GoldenTemplate),
    patternMatch |-> Row(MqttParse_ALGO_PatternMatch, cvtJP2P_PatternMatch,
        Method_PatternMatch, JsonEditor_PatternMatch),
    findProfile |-> Row(MqttParse_ALGO_FindProfile, cvtJP2P_FindProfile,
        Method_FindProfile, JsonEditor_FindProfile),
    detectCircle |-> Row(MqttParse_ALGO_DetectCircle, cvtJP2P_DetectCircle,
        Method_DetectCircle, JsonEditor_DetectCircle),
    boxAnnulus |-> Row(MqttParse_ALGO_IBOX_Annulus, cvtJP2P_IBOX_Annulus,
        Method_IBOX_Annulus, JsonEditor_IBOX_Annulus),
    boxRect |-> Row(MqttParse_ALGO_IBOX_Rect, cvtJP2P_IBOX_Rect,
        Method_IBOX_Rect, JsonEditor_IBOX_Rect),
    boxCircle |-> Row(MqttParse_ALGO_IBOX_Circle, cvtJP2P_IBOX_Circle,
        Method_IBOX_Circle, JsonEditor_IBOX_Circle),
    calcCoord |-> Row(MqttParse_ALGO_CalcCoord, cvtJP2P_CalcCoord,
        Method_CalcCoord, JsonEditor_CalcCoord),
    cropAnnulus |-> Row(MqttParse_ALGO_Crop_Annulus, cvtJP2P_Crop_Annulus,
        Method_CropImg_Annulus, JsonEditor_CropImg_Annulus),
    cropRect |-> Row(MqttParse_ALGO_Crop_Rect, cvtJP2P_Crop_Rect,
        Method_CropImg_Rect, JsonEditor_CropImg_Rect),
    cropCircle |-> Row(MqttParse_ALGO_Crop_Circle, cvtJP2P_Crop_Circle,
        Method_CropImg_Circle, JsonEditor_CropImg_Circle),
    histogramAnnulus |-> Row(MqttParse_ALGO_Hisg_Annulus, cvtJP2P_Histogram_Annulus,
        Method_Histogram_Annulus, JsonEditor_Histogram_Annulus),
    histogramRect |-> Row(MqttParse_ALGO_Hisg_Rect, cvtJP2P_Histogram_Rect,
        Method_Histogram_Rect, JsonEditor_Histogram_Rect),
    histogramCircle |-> Row(MqttParse_ALGO_Hisg_Circle, cvtJP2P_Histogram_Circle,
        Method_Histogram_Circle, JsonEditor_Histogram_Circle),
    threshold |-> Row(MqttParse_ALGO_IP_Threshold, cvtJP2P_Threshold,
        Method_Threshold, JsonEditor_Threshold),
    morphology |-> Row(MqttParse_ALGO_IP_Morphology, cvtJP2P_Mrophology,
        Method_Morphology, JsonEditor_Morphology),
    noiseRemoval |-> Row(MqttParse_ALGO_IP_NoiseRemoval, cvtJP2P_NoiseRemoval,
        Method_NoiseRemoval, JsonEditor_NoiseRemoval),
    dataAugmentation |-> Row(MqttParse_ALGO_IP_DataAugmentation, cvtJP2P_DataAugmentation,
        Method_DataAugmentation, JsonEditor_DataAugmentation),
    measureAnnulus |-> Row(MqttParse_ALGO_MeasGW_Annulus, cvtJP2P_MeasGW_Annulus,
        Method_GlueWidthMeasure_Annulus, JsonEditor_GlueWidthMeasure_Annulus),
    measureRect |-> Row(MqttParse_ALGO_MeasGW_Rect, cvtJP2P_MeasGW_Rect,
        Method_GlueWidthMeasure_Rect, JsonEditor_GlueWidthMeasure_Rect)]

(* What is assumed of the constants; MCSharedData asserts it. *)
KindsAssumption == Kinds \subseteq DOMAIN Commands
HandlesAssumption == Handles \subseteq {"there", "gone"}
CommandsAssumption == MaxCommands \in Nat

None == 0
Numbers == 0 .. MaxCommands

(* A worker without its handle refuses the command before the result       *)
(* structure is touched; so does the pattern matching when one of its      *)
(* three paths is empty.                                                   *)
NeedsPaths == {"patternMatch"}

-----------------------------------------------------------------------------
VARIABLES
    parsed,    \* per command: the message its argument structure was filled from
    text,      \* per command: the message whose text its buffer holds
    results,   \* per command: its result structure
    match,     \* the messages the last mark found comes from (m_retTargetMatch)
    queue,     \* per camera: the tasks waiting
    now,       \* per camera: the task in the worker's hands
    at,        \* per camera: where its worker stands
    outcome,   \* per camera: how the method ended
    answer,    \* per camera: the last answer published
    sent       \* how many messages have arrived

vars == <<parsed, text, results, match, queue, now, at, outcome, answer, sent>>

(* Mutant: a task that refers to the argument structure. *)
ArgumentShared(t, a) == IF a \in DOMAIN t.args THEN parsed[t.kind] ELSE None
Argument(t, a) == IF a \in DOMAIN t.args THEN t.args[a] ELSE None

Fresh(k) == [ok |-> TRUE, from |-> [f \in Commands[k].method.writes |-> {}]]
NoTask == [no |-> None, kind |-> "none", args |-> << >>, paths |-> TRUE, lone |-> FALSE]
NoAnswer == [no |-> None, kind |-> "none", quotes |-> None, ok |-> FALSE,
             values |-> << >>, ended |-> "none", lone |-> FALSE]

IsTask(t) ==
    /\ t.no \in 1 .. sent /\ t.kind \in Kinds
    /\ DOMAIN t.args = Commands[t.kind].copies /\ \A a \in DOMAIN t.args : t.args[a] \in Numbers

TypeOK ==
    /\ parsed \in [Kinds -> Numbers]
    /\ text \in [Kinds -> Numbers]
    /\ sent \in Numbers
    /\ match \subseteq Numbers
    /\ \A k \in Kinds :
        /\ results[k].ok \in BOOLEAN
        /\ results[k].from \in [Commands[k].method.writes -> SUBSET Numbers]
    /\ \A c \in Cameras :
        /\ \A i \in DOMAIN queue[c] : IsTask(queue[c][i])
        /\ at[c] \in {"idle", "run", "answer"}
        /\ at[c] # "idle" => IsTask(now[c])
        /\ outcome[c] \in {"none", "ok", "missed", "error", "refused"}
        /\ answer[c].no \in Numbers /\ answer[c].quotes \in Numbers

Init ==
    /\ parsed = [k \in Kinds |-> None]
    /\ text = [k \in Kinds |-> None]
    /\ results = [k \in Kinds |-> Fresh(k)]
    /\ match = {None}
    /\ queue = [c \in Cameras |-> << >>]
    /\ now = [c \in Cameras |-> NoTask]
    /\ at = [c \in Cameras |-> "idle"]
    /\ outcome = [c \in Cameras |-> "none"]
    /\ answer = [c \in Cameras |-> NoAnswer]
    /\ sent = 0

(* History: a task is lone while no other message of its command has       *)
(* arrived, for either camera, from before its start to its answer.        *)
InFlight(k) ==
    \E c \in Cameras :
        \/ at[c] # "idle" /\ now[c].kind = k
        \/ \E i \in DOMAIN queue[c] : queue[c][i].kind = k
Joined(t, k) == [t EXCEPT !.lone = @ /\ t.kind # k]

-----------------------------------------------------------------------------
(* METHOD_GigeCam_Streaming_Capture has its text buffer as its result      *)
(* structure: its results fall on its text, which is gone, and a text read *)
(* as results has a status that is not zero.                               *)
TextIsResult == {"streamCapture"}
TextRead(k) == [Fresh(k) EXCEPT !.ok = FALSE]

(* setAlgo_ParamAssign_Dual and setAlgo_MethodAssign_Dual: one message is  *)
(* parsed, its text kept and its task queued before the subscriber thread  *)
(* looks at the next one.  `paths` is whether its paths are all given.     *)
Copied(k, n) ==
    [a \in Commands[k].copies |-> IF a \in Commands[k].parses THEN n ELSE None]

Receive(c) ==
    /\ sent < MaxCommands
    /\ \E k \in Kinds, paths \in BOOLEAN :
        LET n == sent + 1
            t == [no |-> n, kind |-> k, args |-> Copied(k, n), paths |-> paths,
                  lone |-> ~InFlight(k)]
        IN /\ paths \/ k \in NeedsPaths
           /\ parsed' = [parsed EXCEPT ![k] = n]
           /\ text' = [text EXCEPT ![k] = n]
           /\ results' = IF k \in TextIsResult THEN [results EXCEPT ![k] = TextRead(k)]
                         ELSE results
           /\ queue' = [d \in Cameras |->
                          LET q == [i \in DOMAIN queue[d] |-> Joined(queue[d][i], k)]
                          IN IF d = c THEN Append(q, t) ELSE q]
           /\ now' = [d \in Cameras |-> Joined(now[d], k)]
           /\ sent' = n
    /\ UNCHANGED <<match, at, outcome, answer>>

Take(c) ==
    /\ at[c] = "idle" /\ queue[c] # << >>
    /\ now' = [now EXCEPT ![c] = Head(queue[c])]
    /\ queue' = [queue EXCEPT ![c] = Tail(@)]
    /\ at' = [at EXCEPT ![c] = "run"]
    /\ outcome' = [outcome EXCEPT ![c] = "none"]
    /\ UNCHANGED <<parsed, text, results, match, answer, sent>>

(* The method: refused, or run to its end with its results, all computed   *)
(* from the arguments it read and from the image of this moment, copied    *)
(* into the result structure, whether it succeeded or not.                 *)
Refused(t, handle) == handle = "gone" \/ (t.kind \in NeedsPaths /\ ~t.paths)
Sources(t) == {t.no} \cup {Argument(t, a) : a \in Commands[t.kind].method.reads}

(* A pattern matching that finds no mark succeeds with the score of the    *)
(* last mark found, for either camera, and its box moved to its own search *)
(* region.  The calibration looks for nothing and succeeds with its counts *)
(* of pixels as they were cleared.                                         *)
MayFind(k) == IF k = "patternMatch" THEN BOOLEAN ELSE {k # "imageCalibration"}
Leftover(t) ==
    [dbScoreOut |-> match, seFMarkBoxOut |-> match \cup {Argument(t, "roiSearch")},
     dbPixelCount_X |-> {None}, dbPixelCount_Y |-> {None}]
Value(t, ended, f) ==
    IF ended = "missed" /\ f \in DOMAIN Leftover(t) THEN Leftover(t)[f] ELSE Sources(t)

(* Mutant: results copied only when the method succeeds. *)
WrittenOnSuccess(t, ended) ==
    IF ended = "error" THEN results[t.kind]
    ELSE [ok |-> TRUE,
          from |-> [f \in Commands[t.kind].method.writes |-> Value(t, ended, f)]]
Written(t, ended) ==
    [ok |-> ended # "error",
     from |-> [f \in Commands[t.kind].method.writes |-> Value(t, ended, f)]]

Run(c) ==
    /\ at[c] = "run"
    /\ LET t == now[c]
       IN \E handle \in Handles, found \in MayFind(t.kind) :
          \E ended \in {IF found THEN "ok" ELSE "missed", "error"} :
            IF Refused(t, handle)
            THEN /\ outcome' = [outcome EXCEPT ![c] = "refused"]
                 /\ UNCHANGED <<results, match, text>>
            ELSE /\ outcome' = [outcome EXCEPT ![c] = ended]
                 /\ results' = [results EXCEPT ![t.kind] = Written(t, ended)]
                 /\ match' = IF t.kind = "patternMatch" /\ ended = "ok" THEN Sources(t)
                             ELSE match
                 /\ text' = IF t.kind \in TextIsResult THEN [text EXCEPT ![t.kind] = None]
                            ELSE text
    /\ at' = [at EXCEPT ![c] = "answer"]
    /\ UNCHANGED <<parsed, queue, now, answer, sent>>

(* JsonEditor_: the answer on the topic of the camera, with what the       *)
(* result structure and the text buffer hold now.                          *)
Answer(c) ==
    LET t == now[c]
        r == results[t.kind]
    IN /\ at[c] = "answer"
       /\ answer' = [answer EXCEPT ![c] =
            [no |-> t.no, kind |-> t.kind, quotes |-> text[t.kind], ok |-> r.ok,
             values |-> [f \in Commands[t.kind].tells |-> r.from[f]],
             ended |-> outcome[c], lone |-> t.lone]]
       /\ at' = [at EXCEPT ![c] = "idle"]
       /\ now' = [now EXCEPT ![c] = NoTask]
       /\ UNCHANGED <<parsed, text, results, match, queue, outcome, sent>>

Next == \E c \in Cameras : Receive(c) \/ Take(c) \/ Run(c) \/ Answer(c)

Spec == Init /\ [][Next]_vars

-----------------------------------------------------------------------------
(* Every argument a method reads is an argument of its own command,        *)
(* whatever has been received since for either camera.                     *)
OwnArguments ==
    \A c \in Cameras : at[c] = "run" =>
        \A a \in Commands[now[c].kind].method.reads : Argument(now[c], a) = now[c].no

Quoted(a) == a.quotes = a.no
Told(a) ==
    /\ a.ok <=> a.ended \in {"ok", "missed"}
    /\ \A f \in DOMAIN a.values :
        a.ended # "missed" \/ f = "retState" => a.values[f] = {a.no}

(* An answer tells how its own command ended, with its own values, and     *)
(* quotes its own arguments, when the command was not refused and no other *)
(* message of its command was on its way at the same time.  Of a match     *)
(* that found no mark, and of a calibration, only the status is its own.   *)
SerialAnswered ==
    \A c \in Cameras :
        answer[c].no # None /\ answer[c].lone /\ answer[c].ended # "refused"
            => Quoted(answer[c]) /\ Told(answer[c])

(* An answer quotes the arguments of the command it answers.               *)
AnswerQuotes == \A c \in Cameras : answer[c].no # None => Quoted(answer[c])

(* An answer says Ack for a command that succeeded, and only for one.      *)
AnswerStatus ==
    \A c \in Cameras :
        answer[c].no # None => (answer[c].ok <=> answer[c].ended \in {"ok", "missed"})

(* The values of an answer are those of the command it answers.            *)
AnswerValues ==
    \A c \in Cameras :
        answer[c].no # None =>
            \A f \in DOMAIN answer[c].values : answer[c].values[f] = {answer[c].no}
=============================================================================
