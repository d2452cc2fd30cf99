CONSTANTS
    c0 = c0
    Machines = {"library", "replay", "commands", "io"}
    Workers = {c0, c1}
    Methods <- SomeMethods
    Inputs = {"good", "noImage", "tooLarge", "refused", "noMark"}
    MaxCalls = 3
    ReplayCameras = {c0, c1}
    MaxRuns <- Runs
    CommandCameras = {0, 1}
    CommandKinds = {"initialize", "inquiry", "config", "capture", "release",
        "streamInitialize", "streamInquiry", "streamStart", "streamStop",
        "streamRelease", "imageCalibration", "cropGoldenTemplate",
        "patternMatch", "findProfile", "detectCircle", "boxAnnulus", "boxRect",
        "boxCircle", "calcCoord", "cropAnnulus", "cropRect",
        "histogramAnnulus", "histogramRect", "histogramCircle", "threshold",
        "morphology", "noiseRemoval", "dataAugmentation", "measureAnnulus",
        "measureRect"}
    MaxCommands = 2
    IoKinds = {"TRIGGER_SET_PROCESS", "TRIGGER_GET_PROCESS", "DIN_SET_PROCESS",
        "DIN_GET_PROCESS", "IOS_GET_STATUS", "LIGHT_SET_PWM", "LIGHT_GET_PWM",
        "LED_SET_PROCESS", "LED_GET_PROCESS", "LED_SET_MODE", "DIN_SET_MODE",
        "DOUT_SET_MODE", "DOUT_MANUAL_CONTROL", "DIO_GET_STATUS",
        "LIGHT_SET_BRIGHTNESS", "LIGHT_GET_BRIGHTNESS",
        "CAMERA_STREAMING_CONTROL", "MODBUS_SET_PARAMS", "MODBUS_GET_PARAMS",
        "TRIGGER_SET_MODE", "REPORT_TEST_RESULT", "AUTO_TEST_SET_MODE",
        "IO_RTC_SET_MODE", "IO_SYS_GET_PARAMS", "IO_SHOP_FLOOR_CONTROL",
        "camera"}
    MaxMessages = 2
SPECIFICATION AllSpec
INVARIANTS
    UndisturbedIsOwn
    ReplayAloneIsOwn
    CommandOwnArguments
    
    IoAloneIsOwn
CHECK_DEADLOCK FALSE
