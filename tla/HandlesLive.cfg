SPECIFICATION PresentSpec
CONSTANTS
  Cameras <- One
  Devices = {d1, d2}
  Kinds = {capture}
  Others = {"algorithm", "release"}
  MaxFaults = 3
PROPERTY ComesBack
CHECK_DEADLOCK FALSE
