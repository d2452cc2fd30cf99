SPECIFICATION Spec
CONSTANTS
  Cameras <- Both
  Devices = {d1, d2}
  Kinds = {capture, config}
  Others = {"algorithm", "initialize"}
  MaxFaults = 2
INVARIANTS DriverHasDevice LibraryRestored
PROPERTY Undisturbed
CHECK_DEADLOCK FALSE
