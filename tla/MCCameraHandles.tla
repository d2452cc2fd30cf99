---------------------------- MODULE MCCameraHandles ----------------------------
EXTENDS CameraHandles

(* The run of the recovery starts with the camera there: one that main()   *)
(* does not find has no driver, its commands fail without a record, and    *)
(* nothing ever looks for it again.                                        *)
PresentInit == Init /\ driver = Cameras
PresentSpec == PresentInit /\ [][Next]_vars /\ Fairness

(* The same, but the camera is used by replays of its recipe only. *)
ReplaysOnly == PresentInit /\ [][Next]_vars /\ Progress
               /\ \A w \in Cameras, c \in Kinds : SF_vars(Begin(w, c, "replay"))

Both == {0, 1}
One  == {0}
All  == {"algorithm", "initialize", "release"}
=============================================================================
