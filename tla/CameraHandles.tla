----------------------------- MODULE CameraHandles -----------------------------
(***************************************************************************)
(* The library handles of the image-processing service.  One object of the *)
(* image-processing library serves both camera workers; each camera has a  *)
(* driver object, and CAMERA_INITIALIZE has one more of its own.  A driver *)
(* opens the first device that nobody holds.  A worker copies the handle   *)
(* its command needs and runs the command with the copy.  A command comes  *)
(* by itself or is a step of a replay.  A camera command that comes by     *)
(* itself and fails makes the worker release and create anew the library   *)
(* and its driver, if the result record, which both workers share, says    *)
(* so; one that fails in a replay does not.                                *)
(***************************************************************************)
EXTENDS Naturals, FiniteSets

CONSTANTS
  Cameras,    \* of 0 .. 1
  Devices,    \* the cameras on the network
  Kinds,      \* the camera commands, each with a result record of its own
  Others,     \* the other commands, of {"algorithm", "initialize", "release"}
  MaxFaults   \* bound: devices unplugged

ASSUME CamerasAssumption == Cameras \subseteq {0, 1}
ASSUME OthersAssumption  == Others \subseteq {"algorithm", "initialize", "release"}
ASSUME BoundAssumption  == MaxFaults \in Nat

Single == 2                      \* pter_hdl_GigE, beside pter_hdl_GigE_Dual[0] and [1]
Slots  == Cameras \cup {Single}
Free   == 3                      \* a device that no handle has open
Lost   == 4                      \* one that only a forgotten handle has open

VARIABLES
  ipl,      \* pter_hdl_IPL: there is an object of the library
  driver,   \* the slots with a driver object
  held,     \* who has a device open
  plugged,  \* the devices on the network
  retState, \* the result records that say that their command failed
  pc,       \* where a worker is
  cmd,      \* its command
  hdl,      \* the handle it copied: "none", "driver", "library", or one "destroyed" since
  nFault

vars == <<ipl, driver, held, plugged, retState, pc, cmd, hdl, nFault>>
library == <<ipl, hdl>>
devices == <<driver, held>>
network == <<plugged, nFault>>

Running  == {"run", "replay"}    \* a command by itself, a step of a replay
Recovery == {"judge", "libOut", "camOut", "libIn", "camIn"}

TypeOK ==
  /\ ipl \in BOOLEAN
  /\ driver \subseteq Slots
  /\ held \in [Devices -> Slots \cup {Free, Lost}]
  /\ plugged \subseteq Devices /\ retState \subseteq Kinds
  /\ pc \in [Cameras -> {"idle"} \cup Running \cup Recovery]
  /\ cmd \in [Cameras -> Kinds \cup Others \cup {"none"}]
  /\ hdl \in [Cameras -> {"none", "driver", "library", "destroyed"}]
  /\ nFault \in 0 .. MaxFaults

Set(f, x, v) == [f EXCEPT ![x] = v]
Has(s) == {d \in Devices : held[d] = s}

(* main() has created the library and the drivers, and each driver has     *)
(* opened a device if there was one left for it.                           *)
Init ==
  /\ ipl = TRUE /\ retState = {} /\ nFault = 0
  /\ plugged \in SUBSET Devices
  /\ driver \in SUBSET Cameras
  /\ held \in [Devices -> driver \cup {Free}]
  /\ \A s \in driver : Cardinality(Has(s)) = 1
  /\ \A d \in Devices : IF d \in plugged THEN held[d] # Free \/ driver = Cameras ELSE held[d] = Free
  /\ pc = [w \in Cameras |-> "idle"]
  /\ cmd = [w \in Cameras |-> "none"]
  /\ hdl = [w \in Cameras |-> "none"]
-----------------------------------------------------------------------------
(* The library's object and the drivers. *)

IPL_Init == ipl' = TRUE /\ UNCHANGED hdl

(* A worker that copied the pointer is left with it. *)
IPL_Release ==
  /\ ipl' = FALSE
  /\ hdl' = [w \in Cameras |-> IF hdl[w] = "library" THEN "destroyed" ELSE hdl[w]]

(* ipsComp_Camera_Init(_Dual), with GigeCam_Init: a driver that has a      *)
(* device open forgets its handle when it creates the next; one that opens *)
(* none is released, with the last handle it created.                      *)
Camera_Init(s) ==
  LET open == {d \in plugged : held[d] = Free}
      left == [d \in Devices |-> IF held[d] = s THEN Lost ELSE held[d]]
  IN IF open # {}
       THEN driver' = driver \cup {s} /\ \E d \in open : held' = Set(left, d, s)
       ELSE driver' = driver \ {s} /\ held' = left

(* Mutant: the driver object goes, its device stays open. *)
Camera_ReleaseOpen(s) ==
  /\ driver' = driver \ {s}
  /\ UNCHANGED held

(* ipsComp_Camera_Release(_Dual).                                          *)
Camera_Release(s) ==
  /\ driver' = driver \ {s}
  /\ held' = [d \in Devices |-> IF held[d] = s THEN Free ELSE held[d]]
-----------------------------------------------------------------------------
(* A worker's command. *)

(* The handle is copied: the camera's driver for the camera commands and   *)
(* CAMERA_RELEASE, the library's object for everything else.               *)
Begin(w, c, p) ==
  /\ pc[w] = "idle"
  /\ pc' = Set(pc, w, p)
  /\ cmd' = Set(cmd, w, c)
  /\ hdl' = Set(hdl, w,
        CASE c \in Kinds \cup {"release"} /\ w \in driver -> "driver"
          [] c \notin Kinds \cup {"release"} /\ ipl -> "library"
          [] OTHER -> "none")
  /\ UNCHANGED <<ipl, devices, network, retState>>

(* A failure in a replay is not recovered from: the command that is tested *)
(* there, or the record that is read, is the trigger's and not the step's, *)
(* and no step writes the trigger's record.                                *)
OnFailure(w) == IF pc[w] = "run" THEN "judge" ELSE "idle"

(* A camera command on a missing handle fails and leaves its result record *)
(* as it was; so does one whose device is gone, but that one is recorded.  *)
Command(w) ==
  /\ pc[w] \in Running /\ cmd[w] \in Kinds
  /\ \/ hdl[w] = "none" /\ UNCHANGED retState /\ pc' = Set(pc, w, OnFailure(w))
     \/ hdl[w] # "none" /\ retState' = retState \cup {cmd[w]} /\ pc' = Set(pc, w, OnFailure(w))
     \/ /\ hdl[w] # "none" /\ Has(w) # {}
        /\ retState' = retState \ {cmd[w]} /\ pc' = Set(pc, w, "idle")
  /\ UNCHANGED <<library, devices, network, cmd>>

Algorithm(w) ==
  /\ pc[w] \in Running /\ cmd[w] = "algorithm"
  /\ pc' = Set(pc, w, "idle")
  /\ UNCHANGED <<library, devices, network, retState, cmd>>

(* Method_GigECameraCtl_Initialize and Method_GigECameraCtl_Release.       *)
Initialize(w) ==
  /\ pc[w] \in Running /\ cmd[w] = "initialize"
  /\ pc' = Set(pc, w, "idle")
  /\ IF hdl[w] = "none" THEN UNCHANGED <<library, devices>> ELSE IPL_Init /\ Camera_Init(Single)
  /\ UNCHANGED <<network, retState, cmd>>

ReleaseAll(w) ==
  /\ pc[w] \in Running /\ cmd[w] = "release"
  /\ pc' = Set(pc, w, "idle")
  /\ IF hdl[w] = "none" THEN UNCHANGED <<library, devices>> ELSE IPL_Release /\ Camera_Release(Single)
  /\ UNCHANGED <<network, retState, cmd>>
-----------------------------------------------------------------------------
(* The recovery. *)

At(w, from, to) ==
  /\ pc[w] = from /\ pc' = Set(pc, w, to)
  /\ UNCHANGED <<network, retState, cmd>>

(* Mutant: a failure is never recovered from. *)
JudgeIdle(w) == At(w, "judge", "idle") /\ UNCHANGED <<library, devices>>

Judge(w) ==
  /\ At(w, "judge", IF cmd[w] \in retState THEN "libOut" ELSE "idle")
  /\ UNCHANGED <<library, devices>>

LibOut(w) == At(w, "libOut", "camOut") /\ IPL_Release /\ UNCHANGED devices

(* Mutant: the first camera's driver is released, whoever failed. *)
CamOutFirst(w) == At(w, "camOut", "libIn") /\ Camera_Release(0) /\ UNCHANGED library

CamOut(w) == At(w, "camOut", "libIn") /\ Camera_Release(w) /\ UNCHANGED library

(* Mutant: the library is not created again. *)
LibInNot(w) == At(w, "libIn", "camIn") /\ UNCHANGED <<library, devices>>

LibIn(w) == At(w, "libIn", "camIn") /\ IPL_Init /\ UNCHANGED devices

CamIn(w) == At(w, "camIn", "idle") /\ Camera_Init(w) /\ UNCHANGED library

Recover(w) == Judge(w) \/ LibOut(w) \/ CamOut(w) \/ LibIn(w) \/ CamIn(w)
Run(w)     == Command(w) \/ Algorithm(w) \/ Initialize(w) \/ ReleaseAll(w)

(* A device that loses the network forgets who had it open; its handle    *)
(* stays behind in the driver.                                             *)
Unplug(d) ==
  /\ d \in plugged /\ nFault < MaxFaults
  /\ plugged' = plugged \ {d} /\ nFault' = nFault + 1
  /\ held' = Set(held, d, Free)
  /\ UNCHANGED <<library, driver, retState, pc, cmd>>

Plug(d) ==
  /\ d \notin plugged
  /\ plugged' = plugged \cup {d}
  /\ UNCHANGED <<library, devices, retState, nFault, pc, cmd>>

Next ==
  \/ \E w \in Cameras :
       \/ Run(w) \/ Recover(w)
       \/ \E c \in Kinds \cup Others, p \in Running : Begin(w, c, p)
  \/ \E d \in Devices : Unplug(d) \/ Plug(d)

Spec == Init /\ [][Next]_vars

(* The workers run, and a device that was unplugged is plugged in again;   *)
(* the clients send every kind of camera command by itself again and       *)
(* again, whatever is replayed between.                                    *)
Progress ==
  /\ \A w \in Cameras : WF_vars(Run(w)) /\ WF_vars(Recover(w))
  /\ \A d \in Devices : WF_vars(Plug(d))
Fairness == Progress /\ \A w \in Cameras, c \in Kinds : SF_vars(Begin(w, c, "run"))

FairSpec == Spec /\ Fairness
-----------------------------------------------------------------------------
(* Properties. *)

(* A driver has one device open at most, and no device is held open for a  *)
(* driver that is gone.                                                    *)
DriverHasDevice ==
  \A s \in Slots : Cardinality(Has(s)) <= IF s \in driver THEN 1 ELSE 0

(* Only a camera's own recovery, or a pulled plug, takes its device away.  *)
Undisturbed ==
  [][\A w \in Cameras : pc[w] \notin Recovery => Has(w) \cap plugged' \subseteq Has(w)']_vars

(* Whatever recoveries interleave, none leaves the service without the     *)
(* library, as long as no CAMERA_RELEASE is sent.                          *)
LibraryRestored ==
  (\A w \in Cameras : pc[w] \notin {"camOut", "libIn"}) => ipl

(* A camera that was lost has a device again some time after its device is *)
(* back, as long as its failing command is sent again by itself.  That its *)
(* recipe is replayed again and again is not enough.                       *)
ComesBack == \A w \in Cameras : []<>(Has(w) # {})

(* "To initiate IPL(Image Processing Library) and GigE camera(Single)": a  *)
(* CAMERA_INITIALIZE that has run leaves the library initiated.            *)
InitializeInitiates == [][\A w \in Cameras : Initialize(w) => ipl']_vars

(* "To release IPL(Image Processing Library) and GigE camera(Dual)": a     *)
(* CAMERA_RELEASE of a camera that is open releases it.                    *)
ReleaseReleases == [][\A w \in Cameras : ReleaseAll(w) => w \notin driver']_vars

(* "Selection the handle pointer": the object a worker runs an algorithm   *)
(* with is the library's object, not one that was destroyed meanwhile.     *)
LibraryThere ==
  \A w \in Cameras : pc[w] \in Running /\ cmd[w] = "algorithm" => hdl[w] # "destroyed"
=============================================================================
