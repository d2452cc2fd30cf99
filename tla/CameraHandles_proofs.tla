------------------------- MODULE CameraHandles_proofs -------------------------
(***************************************************************************)
(* What holds of the library's object and the drivers for any devices, any *)
(* camera commands and any number of devices unplugged, however the        *)
(* commands and recoveries of the two workers interleave.                  *)
(***************************************************************************)
EXTENDS CameraHandles, FiniteSetTheorems, TLAPS

LEMMA HandlesTypeInductive == TypeOK /\ [Next]_vars => TypeOK'
<1> SUFFICES ASSUME TypeOK, [Next]_vars PROVE TypeOK'
  OBVIOUS
<1> USE BoundAssumption DEF TypeOK, Running, Recovery, Set, library, devices, network
<1>0. \A s \in Cameras : s \in Slots /\ Single \in Slots
  BY DEF Slots
<1>c. ASSUME NEW s \in Slots, Camera_Init(s)
      PROVE  driver' \subseteq Slots /\ held' \in [Devices -> Slots \cup {Free, Lost}]
  BY <1>c DEF Camera_Init
<1>r. ASSUME NEW s \in Slots, Camera_Release(s)
      PROVE  driver' \subseteq Slots /\ held' \in [Devices -> Slots \cup {Free, Lost}]
  BY <1>r DEF Camera_Release
<1>1. ASSUME NEW w \in Cameras, Run(w) PROVE TypeOK'
  <2>1. CASE Command(w)
    BY <2>1 DEF Command, OnFailure
  <2>2. CASE Algorithm(w)
    BY <2>2 DEF Algorithm
  <2>3. CASE Initialize(w)
    BY <2>3, <1>0, <1>c DEF Initialize, IPL_Init
  <2>4. CASE ReleaseAll(w)
    BY <2>4, <1>0, <1>r DEF ReleaseAll, IPL_Release
  <2> QED
    BY <1>1, <2>1, <2>2, <2>3, <2>4 DEF Run
<1>2. ASSUME NEW w \in Cameras, Recover(w) PROVE TypeOK'
  <2>1. CASE Judge(w)
    BY <2>1 DEF Judge, At
  <2>2. CASE LibOut(w)
    BY <2>2 DEF LibOut, At, IPL_Release
  <2>3. CASE CamOut(w)
    BY <2>3, <1>0, <1>r DEF CamOut, At
  <2>4. CASE LibIn(w)
    BY <2>4 DEF LibIn, At, IPL_Init
  <2>5. CASE CamIn(w)
    BY <2>5, <1>0, <1>c DEF CamIn, At
  <2> QED
    BY <1>2, <2>1, <2>2, <2>3, <2>4, <2>5 DEF Recover
<1>3. ASSUME NEW w \in Cameras, NEW c \in Kinds \cup Others, NEW p \in Running,
             Begin(w, c, p)
      PROVE  TypeOK'
  BY <1>3 DEF Begin
<1>4. ASSUME NEW d \in Devices, Unplug(d) \/ Plug(d) PROVE TypeOK'
  BY <1>4 DEF Unplug, Plug
<1>5. CASE UNCHANGED vars
  BY <1>5 DEF vars
<1> QED
  BY <1>1, <1>2, <1>3, <1>4, <1>5 DEF Next

LEMMA HandlesTypeInitial == Init => TypeOK
BY BoundAssumption DEF Init, TypeOK, Slots

(* Every handle, command and device stays in its range.                    *)
THEOREM HandlesTypeCorrect == Spec => []TypeOK
BY HandlesTypeInitial, HandlesTypeInductive, PTL DEF Spec
-----------------------------------------------------------------------------
(* However the recoveries of the workers interleave, none leaves the       *)
(* service without the library.                                            *)
THEOREM LibraryComesBack ==
  ASSUME "release" \notin Kinds \cup Others
  PROVE  Spec => []LibraryRestored
<1>1. Init => LibraryRestored
  BY DEF Init, LibraryRestored
<1>2. TypeOK /\ LibraryRestored /\ [Next]_vars => LibraryRestored'
  <2> SUFFICES ASSUME TypeOK, LibraryRestored, [Next]_vars PROVE LibraryRestored'
    OBVIOUS
  <2> USE DEF LibraryRestored, TypeOK, Set
  <2>1. ASSUME NEW w \in Cameras, Command(w) \/ Algorithm(w) PROVE LibraryRestored'
    BY <2>1 DEF Command, OnFailure, Algorithm, library, Running
  <2>2. ASSUME NEW w \in Cameras, Initialize(w) PROVE LibraryRestored'
    BY <2>2 DEF Initialize, IPL_Init, library, Running
  <2>3. ASSUME NEW w \in Cameras, ReleaseAll(w) PROVE FALSE
    BY <2>3 DEF ReleaseAll
  <2>4. ASSUME NEW w \in Cameras, Judge(w) \/ CamOut(w) PROVE LibraryRestored'
    BY <2>4 DEF Judge, CamOut, At, library
  <2>5. ASSUME NEW w \in Cameras, LibOut(w) PROVE LibraryRestored'
    BY <2>5 DEF LibOut, At
  <2>6. ASSUME NEW w \in Cameras, LibIn(w) PROVE LibraryRestored'
    BY <2>6 DEF LibIn, IPL_Init
  <2>7. ASSUME NEW w \in Cameras, CamIn(w) PROVE LibraryRestored'
    BY <2>7 DEF CamIn, At, library
  <2>8. ASSUME NEW w \in Cameras, NEW c \in Kinds \cup Others, NEW p \in Running,
               Begin(w, c, p)
        PROVE  LibraryRestored'
    BY <2>8 DEF Begin, Running, library
  <2>9. ASSUME NEW d \in Devices, Unplug(d) \/ Plug(d) PROVE LibraryRestored'
    BY <2>9 DEF Unplug, Plug, library
  <2>10. CASE UNCHANGED vars
    BY <2>10 DEF vars
  <2> QED
    BY <2>1, <2>2, <2>3, <2>4, <2>5, <2>6, <2>7, <2>8, <2>9, <2>10 DEF Next, Run, Recover
<1> QED
  BY <1>1, <1>2, HandlesTypeInitial, HandlesTypeInductive, PTL DEF Spec
-----------------------------------------------------------------------------
(* A driver has at most one device open, and a released one has none.      *)
OneEach ==
  /\ \A d \in Devices : held[d] \in Slots => held[d] \in driver
  /\ \A d, e \in Devices : held[d] \in Slots /\ held[d] = held[e] => d = e

LEMMA OneEachInitial == ASSUME IsFiniteSet(Devices), Init PROVE OneEach
<1>1. driver \subseteq Slots /\ \A d \in Devices : held[d] \in Slots => held[d] \in driver
  BY CamerasAssumption DEF Init, Slots, Single, Free
<1>2. ASSUME NEW d \in Devices, NEW e \in Devices, held[d] \in Slots, held[d] = held[e]
      PROVE  d = e
  <2>1. IsFiniteSet(Has(held[d])) /\ Cardinality(Has(held[d])) = 1
    BY <1>1, <1>2, FS_Subset DEF Init, Has
  <2>2. PICK x : Has(held[d]) = {x}
    BY <2>1, FS_Singleton
  <2> QED
    BY <1>2, <2>2 DEF Has
<1> QED
  BY <1>1, <1>2 DEF OneEach

LEMMA OneEachInductive == TypeOK /\ OneEach /\ [Next]_vars => OneEach'
<1> SUFFICES ASSUME TypeOK, OneEach, [Next]_vars PROVE OneEach'
  OBVIOUS
<1>0. Free \notin Slots /\ Lost \notin Slots /\ Single \in Slots /\ Cameras \subseteq Slots
  BY CamerasAssumption DEF Free, Lost, Slots, Single
<1>c. ASSUME NEW s \in Slots, Camera_Init(s) PROVE OneEach'
  <2> DEFINE open == {d \in plugged : held[d] = Free}
             left == [d \in Devices |-> IF held[d] = s THEN Lost ELSE held[d]]
  <2>1. CASE open # {}
    <3>1. PICK d \in open : held' = [left EXCEPT ![d] = s]
      BY <1>c, <2>1 DEF Camera_Init, Set
    <3>2. driver' = driver \cup {s} /\ d \in Devices
      BY <1>c, <2>1 DEF Camera_Init, TypeOK
    <3>3. \A e \in Devices :
            held'[e] = IF e = d THEN s ELSE IF held[e] = s THEN Lost ELSE held[e]
      BY <3>1, <3>2
    <3> QED
      BY <1>0, <3>2, <3>3 DEF OneEach
  <2>2. CASE open = {}
    <3>1. driver' = driver \ {s}
      BY <1>c, <2>2 DEF Camera_Init
    <3>2. \A e \in Devices : held'[e] = IF held[e] = s THEN Lost ELSE held[e]
      BY <1>c, <2>2 DEF Camera_Init
    <3> QED
      BY <1>0, <3>1, <3>2 DEF OneEach
  <2> QED
    BY <2>1, <2>2
<1>r. ASSUME NEW s \in Slots, Camera_Release(s) PROVE OneEach'
  BY <1>0, <1>r DEF Camera_Release, OneEach
<1>u. CASE UNCHANGED devices
  BY <1>u DEF devices, OneEach
<1>1. ASSUME NEW w \in Cameras, Run(w) PROVE OneEach'
  BY <1>0, <1>1, <1>c, <1>r, <1>u DEF Run, Command, Algorithm, Initialize, ReleaseAll, devices
<1>2. ASSUME NEW w \in Cameras, Recover(w) PROVE OneEach'
  BY <1>0, <1>2, <1>c, <1>r, <1>u DEF Recover, Judge, LibOut, CamOut, LibIn, CamIn
<1>3. ASSUME NEW w \in Cameras, NEW c \in Kinds \cup Others, NEW p \in Running,
             Begin(w, c, p)
      PROVE  OneEach'
  BY <1>3, <1>u DEF Begin
<1>4. ASSUME NEW d \in Devices, Unplug(d) PROVE OneEach'
  BY <1>0, <1>4 DEF Unplug, Set, OneEach, TypeOK
<1>5. ASSUME NEW d \in Devices, Plug(d) PROVE OneEach'
  BY <1>5, <1>u DEF Plug
<1>6. CASE UNCHANGED vars
  BY <1>6, <1>u DEF vars, devices
<1> QED
  BY <1>1, <1>2, <1>3, <1>4, <1>5, <1>6 DEF Next

(* No device stays open for a driver that is gone, and none has two.       *)
THEOREM DriversHoldOneDevice ==
  ASSUME IsFiniteSet(Devices)
  PROVE  Spec => []DriverHasDevice
<1>1. OneEach => DriverHasDevice
  <2> SUFFICES ASSUME OneEach, NEW s \in Slots
               PROVE  Cardinality(Has(s)) <= IF s \in driver THEN 1 ELSE 0
    BY DEF DriverHasDevice
  <2>1. CASE Has(s) = {}
    BY <2>1, FS_EmptySet
  <2>2. CASE Has(s) # {}
    <3>1. PICK d \in Devices : held[d] = s
      BY <2>2 DEF Has
    <3>2. s \in driver /\ Has(s) = {d}
      BY <3>1 DEF OneEach, Has
    <3> QED
      BY <3>2, FS_Singleton
  <2> QED
    BY <2>1, <2>2
<1> QED
  BY <1>1, HandlesTypeInitial, HandlesTypeInductive, OneEachInitial, OneEachInductive, PTL
     DEF Spec

(* Only a camera's own recovery, or a pulled plug, takes its device away.  *)
THEOREM DevicesStayOpen == Spec => Undisturbed
<1>1. TypeOK /\ [Next]_vars =>
        [\A w \in Cameras :
           pc[w] \notin Recovery => Has(w) \cap plugged' \subseteq Has(w)']_vars
  <2> SUFFICES ASSUME TypeOK, [Next]_vars, NEW v \in Cameras, pc[v] \notin Recovery,
                      NEW d \in Devices, held[d] = v, d \in plugged'
               PROVE  held'[d] = v
    BY DEF Has
  <2>0. v # Single /\ v # Free /\ Single \in Slots /\ Cameras \subseteq Slots
    BY CamerasAssumption DEF Free, Slots, Single
  <2>c. ASSUME NEW s \in Slots, s # v, Camera_Init(s) PROVE held'[d] = v
    BY <2>0, <2>c DEF Camera_Init, Set, TypeOK
  <2>r. ASSUME NEW s \in Slots, s # v, Camera_Release(s) PROVE held'[d] = v
    BY <2>r DEF Camera_Release
  <2>1. ASSUME NEW w \in Cameras, Run(w) PROVE held'[d] = v
    BY <2>0, <2>1, <2>c, <2>r DEF Run, Command, Algorithm, Initialize, ReleaseAll, devices
  <2>2. ASSUME NEW w \in Cameras, Recover(w) PROVE held'[d] = v
    <3>1. pc[w] \in Recovery
      BY <2>2 DEF Recover, Judge, LibOut, CamOut, LibIn, CamIn, At, Recovery
    <3> QED
      BY <2>0, <2>2, <3>1, <2>c, <2>r DEF Recover, Judge, LibOut, CamOut, LibIn, CamIn, devices
  <2>3. ASSUME NEW w \in Cameras, NEW c \in Kinds \cup Others, NEW p \in Running,
               Begin(w, c, p)
        PROVE  held'[d] = v
    BY <2>3 DEF Begin, devices
  <2>4. ASSUME NEW e \in Devices, Unplug(e) \/ Plug(e) PROVE held'[d] = v
    BY <2>4 DEF Unplug, Plug, Set, TypeOK, devices
  <2>5. CASE UNCHANGED vars
    BY <2>5 DEF vars, devices
  <2> QED
    BY <2>1, <2>2, <2>3, <2>4, <2>5 DEF Next
<1> QED
  BY <1>1, HandlesTypeInitial, HandlesTypeInductive, PTL DEF Spec, Undisturbed
=============================================================================
