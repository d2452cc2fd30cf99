---------------------------- MODULE CameraStreaming ----------------------------
(***************************************************************************)
(* One GigE camera, as CMethod_HikGigECamCtrl drives it: the commands of   *)
(* the camera's worker, one after the other, and the streaming thread that *)
(* STREAMING_INITIALIZE detaches, with its two conditions (run, trigger)   *)
(* and the signal of its end.  The SDK calls back with triggered frames,   *)
(* which go to a ring that both cameras share.  The model follows one      *)
(* driver object from the camera's opening to its release.                 *)
(*                                                                         *)
(* There should be one thread.  But the wait for its end has no flag, so   *)
(* that it may end early, and then there can be two.                       *)
(***************************************************************************)
EXTENDS Naturals, Sequences

CONSTANTS
  Threads,   \* bound: streaming threads that live at a time
  Ops,       \* the commands that this client sends
  Triggers,  \* the values it configures for bIsEnbTriggerMode
  RingSize,  \* slots of g_owRingbuffer, one of which stays empty
  Neighbour, \* whether the other camera streams too
  MaxCmds    \* bound: commands in a behaviour

Commands == {"config", "inquiry", "capture", "prepare", "start", "stop", "pop", "close", "release"}

ASSUME OpsAssumption      == Ops \subseteq Commands
ASSUME TriggersAssumption == Triggers \subseteq BOOLEAN
ASSUME RingAssumption     == RingSize \in Nat \ {0, 1} /\ Neighbour \in BOOLEAN
ASSUME CmdsAssumption     == MaxCmds \in Nat

VARIABLES
  op,         \* where the worker is: "idle" between commands, "gone" after the release
  live,       \* m_pCam: the number of the open device handle, 0 without one
  nHandle,    \* handles opened so far
  grab,       \* the device of the open handle grabs
  registered, \* its image callback is registered
  trigMode,   \* m_global_cfg_ParamInfo.bIsEnbTriggerMode
  streaming,  \* m_global_cfg_ParamInfo.bIsStreaming
  created,    \* bIsCreated
  isRun, isDone, isTrigger,  \* notified_IsRun, notified_IsDone, notified_IsTrigger
  pc, hdl, started,          \* the streaming threads: their pCam and bIsAlreadyStart
  ring,       \* frames: of this run of the camera, of an earlier one, of the other camera
  got,        \* history: what the last streaming capture brought
  early,      \* history: a thread lives that a close did not wait for
  nCmd

device == <<live, nHandle, grab, registered>>
flags  == <<streaming, isRun, isDone, isTrigger>>
thread == <<pc, hdl, started>>
frames == <<ring, got>>
vars == <<op, device, trigMode, created, flags, thread, frames, early, nCmd>>

Frames == {"own", "old", "other"}
Places == {"none", "top", "lock", "halt", "wait", "begin", "trigger", "block", "blocked", "frame", "leave"}

TypeOK ==
  /\ op \in {"idle", "gone", "inquiry", "capture", "snap", "close", "closing", "closeWait",
             "reopen", "release"}
  /\ live \in 0 .. nHandle /\ nHandle \in 1 .. MaxCmds + 1
  /\ grab \in BOOLEAN /\ registered \in BOOLEAN /\ trigMode \in BOOLEAN /\ created \in BOOLEAN
  /\ streaming \in BOOLEAN /\ isRun \in BOOLEAN /\ isDone \in BOOLEAN /\ isTrigger \in BOOLEAN
  /\ pc \in [Threads -> Places] /\ hdl \in [Threads -> 0 .. nHandle] /\ started \in [Threads -> BOOLEAN]
  /\ ring \in Seq(Frames) /\ Len(ring) < RingSize
  /\ got \in Frames \cup {"nothing", "error"} /\ early \in BOOLEAN /\ nCmd \in 0 .. MaxCmds

Init ==
  /\ op = "idle" /\ live = 1 /\ nHandle = 1 /\ grab = FALSE /\ registered = FALSE
  /\ trigMode = FALSE /\ created = FALSE
  /\ streaming = FALSE /\ isRun = FALSE /\ isDone = FALSE /\ isTrigger = FALSE
  /\ pc = [t \in Threads |-> "none"] /\ hdl = [t \in Threads |-> 0] /\ started = [t \in Threads |-> FALSE]
  /\ ring = <<>> /\ got = "error" /\ early = FALSE /\ nCmd = 0

Alive(t) == pc[t] # "none"
SomeAlive == \E t \in Threads : Alive(t)
-----------------------------------------------------------------------------
(* AcquireStreaming_StartorStop.  It takes u_mutex, which a thread holds   *)
(* while it stops grabbing, and notifies one waiter of each condition; the *)
(* trigger's has another mutex, which it does not take.                    *)

InPlace(p) == {t \in Threads : pc[t] = p}
OneOf(S)   == IF S = {} THEN {{}} ELSE {{t} : t \in S}

(* Mutant: a thread takes being woken for being told to run. *)
WokenBlind(W) ==
  [t \in Threads |-> IF t \notin W THEN pc[t] ELSE IF pc[t] = "wait" THEN "begin" ELSE "trigger"]

Woken(W) ==
  [t \in Threads |-> IF t \notin W THEN pc[t] ELSE IF pc[t] = "wait" THEN "lock" ELSE "trigger"]

(* Mutant: the conditions are not notified. *)
StartorStopSilent(b) ==
  /\ InPlace("halt") = {}
  /\ isRun' = b /\ streaming' = b
  /\ isTrigger' = (b /\ trigMode)
  /\ UNCHANGED <<isDone, thread>>

StartorStop(b) ==
  /\ InPlace("halt") = {}
  /\ isRun' = b /\ streaming' = b
  /\ isTrigger' = (b /\ trigMode)
  /\ \E R \in OneOf(InPlace("wait")), T \in OneOf(InPlace("blocked")) : pc' = Woken(R \cup T)
  /\ UNCHANGED <<isDone, hdl, started>>

(* A stream that runs is stopped before anything else.                     *)
StopFirst == IF streaming THEN StartorStop(FALSE) ELSE UNCHANGED <<flags, thread>>
-----------------------------------------------------------------------------
(* The commands. *)

Command(c) == op = "idle" /\ c \in Ops /\ nCmd < MaxCmds /\ nCmd' = nCmd + 1

(* GigECam_SetConfig, which like the next two fails at once without a      *)
(* handle.  A stream keeps all but its exposure, and stops if that cannot  *)
(* be set.  The trigger mode is kept first; setting it up registers the    *)
(* callback, which nothing unregisters.                                    *)
SetConfig(b) ==
  /\ Command("config") /\ live # 0
  /\ IF streaming
       THEN /\ StartorStop(FALSE) \/ UNCHANGED <<flags, thread>>
            /\ UNCHANGED <<trigMode, registered>>
       ELSE /\ trigMode' = b
            /\ registered' \in {registered, registered \/ b}
            /\ UNCHANGED <<flags, thread>>
  /\ UNCHANGED <<op, live, nHandle, grab, created, frames, early>>

GetConfig ==
  /\ Command("inquiry") /\ live # 0
  /\ StopFirst
  /\ UNCHANGED <<op, device, trigMode, created, frames, early>>

(* GigECam_AcquireImages, to MV_CC_StartGrabbing and, with a frame, from   *)
(* there to MV_CC_StopGrabbing; a camera that grabs already may refuse,    *)
(* and without a frame it is left grabbing.                                *)
AcquireImages ==
  /\ Command("capture") /\ live # 0
  /\ StopFirst
  /\ op' = "capture"
  /\ UNCHANGED <<device, trigMode, created, frames, early>>

AcquireBegin ==
  /\ op = "capture"
  /\ \/ op' = "snap" /\ grab' = TRUE
     \/ grab /\ op' = "idle" /\ UNCHANGED grab
  /\ UNCHANGED <<live, nHandle, registered, trigMode, created, flags, thread, frames, early, nCmd>>

AcquireEnd ==
  /\ op = "snap"
  /\ op' = "idle"
  /\ grab' \in {grab, FALSE}
  /\ UNCHANGED <<live, nHandle, registered, trigMode, created, flags, thread, frames, early, nCmd>>

Create(t) ==
  /\ isDone' = FALSE /\ isRun' = FALSE /\ created' = TRUE
  /\ pc' = [pc EXCEPT ![t] = "top"]
  /\ hdl' = [hdl EXCEPT ![t] = live]
  /\ started' = [started EXCEPT ![t] = FALSE]
  /\ UNCHANGED streaming

Free == CHOOSE t \in Threads : ~Alive(t)

(* Mutant: a second thread is started. *)
PrepareAgain ==
  /\ Command("prepare")
  /\ isTrigger' = trigMode
  /\ IF live = 0
       THEN UNCHANGED <<created, streaming, isRun, isDone, thread>>
       ELSE (\E t \in Threads : ~Alive(t)) /\ Create(Free)
  /\ UNCHANGED <<op, device, trigMode, frames, early>>

(* AcquireStreaming_Prepare starts a thread, unless there is one.          *)
Prepare ==
  /\ Command("prepare")
  /\ isTrigger' = trigMode
  /\ IF created \/ live = 0
       THEN UNCHANGED <<created, streaming, isRun, isDone, thread>>
       ELSE (\E t \in Threads : ~Alive(t)) /\ Create(Free)
  /\ UNCHANGED <<op, device, trigMode, frames, early>>

(* What was in the ring before is of an earlier run.                       *)
Start ==
  /\ Command("start")
  /\ StartorStop(TRUE)
  /\ ring' = IF streaming THEN ring
             ELSE [i \in DOMAIN ring |-> IF ring[i] = "own" THEN "old" ELSE ring[i]]
  /\ UNCHANGED <<op, device, trigMode, created, got, early>>

Stop ==
  /\ Command("stop")
  /\ StartorStop(FALSE)
  /\ UNCHANGED <<op, device, trigMode, created, frames, early>>

(* AcquireStreaming_Capture: an empty ring is not an error.                *)
Pop ==
  /\ Command("pop")
  /\ got' = IF ~streaming THEN "error" ELSE IF ring = <<>> THEN "nothing" ELSE Head(ring)
  /\ ring' = IF streaming /\ ring # <<>> THEN Tail(ring) ELSE ring
  /\ UNCHANGED <<op, device, trigMode, created, flags, thread, early>>

(* GigECam_Strm_Close: stop; tell the thread to end; wait, with no         *)
(* condition to test, for the signal of its end; open the camera anew.     *)
Close ==
  /\ Command("close")
  /\ StartorStop(FALSE)
  /\ op' = "close"
  /\ UNCHANGED <<device, trigMode, created, frames, early>>

CloseTell ==
  /\ op = "close" /\ InPlace("halt") = {}
  /\ op' = "closing"
  /\ isDone' = TRUE /\ isRun' = TRUE /\ isTrigger' = FALSE /\ streaming' = FALSE
  /\ trigMode' = FALSE /\ created' = FALSE
  /\ pc' = Woken(InPlace("wait") \cup InPlace("blocked"))
  /\ UNCHANGED <<device, hdl, started, frames, early, nCmd>>

(* Mutant: it does not wait for the thread. *)
CloseNoWait ==
  /\ op = "closing"
  /\ op' = "reopen"
  /\ UNCHANGED <<device, trigMode, created, flags, thread, frames, early, nCmd>>

CloseWait ==
  /\ op = "closing"
  /\ op' = "closeWait"
  /\ UNCHANGED <<device, trigMode, created, flags, thread, frames, early, nCmd>>

(* "wait" may return without a signal, and nobody tests whether the thread *)
(* has ended.                                                              *)
WakesEarly ==
  /\ op = "closeWait"
  /\ op' = "reopen"
  /\ early' = SomeAlive
  /\ UNCHANGED <<device, trigMode, created, flags, thread, frames, nCmd>>

(* GigECam_Release and GigeCam_Init; the new handle may not open.          *)
Reopen ==
  /\ op = "reopen"
  /\ op' = "idle" /\ grab' = FALSE /\ registered' = FALSE
  /\ \/ live' = nHandle + 1 /\ nHandle' = nHandle + 1
     \/ live' = 0 /\ UNCHANGED nHandle
  /\ UNCHANGED <<trigMode, created, flags, thread, frames, early, nCmd>>

(* GigECam_Release, when the worker gives up the camera: the thread is     *)
(* neither told to end nor waited for.  Then the driver is given up, even  *)
(* if its handle could not be destroyed.                                   *)
Release ==
  /\ Command("release")
  /\ IF live # 0 THEN StopFirst ELSE UNCHANGED <<flags, thread>>
  /\ op' = "release"
  /\ UNCHANGED <<device, trigMode, created, frames, early>>

Destroy ==
  /\ op = "release"
  /\ op' = "gone" /\ live' \in {live, 0} /\ grab' = FALSE /\ registered' = FALSE
  /\ UNCHANGED <<nHandle, trigMode, created, flags, thread, frames, early, nCmd>>
-----------------------------------------------------------------------------
(* Thread_Acquire. *)

Goes(t, from, to) == pc[t] = from /\ pc' = [pc EXCEPT ![t] = to]

Step(t, from, to) ==
  /\ Goes(t, from, to)
  /\ UNCHANGED <<op, device, trigMode, created, flags, hdl, started, frames, early, nCmd>>

Top(t) == Step(t, "top", IF isDone THEN "leave" ELSE "lock")

(* It takes u_mutex, which another one may hold.                           *)
Check(t) ==
  /\ InPlace("halt") = {}
  /\ Step(t, "lock", IF isRun THEN IF started[t] THEN "trigger" ELSE "begin"
                     ELSE IF started[t] THEN "halt" ELSE "wait")

(* MV_CC_StopGrabbing and MV_CC_StartGrabbing, on the thread's handle; a   *)
(* failure is logged and no more.                                          *)
Grabs(t, from, to, b, outcomes) ==
  /\ Goes(t, from, to)
  /\ started' = [started EXCEPT ![t] = b]
  /\ grab' \in outcomes
  /\ UNCHANGED <<op, live, nHandle, registered, trigMode, created, flags, hdl, frames, early, nCmd>>

Halt(t)  == Grabs(t, "halt", "wait", FALSE, {grab, grab /\ hdl[t] # live})
Begin(t) == Grabs(t, "begin", "trigger", TRUE, {grab, grab \/ hdl[t] = live})

(* Between the test of the trigger flag and the wait, a change is missed.  *)
(* It holds mtx_triggrt from here to the end of the pass, but in the wait. *)
Test(t) ==
  /\ InPlace("block") \cup InPlace("frame") = {}
  /\ Step(t, "trigger", IF isTrigger THEN "block" ELSE "frame")
Block(t) == Step(t, "block", "blocked")

(* AcquireStreaming: with a frame or, after a second, without.             *)
Acquire(t) == Step(t, "frame", "top")

(* The signal of the end reaches a worker that waits already.              *)
Leave(t) ==
  /\ Goes(t, "leave", "none")
  /\ hdl' = [hdl EXCEPT ![t] = 0] /\ started' = [started EXCEPT ![t] = FALSE]
  /\ op' = IF op = "closeWait" THEN "reopen" ELSE op
  /\ early' = (early /\ \E s \in Threads \ {t} : Alive(s))
  /\ UNCHANGED <<device, trigMode, created, flags, frames, nCmd>>

(* Its own waits may return without a signal as well; they test again.     *)
WakesUp(t) == Step(t, "wait", "lock") \/ Step(t, "blocked", "trigger")

Thread(t) == Top(t) \/ Check(t) \/ Halt(t) \/ Begin(t) \/ Test(t) \/ Block(t) \/ Acquire(t) \/ Leave(t)
-----------------------------------------------------------------------------
(* AcquireCallBackEx, for this camera and for the other one.               *)

Push(f) == ring' = IF Len(ring) < RingSize - 1 THEN Append(ring, f) ELSE Append(Tail(ring), f)

Callback ==
  /\ registered /\ grab
  /\ Push("own")
  /\ UNCHANGED <<op, device, trigMode, created, flags, thread, got, early, nCmd>>

OtherCallback ==
  /\ Neighbour
  /\ Push("other")
  /\ UNCHANGED <<op, device, trigMode, created, flags, thread, got, early, nCmd>>

Worker ==
  \/ \E b \in Triggers : SetConfig(b)
  \/ GetConfig \/ AcquireImages \/ Prepare \/ Start \/ Stop \/ Pop \/ Close \/ Release

GoesOn == AcquireBegin \/ AcquireEnd \/ CloseTell \/ CloseWait \/ Reopen \/ Destroy

Next ==
  \/ Worker \/ GoesOn \/ WakesEarly
  \/ \E t \in Threads : Thread(t) \/ WakesUp(t)
  \/ Callback \/ OtherCallback

Spec == Init /\ [][Next]_vars

(* The threads run, and the worker goes on with a command it has begun.    *)
FairSpec == Spec /\ (\A t \in Threads : WF_vars(Thread(t))) /\ WF_vars(GoesOn)
-----------------------------------------------------------------------------
(* Properties. *)

(* A thread is started only when no other lives, unless a close returned   *)
(* before the thread it was for had ended: the wait for the signal is all  *)
(* that keeps them apart.                                                  *)
Starts(t) == pc[t] = "none" /\ pc'[t] = "top"
OneThread == [][\A t \in Threads : Starts(t) /\ ~early => ~SomeAlive]_vars

(* "Because there is only one handle of camera control, only one thread    *)
(* can be launched here": without the exemption.                           *)
OnlyOneThread == [][\A t \in Threads : Starts(t) => ~SomeAlive]_vars

(* Until the worker gives the camera up, a thread uses the handle that is  *)
(* open: closing a stream waits for the thread before it opens the camera  *)
(* anew, unless the wait returns early.                                    *)
HandleOutlivesThread ==
  ~early /\ op # "gone" => \A t \in Threads : Alive(t) => hdl[t] = live

(* A camera never grabs unasked: each thread implements GrabControl through*)
(* every command, closing and reopening, whatever it waits for, also when  *)
(* there are two.                                                          *)
Control == INSTANCE GrabControl WITH
             Followers <- Threads,
             wanted    <- [t \in Threads |-> Alive(t) /\ isRun],
             seen      <- [t \in Threads |-> Alive(t) /\ (pc[t] = "begin" \/ (started[t] /\ pc[t] # "halt"))],
             grabbing  <- [t \in Threads |-> Alive(t) /\ started[t]]
GrabsAsTold == Control!Spec

(* And in the end it grabs, or not, as its last command says, unless a     *)
(* thread is left in the loop that waits for a trigger (see StopStops) or  *)
(* there are two, of which a command wakes one.                            *)
ForTrigger == InPlace("trigger") \cup InPlace("block") \cup InPlace("blocked")
GrabsInTheEnd == []<>(~early /\ ForTrigger = {}) => Control!Settles

(* "To stop GigE camera streaming": it stops, also when the trigger is on. *)
StopStops == \A t \in Threads : [](started[t] /\ ~isRun => <>(~started[t] \/ isRun))

(* "To release GigE camera streaming": a release that finds the thread     *)
(* alive returns.                                                          *)
CloseReturns == [](op = "closing" /\ SomeAlive => <>(op = "idle"))

(* The same where there is no thread to wait for.                          *)
CloseAlwaysReturns == [](op = "closing" /\ ~SomeAlive => <>(op = "idle"))

(* "Streaming mode is already running. Stop now.": no frame goes to the    *)
(* streaming thread while a single image is taken.                         *)
CaptureAlone == op = "snap" => InPlace("frame") = {}

(* "Retrieve image information under the condition that GigE camera        *)
(* streaming is activated": a capture that does not fail has an image, of  *)
(* this camera.                                                            *)
CaptureHasImage == got # "nothing"
CaptureIsOwn    == got # "other"

(* Releasing the camera leaves no thread to use its handle.                *)
NoneLeftBehind == op = "gone" => ~SomeAlive
=============================================================================
