--------------------------- MODULE InspectionFlow ---------------------------
(***************************************************************************)
(* The glue-inspection cycle of the two cameras:                           *)
(*                                                                         *)
(*   GI_START  ->  GI_WAIT_TRIGGER  ->  GI_EXCUTE_AUTO_GI                  *)
(*      ^                                       |                          *)
(*      +------------  GI_GET_TEST_RESULT  <----+                          *)
(*                                                                         *)
(* mainCtl alternates between Process_Flow_Handler (camera 0) and          *)
(* Process_Flow_Handler_Dual (camera 1).  Around it run                    *)
(*   - the trigger threads, which put Din_Trigger and Din_Trigger_Dual on  *)
(*     the ONE queue innerQ_IOS both handlers read;                        *)
(*   - the camera workers, which report a run's end on innerQ_IPS and in   *)
(*     the ONE variable mp_FlowStatus both handlers read;                  *)
(*   - the subscriber, whose parsers write Active and TestResult at once;  *)
(*   - the io thread, which carries out DIN_SET_MODE, DOUT_SET_MODE and    *)
(*     the second half of AUTO_TEST_SET_MODE.                              *)
(* A handler sleeps tens of milliseconds between its writes (10 ms before  *)
(* a bounce, 100 ms to switch a light, 500 ms before AutoDone); mainPc     *)
(* says where, so that the other threads act in between.                   *)
(***************************************************************************)
EXTENDS Integers, Sequences, FiniteSets

CONSTANTS
  TriggerCams,  \* the cameras the trigger inputs are configured for
  PinnedCams,   \* the cameras whose AutoDone output gets configured
  DoutModes,    \* what DOUT_SET_MODE does to that output: TRUE maps, FALSE unmaps
  Outcomes,     \* how a run may end
  MaxTriggers,  \* bound: triggers raised in a behaviour
  MaxAutoTests, \* bound: AUTO_TEST_SET_MODE commands in a behaviour
  MaxCommandRuns \* bound: runs the backend commands itself, beside the cycle

Cameras == {0, 1}
Other(c) == 1 - c

ASSUME CamerasAssumption == TriggerCams \subseteq Cameras /\ PinnedCams \subseteq Cameras
ASSUME DoutAssumption    == DoutModes \subseteq BOOLEAN
ASSUME OutcomeAssumption == Outcomes \subseteq {"noRecipe", "broken", "good"}
ASSUME BoundsAssumption  ==
  MaxTriggers \in Nat /\ MaxAutoTests \in Nat /\ MaxCommandRuns \in Nat

Flow     == {"START", "WAIT", "EXECUTE", "RESULT"}
MainPC   == {"visit", "arm", "accept", "bounce", "poll", "verdict", "restart"}
WorkerPC == {"woken", "awake", "run", "post", "drained", "checked", "asleep"}

VARIABLES
  active, autoMode,  \* Process_Node(_Dual).Active and .autoMode: every writer
                     \* writes both cameras' copies
  autoDonePin,       \* some Dout of the camera has selectMode "AutoDone"
  giFlow,            \* Process_Node(_Dual).giFlow
  verdict,           \* Process_Node(_Dual).TestResult is "PASS" or "NG"
  wake,              \* wakeIPSFlag, wakeIPSFlag_Dual
  light,             \* LIGHT_SOURCE_1, LIGHT_SOURCE_2
  mpStatus,          \* mp_FlowStatus
  iosQ,              \* innerQ_IOS: the camera each trigger is for
  ipsQ,              \* innerQ_IPS_Dual of each camera
  tasks,             \* runs on TasksQ_Dual of each camera
  wpc,               \* each worker: where it is
  runStatus,         \* bStatus_AutoRunMode: static, ONE variable for both workers
  mainPc, at,        \* mainCtl: where it is, whose handler it is in
  iosCam, pendingAuto, \* ios_cameraid; AUTO_TEST_SET_MODE jobs on IO_JsonQ
  nAuto, nCommanded, \* AUTO_TEST_SET_MODE commands received, runs commanded
  raised, accepted, submitted, announced,
                     \* triggers raised and accepted, runs submitted, AutoDone
                     \* reached, per camera (history, but for raised's bound)
  disturbed          \* history, per camera: something other than its own cycle has
                     \* run, or cut its cycle off, since that last began at rest

confVars   == <<active, autoMode, autoDonePin>>
flowVars   == <<giFlow, wake, light>>
workerVars == <<tasks, wpc, runStatus>>
mainVars   == <<mainPc, at>>
ioVars     == <<iosCam, pendingAuto, nAuto, nCommanded>>
histVars   == <<raised, accepted, submitted, announced, disturbed>>
vars == <<confVars, flowVars, verdict, mpStatus, iosQ, ipsQ, workerVars, mainVars,
          ioVars, histVars>>

TypeOK ==
  /\ active \in BOOLEAN /\ autoMode \in BOOLEAN
  /\ autoDonePin \in [Cameras -> BOOLEAN]
  /\ giFlow \in [Cameras -> Flow]
  /\ verdict \in [Cameras -> BOOLEAN]
  /\ wake \in [Cameras -> BOOLEAN] /\ light \in [Cameras -> BOOLEAN]
  /\ mpStatus \in {-1, 0, 1}
  /\ iosQ \in Seq(Cameras)
  /\ ipsQ \in [Cameras -> Seq({"Done", "Fail"})]
  /\ tasks \in [Cameras -> Nat]
  /\ wpc \in [Cameras -> WorkerPC] /\ runStatus \in {-1, 0, 1}
  /\ mainPc \in MainPC /\ at \in Cameras
  /\ iosCam \in Cameras /\ pendingAuto \in Nat
  /\ nAuto \in 0 .. MaxAutoTests /\ nCommanded \in 0 .. MaxCommandRuns
  /\ \A h \in {raised, accepted, submitted, announced} : h \in [Cameras -> Nat]
  /\ disturbed \in [Cameras -> BOOLEAN]

(* After start-up: both workers sleep.                                     *)
Init ==
  /\ active = FALSE /\ autoMode = FALSE
  /\ autoDonePin = [c \in Cameras |-> FALSE]
  /\ giFlow = [c \in Cameras |-> "START"]
  /\ verdict = [c \in Cameras |-> FALSE]
  /\ wake = [c \in Cameras |-> FALSE] /\ light = [c \in Cameras |-> FALSE]
  /\ mpStatus = -1
  /\ iosQ = <<>>
  /\ ipsQ = [c \in Cameras |-> <<>>]
  /\ tasks = [c \in Cameras |-> 0]
  /\ wpc = [c \in Cameras |-> "asleep"] /\ runStatus = -1
  /\ mainPc = "visit" /\ at = 0
  /\ iosCam = 0 /\ pendingAuto = 0 /\ nAuto = 0 /\ nCommanded = 0
  /\ raised = [c \in Cameras |-> 0] /\ accepted = [c \in Cameras |-> 0]
  /\ submitted = [c \in Cameras |-> 0] /\ announced = [c \in Cameras |-> 0]
  /\ disturbed = [c \in Cameras |-> FALSE]

Set(f, c, v) == [f EXCEPT ![c] = v]
Bump(f, c)   == [f EXCEPT ![c] = @ + 1]

(* No run of camera c is queued or under way; and none of any camera is,   *)
(* nor is there a message of one that c has not read.                      *)
RunOver(c) == tasks[c] = 0 /\ wpc[c] \notin {"run", "post"}
AtRest(c)  == ipsQ[c] = <<>> /\ \A d \in Cameras : RunOver(d)
Disturb(C) == disturbed' = [c \in Cameras |-> disturbed[c] \/ c \in C]
-----------------------------------------------------------------------------
(* mainCtl, in the handler of camera at. *)

Leave     == mainPc' = "visit" /\ at' = Other(at)
Within(p) == mainPc' = p /\ at' = at
Visiting(p) == mainPc = "visit" /\ active /\ autoMode /\ giFlow[at] = p

(* Not active, no auto mode; or no AutoDone output to switch off; or no    *)
(* trigger: the handler returns without a change.                          *)
Nothing ==
  /\ mainPc = "visit"
  /\ \/ ~active \/ ~autoMode
     \/ giFlow[at] = "START" /\ ~autoDonePin[at]
     \/ giFlow[at] = "WAIT" /\ iosQ = <<>>
  /\ Leave
  /\ UNCHANGED <<confVars, flowVars, verdict, mpStatus, iosQ, ipsQ, workerVars, ioVars,
                 histVars>>

(* GI_START.  The loop that would remove old triggers from innerQ_IOS runs *)
(* zero times: its bound is the Boolean innerQ_IOS_IsEmpty returned.       *)
Start ==
  /\ Visiting("START") /\ autoDonePin[at]
  /\ verdict' = Set(verdict, at, FALSE)
  /\ Within("arm")
  /\ UNCHANGED <<confVars, flowVars, mpStatus, iosQ, ipsQ, workerVars, ioVars, histVars>>

(* Mutant: the wake flag keeps its value of the last cycle. *)
ArmKeepsWake ==
  /\ mainPc = "arm"
  /\ light' = Set(light, at, FALSE)
  /\ mpStatus' = -1
  /\ giFlow' = Set(giFlow, at, "WAIT")
  /\ disturbed' = Set(disturbed, at, disturbed[at] /\ ~AtRest(at))
  /\ Leave
  /\ UNCHANGED <<confVars, wake, verdict, iosQ, ipsQ, workerVars, ioVars,
                 raised, accepted, submitted, announced>>

(* Mutant: the status of the last run is not reset. *)
ArmKeepsStatus ==
  /\ mainPc = "arm"
  /\ light' = Set(light, at, FALSE)
  /\ wake' = Set(wake, at, FALSE)
  /\ giFlow' = Set(giFlow, at, "WAIT")
  /\ disturbed' = Set(disturbed, at, disturbed[at] /\ ~AtRest(at))
  /\ Leave
  /\ UNCHANGED <<confVars, verdict, mpStatus, iosQ, ipsQ, workerVars, ioVars,
                 raised, accepted, submitted, announced>>

(* ...after the 100 ms of ios_Control_Light_Handler. *)
Arm ==
  /\ mainPc = "arm"
  /\ light' = Set(light, at, FALSE)
  /\ wake' = Set(wake, at, FALSE)
  /\ mpStatus' = -1
  /\ giFlow' = Set(giFlow, at, "WAIT")
  /\ disturbed' = Set(disturbed, at, disturbed[at] /\ ~AtRest(at))
  /\ Leave
  /\ UNCHANGED <<confVars, verdict, iosQ, ipsQ, workerVars, ioVars,
                 raised, accepted, submitted, announced>>

(* GI_WAIT_TRIGGER: take the first trigger, whosever it is. *)
Take ==
  /\ Visiting("WAIT") /\ iosQ # <<>>
  /\ iosQ' = Tail(iosQ)
  /\ Within(IF Head(iosQ) = at THEN "accept" ELSE "bounce")
  /\ UNCHANGED <<confVars, flowVars, verdict, mpStatus, ipsQ, workerVars, ioVars, histVars>>

Accept ==
  /\ mainPc = "accept"
  /\ light' = Set(light, at, TRUE)
  /\ giFlow' = Set(giFlow, at, "EXECUTE")
  /\ accepted' = Bump(accepted, at)
  /\ Leave
  /\ UNCHANGED <<confVars, wake, verdict, mpStatus, iosQ, ipsQ, workerVars, ioVars,
                 raised, submitted, announced, disturbed>>

(* Mutant: a trigger of the other camera is put back as one of this one. *)
BounceOwn ==
  /\ mainPc = "bounce"
  /\ iosQ' = Append(iosQ, at)
  /\ Leave
  /\ UNCHANGED <<confVars, flowVars, verdict, mpStatus, ipsQ, workerVars, ioVars, histVars>>

(* Mutant: a trigger of the other camera goes back to the front. *)
BounceFront ==
  /\ mainPc = "bounce"
  /\ iosQ' = <<Other(at)>> \o iosQ
  /\ Leave
  /\ UNCHANGED <<confVars, flowVars, verdict, mpStatus, ipsQ, workerVars, ioVars, histVars>>

(* Not ours: 10 ms later it goes back, behind whatever came meanwhile. *)
Bounce ==
  /\ mainPc = "bounce"
  /\ iosQ' = Append(iosQ, Other(at))
  /\ Leave
  /\ UNCHANGED <<confVars, flowVars, verdict, mpStatus, ipsQ, workerVars, ioVars, histVars>>

(* resume_ip_Dual wakes a worker that sleeps; one that has checked its     *)
(* queue and is about to suspend itself does so all the same.              *)
ResumeIp(c) == wpc' = [wpc EXCEPT ![c] = IF @ = "asleep" THEN "woken" ELSE @]

(* Mutant: a run is submitted at every visit. *)
ExecuteAgain ==
  /\ Visiting("EXECUTE")
  /\ wake' = Set(wake, at, TRUE)
  /\ tasks' = Bump(tasks, at)
  /\ submitted' = Bump(submitted, at)
  /\ ResumeIp(at)
  /\ Disturb({Other(at)})
  /\ Within("poll")
  /\ UNCHANGED <<confVars, giFlow, light, verdict, mpStatus, iosQ, ipsQ, runStatus, ioVars,
                 raised, accepted, announced>>

(* GI_EXCUTE_AUTO_GI, first half: submit the run, once. *)
Execute ==
  /\ Visiting("EXECUTE")
  /\ IF wake[at]
       THEN UNCHANGED <<wake, tasks, submitted, wpc, disturbed>>
       ELSE /\ wake' = Set(wake, at, TRUE)
            /\ tasks' = Bump(tasks, at)
            /\ submitted' = Bump(submitted, at)
            /\ ResumeIp(at)
            /\ Disturb({Other(at)})
  /\ Within("poll")
  /\ UNCHANGED <<confVars, giFlow, light, verdict, mpStatus, iosQ, ipsQ, runStatus, ioVars,
                 raised, accepted, announced>>

(* Mutant: any status ends the wait. *)
PollAny ==
  /\ mainPc = "poll"
  /\ giFlow' = Set(giFlow, at, "RESULT")
  /\ Leave
  /\ UNCHANGED <<confVars, wake, light, verdict, mpStatus, iosQ, ipsQ, workerVars, ioVars,
                 histVars>>

(* Second half: getStatus_mp, and giFlow is written whatever it holds now. *)
Poll ==
  /\ mainPc = "poll"
  /\ giFlow' = Set(giFlow, at, IF mpStatus \in {0, 1} THEN "RESULT" ELSE "EXECUTE")
  /\ Leave
  /\ UNCHANGED <<confVars, wake, light, verdict, mpStatus, iosQ, ipsQ, workerVars, ioVars,
                 histVars>>

(* Mutant: the worker's message is looked at and left in its queue. *)
JudgePeek ==
  /\ Visiting("RESULT")
  /\ light' = Set(light, at, light[at] /\ ipsQ[at] = <<>>)
  /\ Within("verdict")
  /\ UNCHANGED <<confVars, giFlow, wake, verdict, mpStatus, iosQ, ipsQ, workerVars, ioVars,
                 histVars>>

(* GI_GET_TEST_RESULT: one message of the worker, if there is one, turns   *)
(* the light off (100 ms); what it says is only logged.                    *)
Judge ==
  /\ Visiting("RESULT")
  /\ IF ipsQ[at] = <<>>
       THEN UNCHANGED <<ipsQ, light>>
       ELSE ipsQ' = Set(ipsQ, at, Tail(ipsQ[at])) /\ light' = Set(light, at, FALSE)
  /\ Within("verdict")
  /\ UNCHANGED <<confVars, giFlow, wake, verdict, mpStatus, iosQ, workerVars, ioVars,
                 histVars>>

(* The verdict decides the Result output; without one the cycle waits. *)
Judged ==
  /\ mainPc = "verdict"
  /\ IF verdict[at] THEN Within("restart") ELSE Leave
  /\ UNCHANGED <<confVars, flowVars, verdict, mpStatus, iosQ, ipsQ, workerVars, ioVars,
                 histVars>>

(* Mutant: the cycle stays in GI_GET_TEST_RESULT after its answer. *)
RestartStays ==
  /\ mainPc = "restart"
  /\ announced' = IF autoDonePin[at] THEN Bump(announced, at) ELSE announced
  /\ Leave
  /\ UNCHANGED <<confVars, flowVars, verdict, mpStatus, iosQ, ipsQ, workerVars, ioVars,
                 raised, accepted, submitted, disturbed>>

(* ...500 ms later: AutoDone on, and its message published. *)
Restart ==
  /\ mainPc = "restart"
  /\ giFlow' = Set(giFlow, at, "START")
  /\ announced' = IF autoDonePin[at] THEN Bump(announced, at) ELSE announced
  /\ Leave
  /\ UNCHANGED <<confVars, wake, light, verdict, mpStatus, iosQ, ipsQ, workerVars, ioVars,
                 raised, accepted, submitted, disturbed>>

Main == Nothing \/ Start \/ Arm \/ Take \/ Accept \/ Bounce \/ Execute \/ Poll \/ Judge
        \/ Judged \/ Restart
-----------------------------------------------------------------------------
(* The camera workers, as far as runs go. *)

Goto(c, p) == wpc' = [wpc EXCEPT ![c] = p]

(* A pass begins: the status BOTH workers report with is reset. *)
WorkerBegin(c) ==
  /\ wpc[c] = "woken"
  /\ runStatus' = -1
  /\ Goto(c, "awake")
  /\ UNCHANGED <<confVars, flowVars, verdict, mpStatus, iosQ, ipsQ, tasks, mainVars, ioVars,
                 histVars>>

(* Mutant: a task is taken without asking whether there is one. *)
WorkerTakeUnchecked(c) ==
  /\ wpc[c] = "awake"
  /\ tasks' = [tasks EXCEPT ![c] = @ - 1]
  /\ Goto(c, "run")
  /\ UNCHANGED <<confVars, flowVars, verdict, mpStatus, iosQ, ipsQ, runStatus, mainVars,
                 ioVars, histVars>>

WorkerTake(c) ==
  /\ wpc[c] = "awake" /\ tasks[c] > 0
  /\ tasks' = [tasks EXCEPT ![c] = @ - 1]
  /\ Goto(c, "run")
  /\ UNCHANGED <<confVars, flowVars, verdict, mpStatus, iosQ, ipsQ, runStatus, mainVars,
                 ioVars, histVars>>

StatusOf(o) == CASE o = "noRecipe" -> 0 [] o = "broken" -> -1 [] o = "good" -> 1

(* Nothing recorded to replay, a step of the recipe failing, or all done:  *)
(* first the message and the status...                                     *)
WorkerEnd(c) ==
  /\ wpc[c] = "run"
  /\ \E o \in Outcomes :
       /\ ipsQ' = Set(ipsQ, c, Append(ipsQ[c], IF o = "good" THEN "Done" ELSE "Fail"))
       /\ runStatus' = StatusOf(o)
  /\ Goto(c, "post")
  /\ UNCHANGED <<confVars, flowVars, verdict, mpStatus, iosQ, tasks, mainVars, ioVars,
                 histVars>>

(* Mutant: the status is not handed over. *)
WorkerPostNothing(c) ==
  /\ wpc[c] = "post"
  /\ Goto(c, "awake")
  /\ UNCHANGED <<confVars, flowVars, verdict, mpStatus, iosQ, ipsQ, tasks, runStatus,
                 mainVars, ioVars, histVars>>

(* ...then resume_mp(bStatus_AutoRunMode), whatever it holds by now.       *)
WorkerPost(c) ==
  /\ wpc[c] = "post"
  /\ mpStatus' = runStatus
  /\ Goto(c, "awake")
  /\ UNCHANGED <<confVars, flowVars, verdict, iosQ, ipsQ, tasks, runStatus, mainVars, ioVars,
                 histVars>>

(* The queue is empty; it still is at a second look, or a new pass begins; *)
(* and then suspend_ip_Dual.                                               *)
WorkerDrained(c) ==
  /\ wpc[c] = "awake" /\ tasks[c] = 0
  /\ Goto(c, "drained")
  /\ UNCHANGED <<confVars, flowVars, verdict, mpStatus, iosQ, ipsQ, tasks, runStatus,
                 mainVars, ioVars, histVars>>

WorkerCheck(c) ==
  /\ wpc[c] = "drained"
  /\ Goto(c, IF tasks[c] = 0 THEN "checked" ELSE "woken")
  /\ UNCHANGED <<confVars, flowVars, verdict, mpStatus, iosQ, ipsQ, tasks, runStatus,
                 mainVars, ioVars, histVars>>

WorkerPark(c) ==
  /\ wpc[c] = "checked"
  /\ Goto(c, "asleep")
  /\ UNCHANGED <<confVars, flowVars, verdict, mpStatus, iosQ, ipsQ, tasks, runStatus,
                 mainVars, ioVars, histVars>>

Worker(c) == \/ WorkerBegin(c) \/ WorkerTake(c) \/ WorkerEnd(c) \/ WorkerPost(c)
             \/ WorkerDrained(c) \/ WorkerCheck(c) \/ WorkerPark(c)
-----------------------------------------------------------------------------
(* Triggers, and the commands that reach the cycle. *)

NumRaised == raised[0] + raised[1]

Raise(c) ==
  /\ NumRaised < MaxTriggers
  /\ iosQ' = Append(iosQ, c)
  /\ raised' = Bump(raised, c)
  /\ UNCHANGED <<confVars, flowVars, verdict, mpStatus, ipsQ, workerVars, mainVars, ioVars,
                 accepted, submitted, announced, disturbed>>

(* REPORT_TEST_RESULT on topic t, with a result that is a verdict or not.  *)
(* Camera 0's field is always written; camera 1's as well if the command   *)
(* has a CameraId of 1 or 2.                                               *)
ReportResult(v, withId, t) ==
  /\ verdict' = [c \in Cameras |-> IF c = 0 \/ withId THEN v ELSE verdict[c]]
  /\ iosCam' = t
  /\ UNCHANGED <<confVars, flowVars, mpStatus, iosQ, ipsQ, workerVars, mainVars, pendingAuto,
                 nAuto, nCommanded, histVars>>

(* AUTO_TEST_SET_MODE on topic t: the parser switches both cameras... *)
AutoTestSetMode(on, t) ==
  /\ nAuto < MaxAutoTests
  /\ nAuto' = nAuto + 1
  /\ active' = on
  /\ iosCam' = t
  /\ pendingAuto' = pendingAuto + 1
  /\ UNCHANGED <<autoMode, autoDonePin, flowVars, verdict, mpStatus, iosQ, ipsQ, workerVars,
                 mainVars, nCommanded, histVars>>

(* ...and the io thread restarts camera 0, if the topic last heard from,   *)
(* by then, is camera 0's.  No branch restarts camera 1.                   *)
IoAutoTest ==
  /\ pendingAuto > 0
  /\ pendingAuto' = pendingAuto - 1
  /\ giFlow' = IF iosCam = 0 THEN Set(giFlow, 0, "START") ELSE giFlow
  /\ Disturb(IF iosCam = 0 /\ giFlow[0] \in {"EXECUTE", "RESULT"} THEN {0} ELSE {})
  /\ UNCHANGED <<confVars, wake, light, verdict, mpStatus, iosQ, ipsQ, workerVars, mainVars,
                 iosCam, nAuto, nCommanded, raised, accepted, submitted, announced>>

(* DIN_SET_MODE with SelectMode "Glue inspection". *)
DinSetMode ==
  /\ autoMode' = TRUE
  /\ UNCHANGED <<active, autoDonePin, flowVars, verdict, mpStatus, iosQ, ipsQ, workerVars,
                 mainVars, ioVars, histVars>>

(* DOUT_SET_MODE of an output of camera c. *)
DoutSetMode(c, b) ==
  /\ autoDonePin' = Set(autoDonePin, c, b)
  /\ UNCHANGED <<active, autoMode, flowVars, verdict, mpStatus, iosQ, ipsQ, workerVars,
                 mainVars, ioVars, histVars>>

(* The backend commands a run of camera c itself (FLAGE_TRIGGERMODETYPE on *)
(* the camera's topic): the same task on the same queue, in any state of   *)
(* the cycle.  Its two halves, queueing and waking, are CommandHandoff's.  *)
CommandRun(c) ==
  /\ nCommanded < MaxCommandRuns
  /\ nCommanded' = nCommanded + 1
  /\ iosCam' = c
  /\ tasks' = Bump(tasks, c)
  /\ ResumeIp(c)
  /\ Disturb(Cameras)
  /\ UNCHANGED <<confVars, flowVars, verdict, mpStatus, iosQ, ipsQ, runStatus, mainVars,
                 pendingAuto, nAuto, raised, accepted, submitted, announced>>

Commands ==
  \/ \E v, withId \in BOOLEAN, t \in Cameras : ReportResult(v, withId, t)
  \/ \E on \in BOOLEAN, t \in Cameras : AutoTestSetMode(on, t)
  \/ DinSetMode
  \/ \E c \in PinnedCams, b \in DoutModes : DoutSetMode(c, b)
  \/ \E c \in Cameras : CommandRun(c)

Next == Main \/ (\E c \in Cameras : Worker(c)) \/ (\E c \in TriggerCams : Raise(c)) \/ IoAutoTest
        \/ Commands

Spec == Init /\ [][Next]_vars

(* The threads keep running; no trigger and no command has to come. *)
Fairness ==
  /\ WF_vars(Main)
  /\ \A c \in Cameras : WF_vars(Worker(c))
  /\ WF_vars(IoAutoTest)

FairSpec == Spec /\ Fairness
-----------------------------------------------------------------------------
(* Properties. *)

(* No trigger is lost, invented or turned into the other camera's, however *)
(* the two handlers pass it to and fro: what was raised for a camera was   *)
(* accepted, is queued, or is in a handler's hands.                        *)
Queued(c) == Cardinality({i \in DOMAIN iosQ : iosQ[i] = c})
InHand(c) == IF <<mainPc, at>> \in {<<"accept", c>>, <<"bounce", Other(c)>>} THEN 1 ELSE 0
TriggerConservation ==
  \A c \in Cameras : raised[c] = accepted[c] + Queued(c) + InHand(c)

(* A trigger is answered by at most one run, and one AutoDone: restarts by *)
(* AUTO_TEST_SET_MODE in the middle of a cycle never make the flow submit  *)
(* or announce again on an old trigger.                                    *)
OneRunPerTrigger    == \A c \in Cameras : submitted[c] <= accepted[c]
OneAnswerPerTrigger == \A c \in Cameras : announced[c] <= accepted[c]

(* An armed cycle submits its run: a camera that waits for a trigger never *)
(* still has the wake flag of its last cycle, which would make the next    *)
(* run wait for a result nobody computes.                                  *)
WaitMeansUnwoken == \A c \in Cameras : giFlow[c] = "WAIT" => ~wake[c]

(* The next three are about a camera that is not disturbed: since its cycle *)
(* last began at rest, no run of the other camera was submitted, none was  *)
(* commanded by the backend, and no restart cut its cycle off between the  *)
(* trigger and the answer.  Any of these may break them, for as long as it *)
(* takes the cycle to begin at rest again.                                 *)

(* It leaves GI_EXCUTE_AUTO_GI when the run it submitted is over.          *)
DoneMeansOwnRunDone ==
  [][\A c \in Cameras : ~disturbed[c] /\ giFlow[c] = "EXECUTE" /\ giFlow'[c] = "RESULT" =>
       RunOver(c)]_vars

(* It takes its pictures in the light: from the start of a run to its end  *)
(* the cycle leaves the light on.                                          *)
LitWhileRunning == \A c \in Cameras : ~disturbed[c] /\ wpc[c] = "run" => light[c]

(* Its cycle starts from nothing: while it waits for a trigger, no message *)
(* and no run of an earlier cycle is left that it could take for its own.  *)
CleanSlate ==
  \A c \in Cameras : ~disturbed[c] /\ giFlow[c] = "WAIT" => ipsQ[c] = <<>> /\ RunOver(c)

(* A trigger queued for a camera that waits is accepted, whatever triggers *)
(* of the other camera stand before it in the queue.                       *)
TriggerAccepted ==
  \A c \in PinnedCams :
    (giFlow[c] = "WAIT" /\ c \in {iosQ[i] : i \in DOMAIN iosQ})
      ~> (giFlow[c] = "EXECUTE" \/ ~active)

(* A run that was submitted leads on to the verdict, unless its worker     *)
(* went to sleep on it (CommandHandoff), which nothing in the cycle        *)
(* repairs, or its recipe broke, which the cycle is told in vain (see      *)
(* FailIndicated).                                                         *)
StrandedRun(c) == wpc[c] = "asleep" /\ tasks[c] > 0
Broke(c) == wake[c] /\ RunOver(c) /\ runStatus = StatusOf("broken")
RunAnswered ==
  \A c \in PinnedCams :
    (giFlow[c] = "EXECUTE") ~> (giFlow[c] = "RESULT" \/ StrandedRun(c) \/ Broke(c) \/ ~active)

(* "This numbe of 1 is mean done the AutiRun Mode flow" (mainCtl.c:1333    *)
(* and 1540): the status that ends GI_EXCUTE_AUTO_GI says that the run the *)
(* camera submitted is done.                                               *)
StatusMeansDone ==
  [][\A c \in Cameras : giFlow[c] = "EXECUTE" /\ giFlow'[c] = "RESULT" => RunOver(c)]_vars

(* When both cameras wait ("Test Status: VB Ready", mainCtl.c:1263) a      *)
(* queued trigger is accepted by one of them.                              *)
BothWait == \A c \in Cameras : giFlow[c] = "WAIT"
ReadyAccepts == (BothWait /\ iosQ # <<>>) ~> (~BothWait \/ ~active)

(* "send msgQ to mainCtl for indicating the fail of auto mode"             *)
(* (mainCtl.c:2060): a worker's message is read by the cycle.              *)
FailIndicated ==
  \A c \in PinnedCams : (ipsQ[c] # <<>>) ~> (ipsQ[c] = <<>> \/ ~active)

(* "firstall, check msqIosID whether exists remaining queue"               *)
(* (mainCtl.c:1245): GI_START leaves no old trigger in innerQ_IOS.         *)
StartDrains == [][mainPc = "visit" /\ mainPc' = "arm" => iosQ' = <<>>]_vars
=============================================================================
