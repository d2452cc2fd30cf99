--------------------------- MODULE CommandHandoff ---------------------------
(***************************************************************************)
(* How a command travels from the MQTT callback to the thread that runs    *)
(* it, and how that thread goes to sleep and is woken.                     *)
(*                                                                         *)
(*   subscriber  ext_json_parse_Dual: puts the command's mode record and   *)
(*               its task on the camera's ExModeQ and TasksQ (or an IO     *)
(*               command on IO_JsonQ), a wake-up ticket on the camera's    *)
(*               JsonQ and a token on innerQ_Main;                         *)
(*   mainCtl     takes one token per loop, spends at most one ticket per   *)
(*               camera on resume_ip_Dual, calls resume_io if IO work is   *)
(*               queued, and lets the inspection flows submit runs of      *)
(*               their own;                                                *)
(*   workers     ips_process_Dual (one per camera) and ios_process: wait   *)
(*               on the suspend flag, drain the queue, suspend themselves; *)
(*   main()      suspends the three workers after creating them, and its   *)
(*               signal handler suspends, closes and joins them.           *)
(*                                                                         *)
(* Every queue operation and every flag update is one locked call of the   *)
(* code, and an action does at most one of those another thread can see.   *)
(***************************************************************************)
EXTENDS Integers, Sequences

CONSTANTS
  NumCameras,   \* 2 in the code
  MaxCommands,  \* bound: MQTT commands in a behaviour
  MaxRuns,      \* bound: runs the inspection flows submit in a behaviour
  MayExit       \* bound: whether SIGINT may arrive

ASSUME NumCamerasAssumption == NumCameras \in Nat \ {0}
ASSUME BoundsAssumption == MaxCommands \in Nat /\ MaxRuns \in Nat /\ MayExit \in BOOLEAN

Cameras == 0 .. NumCameras - 1
Io      == NumCameras            \* the ios_process thread
Workers == 0 .. NumCameras       \* in the order main() suspends and closes them

(* A task, or the mode record queued for it: who submitted it, and its number. *)
Task == {"sub", "flow"} \X Nat
NoTask == <<"sub", 0>>  \* what cur holds between two tasks

WorkerPC == {"top", "gate", "drain", "exmode", "run", "idle", "park", "exit"}
SubPC    == {"ready", "task", "json", "token"}
MainPC   == {"poll", "wake", "flow", "flowTask", "flowWake", "exit"}
ExitPC   == {"up", "suspend", "close", "closeMp", "join", "gone"}

VARIABLES
  tasksQ,       \* TasksQ_Dual of each camera; IO_JsonQ for Io
  exModeQ,      \* ExModeQ_Dual of each camera
  jsonQ,        \* length of each JsonQ_Dual: wake-up tickets
  mainQ,        \* length of innerQ_Main: tokens
  suspendFlag,  \* ip_suspendFlag_Dual, io_suspendFlag
  doneFlag,     \* ip_doneFlag_Dual, io_doneFlag
  mpDone,       \* mp_doneFlag
  wpc, cur,     \* each worker: where it is, the task it took last
  subPc, subTo, \* subscriber: where it is, the worker its command is for
  mainPc, mainCam, \* mainCtl: where it is, the camera it is at
  boot,         \* main(): the next worker to suspend after creation
  exitPc, exitAt,  \* sigExit_main: where it is, the worker it is at
  nCmd, nRun,   \* commands received, runs submitted
  overlap       \* cameras on which two submitters were between their two
                \* enqueues at once (history, read by no action)

queueVars == <<tasksQ, exModeQ, jsonQ, mainQ>>
workVars  == <<wpc, cur>>
subVars   == <<subPc, subTo, nCmd>>
mainVars  == <<mainPc, mainCam, nRun>>
exitVars  == <<boot, exitPc, exitAt, mpDone, doneFlag>>
vars == <<queueVars, suspendFlag, workVars, subVars, mainVars, exitVars, overlap>>

TypeOK ==
  /\ tasksQ \in [Workers -> Seq(Task)]
  /\ exModeQ \in [Cameras -> Seq(Task)]
  /\ jsonQ \in [Cameras -> Nat]
  /\ mainQ \in Nat
  /\ suspendFlag \in [Workers -> BOOLEAN]
  /\ doneFlag \in [Workers -> BOOLEAN]
  /\ mpDone \in BOOLEAN
  /\ wpc \in [Workers -> WorkerPC]
  /\ cur \in [Workers -> Task]
  /\ subPc \in SubPC /\ subTo \in Workers
  /\ mainPc \in MainPC /\ mainCam \in Cameras
  /\ boot \in 0 .. NumCameras + 1
  /\ exitPc \in ExitPC /\ exitAt \in Workers
  /\ nCmd \in 0 .. MaxCommands /\ nRun \in 0 .. MaxRuns
  /\ overlap \in [Cameras -> BOOLEAN]

(* The suspend flags are zero-initialised: every worker makes a first,     *)
(* empty pass before it parks itself.                                      *)
Init ==
  /\ tasksQ = [w \in Workers |-> <<>>]
  /\ exModeQ = [c \in Cameras |-> <<>>]
  /\ jsonQ = [c \in Cameras |-> 0]
  /\ mainQ = 0
  /\ suspendFlag = [w \in Workers |-> FALSE]
  /\ doneFlag = [w \in Workers |-> FALSE]
  /\ mpDone = FALSE
  /\ wpc = [w \in Workers |-> "top"]
  /\ cur = [w \in Workers |-> NoTask]
  /\ subPc = "ready" /\ subTo = Io
  /\ mainPc = "poll" /\ mainCam = 0
  /\ boot = 0
  /\ exitPc = "up" /\ exitAt = 0
  /\ nCmd = 0 /\ nRun = 0
  /\ overlap = [c \in Cameras |-> FALSE]

Suspend(w) == suspendFlag' = [suspendFlag EXCEPT ![w] = TRUE]
Resume(w)  == suspendFlag' = [suspendFlag EXCEPT ![w] = FALSE]
EnQ(q, w, x) == [q EXCEPT ![w] = Append(@, x)]
DeQ(q, w)    == [q EXCEPT ![w] = Tail(@)]
-----------------------------------------------------------------------------
(* The subscriber thread: ext_message_callback_Dual for one message.  The  *)
(* callback stops coming once sigExit_main has released the client.        *)

Connected == exitPc \notin {"join", "gone"}

Receive(w) ==
  /\ subPc = "ready" /\ Connected /\ nCmd < MaxCommands
  /\ nCmd' = nCmd + 1
  /\ subTo' = w

(* json_parse_IOS: a known IO command. *)
SubIo ==
  /\ Receive(Io)
  /\ tasksQ' = EnQ(tasksQ, Io, <<"sub", nCmd + 1>>)
  /\ subPc' = "token"
  /\ UNCHANGED <<exModeQ, jsonQ, mainQ, suspendFlag, workVars, mainVars, exitVars, overlap>>

(* setAlgo_ParamAssign_Dual: a known IPS command queues its mode record... *)
SubExMode(c) ==
  /\ Receive(c)
  /\ exModeQ' = EnQ(exModeQ, c, <<"sub", nCmd + 1>>)
  /\ overlap' = [overlap EXCEPT ![c] = @ \/ (mainPc = "flowTask" /\ mainCam = c)]
  /\ subPc' = "task"
  /\ UNCHANGED <<tasksQ, jsonQ, mainQ, suspendFlag, workVars, mainVars, exitVars>>

(* ...and then its task (setAlgo_MethodAssign_Dual). *)
SubTask ==
  /\ subPc = "task"
  /\ tasksQ' = EnQ(tasksQ, subTo, <<"sub", nCmd>>)
  /\ subPc' = "json"
  /\ UNCHANGED <<exModeQ, jsonQ, mainQ, suspendFlag, workVars, subTo, nCmd, mainVars,
                 exitVars, overlap>>

(* A command neither table knows queues no task, but a ticket all the same. *)
SubUnknown(c) ==
  /\ Receive(c)
  /\ subPc' = "json"
  /\ UNCHANGED <<queueVars, suspendFlag, workVars, mainVars, exitVars, overlap>>

(* Mutant: the ticket is queued but the token is forgotten. *)
SubJsonNoToken ==
  /\ subPc = "json"
  /\ jsonQ' = [jsonQ EXCEPT ![subTo] = @ + 1]
  /\ subPc' = "ready"
  /\ UNCHANGED <<tasksQ, exModeQ, mainQ, suspendFlag, workVars, subTo, nCmd, mainVars,
                 exitVars, overlap>>

SubJson ==
  /\ subPc = "json"
  /\ jsonQ' = [jsonQ EXCEPT ![subTo] = @ + 1]
  /\ subPc' = "token"
  /\ UNCHANGED <<tasksQ, exModeQ, mainQ, suspendFlag, workVars, subTo, nCmd, mainVars,
                 exitVars, overlap>>

SubToken ==
  /\ subPc = "token"
  /\ mainQ' = mainQ + 1
  /\ subPc' = "ready"
  /\ UNCHANGED <<tasksQ, exModeQ, jsonQ, suspendFlag, workVars, subTo, nCmd, mainVars,
                 exitVars, overlap>>

SubFinish == SubTask \/ SubJson \/ SubToken
Sub == SubIo \/ (\E c \in Cameras : SubExMode(c) \/ SubUnknown(c)) \/ SubFinish
-----------------------------------------------------------------------------
(* The mainCtl thread. *)

(* The cameras are visited in order; after the last one comes phase p. *)
AfterCamera(same, p) ==
  IF mainCam + 1 < NumCameras
    THEN mainPc' = same /\ mainCam' = mainCam + 1
    ELSE mainPc' = p /\ mainCam' = 0

(* Loop test and innerQ_Main_IsEmpty/DeQ; the token's first use is         *)
(* resume_io when IO work is queued.  Only mainCtl takes tokens, so taking *)
(* one and looking at IO_JsonQ are one step.                               *)
MainPoll ==
  /\ mainPc = "poll" /\ ~mpDone
  /\ IF mainQ = 0
       THEN mainPc' = "flow" /\ UNCHANGED <<mainQ, suspendFlag>>
       ELSE /\ mainPc' = "wake"
            /\ mainQ' = mainQ - 1
            /\ IF tasksQ[Io] # <<>> THEN Resume(Io) ELSE UNCHANGED suspendFlag
  /\ UNCHANGED <<tasksQ, exModeQ, jsonQ, workVars, subVars, mainCam, nRun, exitVars, overlap>>

MainExit ==
  /\ mainPc = "poll" /\ mpDone
  /\ mainPc' = "exit"
  /\ UNCHANGED <<queueVars, suspendFlag, workVars, subVars, mainCam, nRun, exitVars, overlap>>

(* Mutant: a ticket is taken without asking whether there is one. *)
MainWakeUnchecked ==
  /\ mainPc = "wake"
  /\ jsonQ' = [jsonQ EXCEPT ![mainCam] = @ - 1]
  /\ Resume(mainCam)
  /\ AfterCamera("wake", "flow")
  /\ UNCHANGED <<tasksQ, exModeQ, mainQ, workVars, subVars, nRun, exitVars, overlap>>

(* JsonQ_DeQ_Dual(c), and resume_ip_Dual(c) if there was a ticket. *)
MainWake ==
  /\ mainPc = "wake"
  /\ IF jsonQ[mainCam] > 0
       THEN jsonQ' = [jsonQ EXCEPT ![mainCam] = @ - 1] /\ Resume(mainCam)
       ELSE UNCHANGED <<jsonQ, suspendFlag>>
  /\ AfterCamera("wake", "flow")
  /\ UNCHANGED <<tasksQ, exModeQ, mainQ, workVars, subVars, nRun, exitVars, overlap>>

(* Process_Flow_Handler(_Dual) with nothing to submit... *)
FlowSkip ==
  /\ mainPc = "flow"
  /\ AfterCamera("flow", "poll")
  /\ UNCHANGED <<queueVars, suspendFlag, workVars, subVars, nRun, exitVars, overlap>>

(* Mutant: a run is submitted without its mode record. *)
FlowExModeOmitted ==
  /\ mainPc = "flow" /\ nRun < MaxRuns
  /\ nRun' = nRun + 1
  /\ mainPc' = "flowTask"
  /\ UNCHANGED <<queueVars, suspendFlag, workVars, subVars, mainCam, exitVars, overlap>>

(* ...or in GI_EXCUTE_AUTO_GI: mode record, task, resume. *)
FlowExMode ==
  /\ mainPc = "flow" /\ nRun < MaxRuns
  /\ nRun' = nRun + 1
  /\ exModeQ' = EnQ(exModeQ, mainCam, <<"flow", nRun + 1>>)
  /\ overlap' = [overlap EXCEPT ![mainCam] = @ \/ (subPc = "task" /\ subTo = mainCam)]
  /\ mainPc' = "flowTask"
  /\ UNCHANGED <<tasksQ, jsonQ, mainQ, suspendFlag, workVars, subVars, mainCam, exitVars>>

FlowTask ==
  /\ mainPc = "flowTask"
  /\ tasksQ' = EnQ(tasksQ, mainCam, <<"flow", nRun>>)
  /\ mainPc' = "flowWake"
  /\ UNCHANGED <<exModeQ, jsonQ, mainQ, suspendFlag, workVars, subVars, mainCam, nRun,
                 exitVars, overlap>>

(* Mutant: a run is submitted without a resume. *)
FlowWakeOmitted ==
  /\ mainPc = "flowWake"
  /\ AfterCamera("flow", "poll")
  /\ UNCHANGED <<queueVars, suspendFlag, workVars, subVars, nRun, exitVars, overlap>>

FlowWake ==
  /\ mainPc = "flowWake"
  /\ Resume(mainCam)
  /\ AfterCamera("flow", "poll")
  /\ UNCHANGED <<queueVars, workVars, subVars, nRun, exitVars, overlap>>

Main == MainPoll \/ MainExit \/ MainWake \/ FlowSkip \/ FlowExMode \/ FlowTask \/ FlowWake
-----------------------------------------------------------------------------
(* The workers: ips_process_Dual for a camera, ios_process for Io. *)

Goto(w, p) == wpc' = [wpc EXCEPT ![w] = p]

(* while (!doneFlag) *)
WorkerTop(w) ==
  /\ wpc[w] = "top"
  /\ Goto(w, IF doneFlag[w] THEN "exit" ELSE "gate")
  /\ UNCHANGED <<queueVars, suspendFlag, cur, subVars, mainVars, exitVars, overlap>>

(* while (suspendFlag != 0) pthread_cond_wait *)
WorkerGate(w) ==
  /\ wpc[w] = "gate" /\ ~suspendFlag[w]
  /\ Goto(w, "drain")
  /\ UNCHANGED <<queueVars, suspendFlag, cur, subVars, mainVars, exitVars, overlap>>

WorkerTake(w) ==
  /\ wpc[w] = "drain" /\ tasksQ[w] # <<>>
  /\ tasksQ' = DeQ(tasksQ, w)
  /\ cur' = [cur EXCEPT ![w] = Head(tasksQ[w])]
  /\ Goto(w, IF w = Io THEN "run" ELSE "exmode")
  /\ UNCHANGED <<exModeQ, jsonQ, mainQ, suspendFlag, subVars, mainVars, exitVars, overlap>>

(* Mutant: the mode record is read and left in its queue. *)
WorkerExModePeek(w) ==
  /\ wpc[w] = "exmode"
  /\ Goto(w, "run")
  /\ UNCHANGED <<queueVars, suspendFlag, cur, subVars, mainVars, exitVars, overlap>>

(* ExModeQ_DeQ_Dual: leaves the previous mode in place if the queue is empty. *)
WorkerExMode(w) ==
  /\ wpc[w] = "exmode"
  /\ exModeQ' = IF exModeQ[w] = <<>> THEN exModeQ ELSE DeQ(exModeQ, w)
  /\ Goto(w, "run")
  /\ UNCHANGED <<tasksQ, jsonQ, mainQ, suspendFlag, cur, subVars, mainVars, exitVars, overlap>>

(* Execute the task.  A normal camera task that fails leaves the drain     *)
(* loop (break); a run of the flow and an IO command never do.             *)
WorkerRun(w) ==
  /\ wpc[w] = "run"
  /\ \/ Goto(w, "drain")
     \/ w # Io /\ cur[w][1] = "sub" /\ Goto(w, "idle")
  /\ cur' = [cur EXCEPT ![w] = NoTask]
  /\ UNCHANGED <<queueVars, suspendFlag, subVars, mainVars, exitVars, overlap>>

WorkerDrained(w) ==
  /\ wpc[w] = "drain" /\ tasksQ[w] = <<>>
  /\ Goto(w, "idle")
  /\ UNCHANGED <<queueVars, suspendFlag, cur, subVars, mainVars, exitVars, overlap>>

(* Mutant: no second look at the queue before parking. *)
WorkerIdleBlind(w) ==
  /\ wpc[w] = "idle"
  /\ Goto(w, IF doneFlag[w] THEN "exit" ELSE "park")
  /\ UNCHANGED <<queueVars, suspendFlag, cur, subVars, mainVars, exitVars, overlap>>

(* The second look at the queue: leave, park, or go round again. *)
WorkerIdle(w) ==
  /\ wpc[w] = "idle"
  /\ Goto(w, IF tasksQ[w] # <<>> THEN "top" ELSE IF doneFlag[w] THEN "exit" ELSE "park")
  /\ UNCHANGED <<queueVars, suspendFlag, cur, subVars, mainVars, exitVars, overlap>>

(* suspend_ip_Dual / suspend_io, called by the worker on itself. *)
WorkerPark(w) ==
  /\ wpc[w] = "park"
  /\ Suspend(w)
  /\ Goto(w, "top")
  /\ UNCHANGED <<queueVars, cur, subVars, mainVars, exitVars, overlap>>

Worker(w) == \/ WorkerTop(w) \/ WorkerGate(w) \/ WorkerTake(w) \/ WorkerExMode(w)
             \/ WorkerRun(w) \/ WorkerDrained(w) \/ WorkerIdle(w) \/ WorkerPark(w)
-----------------------------------------------------------------------------
(* The main() thread: start-up, and sigExit_main, which interrupts it. *)

BootSuspend ==
  /\ exitPc = "up" /\ boot \in Workers
  /\ Suspend(boot)
  /\ boot' = boot + 1
  /\ UNCHANGED <<queueVars, workVars, subVars, mainVars, exitPc, exitAt, mpDone, doneFlag,
                 overlap>>

SigExit ==
  /\ exitPc = "up" /\ MayExit
  /\ exitPc' = "suspend"
  /\ UNCHANGED <<queueVars, suspendFlag, workVars, subVars, mainVars, boot, exitAt, mpDone,
                 doneFlag, overlap>>

AfterWorker(p) ==
  IF exitAt = Io THEN exitPc' = p /\ exitAt' = 0
                 ELSE exitPc' = exitPc /\ exitAt' = exitAt + 1

ExitSuspend ==
  /\ exitPc = "suspend"
  /\ Suspend(exitAt)
  /\ AfterWorker("close")
  /\ UNCHANGED <<queueVars, workVars, subVars, mainVars, boot, mpDone, doneFlag, overlap>>

(* Mutant: the done flag is set, the suspend flag stays. *)
ExitCloseNoResume ==
  /\ exitPc = "close"
  /\ doneFlag' = [doneFlag EXCEPT ![exitAt] = TRUE]
  /\ AfterWorker("closeMp")
  /\ UNCHANGED <<queueVars, suspendFlag, workVars, subVars, mainVars, boot, mpDone, overlap>>

(* close_ip_Dual / close_io *)
ExitClose ==
  /\ exitPc = "close"
  /\ Resume(exitAt)
  /\ doneFlag' = [doneFlag EXCEPT ![exitAt] = TRUE]
  /\ AfterWorker("closeMp")
  /\ UNCHANGED <<queueVars, workVars, subVars, mainVars, boot, mpDone, overlap>>

(* close_mp, and ext_mqtt_release *)
ExitCloseMp ==
  /\ exitPc = "closeMp"
  /\ mpDone' = TRUE
  /\ exitPc' = "join"
  /\ UNCHANGED <<queueVars, suspendFlag, workVars, subVars, mainVars, boot, exitAt, doneFlag,
                 overlap>>

(* pthread_join of the workers, the subscriber and mainCtl; then exit(1). *)
ExitJoin ==
  /\ exitPc = "join"
  /\ \A w \in Workers : wpc[w] = "exit"
  /\ subPc = "ready" /\ mainPc = "exit"
  /\ exitPc' = "gone"
  /\ UNCHANGED <<queueVars, suspendFlag, workVars, subVars, mainVars, boot, exitAt, mpDone,
                 doneFlag, overlap>>

ExitRest == ExitSuspend \/ ExitClose \/ ExitCloseMp \/ ExitJoin

Next == Sub \/ Main \/ (\E w \in Workers : Worker(w)) \/ BootSuspend \/ SigExit \/ ExitRest

Spec == Init /\ [][Next]_vars

(* Every thread is scheduled again and again, and a message once received  *)
(* is handled to the end.  Nothing makes a message or a signal arrive.     *)
Fairness ==
  /\ WF_vars(SubFinish)
  /\ WF_vars(Main)
  /\ \A w \in Workers : WF_vars(Worker(w))
  /\ WF_vars(BootSuspend)
  /\ WF_vars(ExitRest)

FairSpec == Spec /\ Fairness
-----------------------------------------------------------------------------
(* Properties. *)

(* A worker that took a task always finds a mode record for it: it never   *)
(* runs a task under the mode that an earlier one left in iEnbExMode.      *)
ModeRecordPresent == \A c \in Cameras : wpc[c] = "exmode" => exModeQ[c] # <<>>

(* And the record is the task's own, on a camera where the subscriber and  *)
(* the inspection flow never submitted at the same time: ExModeQ and       *)
(* TasksQ are two queues, filled by two unrelated lock acquisitions.       *)
SerialSubmissionsPair ==
  \A c \in Cameras :
    wpc[c] = "exmode" /\ ~overlap[c] /\ exModeQ[c] # <<>> => Head(exModeQ[c]) = cur[c]

(* When innerQ_Main is empty and nobody is in the middle of handling a     *)
(* command, no ticket is left behind: one token is enough for every camera *)
(* although mainCtl takes at most one ticket per camera with it.           *)
NoForgottenTicket ==
  mainQ = 0 /\ mainPc \in {"poll", "flow"} /\ subPc = "ready" => \A c \in Cameras : jsonQ[c] = 0

(* A resume of worker w is still to come from what is queued or under way. *)
ResumeComing(w) ==
  IF w = Io
    THEN mainQ > 0 \/ subPc = "token"
    ELSE \/ jsonQ[w] > 0 /\ (mainQ > 0 \/ subPc = "token" \/ (mainPc = "wake" /\ mainCam <= w))
         \/ subPc \in {"task", "json"} /\ subTo = w
         \/ mainPc \in {"flowTask", "flowWake"} /\ mainCam = w

(* Work is queued for a sleeping worker that nobody is going to wake. *)
Stranded(w) ==
  /\ exitPc = "up"
  /\ wpc[w] \in {"top", "gate"} /\ suspendFlag[w]
  /\ tasksQ[w] # <<>>
  /\ ~ResumeComing(w)

(* Neither mainCtl nor the subscriber ever strands a worker's queue: each  *)
(* task they queue is followed by a resume of its worker.  What strands    *)
(* work is the worker's own parking, or main()'s start-up suspend, when it *)
(* comes after that resume.                                                *)
OnlySuspendStrands ==
  [][\A w \in Workers : ~Stranded(w) /\ Stranded(w)' => UNCHANGED <<subVars, mainVars>>]_vars

(* A resume that finds the worker waiting is never lost: the worker wakes  *)
(* and empties its queue, teardown included, unless it is told to leave.   *)
ResumeHonoured ==
  \A w \in Workers :
    (boot \notin Workers /\ wpc[w] = "gate" /\ ~suspendFlag[w])
      ~> (tasksQ[w] = <<>> \/ wpc[w] = "exit")

(* Teardown ends: the join of sigExit_main finds every worker gone,        *)
(* however its suspend and close calls interleave with a worker that is    *)
(* just parking itself.                                                    *)
TeardownJoins == (exitPc = "suspend") ~> (exitPc = "gone")

(* What resume_ip_Dual and resume_io say they do ("tell the thread to      *)
(* resume"): a queued task is eventually taken.                            *)
QueuedTaskTaken ==
  \A w \in Workers : (boot \notin Workers /\ tasksQ[w] # <<>>)
                       ~> (tasksQ[w] = <<>> \/ exitPc # "up")
=============================================================================
