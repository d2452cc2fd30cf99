------------------------ MODULE CommandHandoff_proofs -----------------------
(***************************************************************************)
(* What holds of CommandHandoff for every number of cameras, commands and  *)
(* runs.                                                                   *)
(***************************************************************************)
EXTENDS CommandHandoff, TLAPS

(* The thread numbering: cameras first, the io thread last. *)
LEMMA ThreadNumbers ==
  /\ Cameras \subseteq Workers /\ Io \in Workers /\ Io \notin Cameras
  /\ 0 \in Cameras /\ 0 \in Workers
  /\ \A w \in Workers : w # Io => w \in Cameras /\ w + 1 \in Workers
BY NumCamerasAssumption DEF Cameras, Workers, Io

LEMMA Tasks == NoTask \in Task /\ \A n \in Nat : <<"sub", n>> \in Task /\ <<"flow", n>> \in Task
BY DEF Task, NoTask

(* Enqueueing and dequeueing keep an array of queues well formed. *)
LEMMA EnQType ==
  ASSUME NEW S, NEW E, NEW q \in [S -> Seq(E)], NEW w \in S, NEW x \in E
  PROVE  EnQ(q, w, x) \in [S -> Seq(E)]
BY DEF EnQ

LEMMA DeQType ==
  ASSUME NEW S, NEW E, NEW q \in [S -> Seq(E)], NEW w \in S, q[w] # <<>>
  PROVE  DeQ(q, w) \in [S -> Seq(E)] /\ Head(q[w]) \in E
BY DEF DeQ

(* The two counters that walk over the cameras and over the workers. *)
LEMMA AfterCameraType ==
  ASSUME mainCam \in Cameras, NEW p, NEW r, AfterCamera(p, r)
  PROVE  mainCam' \in Cameras /\ mainPc' \in {p, r}
BY NumCamerasAssumption DEF AfterCamera, Cameras

LEMMA AfterWorkerType ==
  ASSUME exitAt \in Workers, NEW p, AfterWorker(p)
  PROVE  exitAt' \in Workers /\ exitPc' \in {p, exitPc}
BY ThreadNumbers DEF AfterWorker

(* The states of CommandHandoff are well formed: in particular no queue    *)
(* hands out an element it does not have, and no ticket count goes below 0.*)
THEOREM TypeCorrect == Spec => []TypeOK
<1> USE DEF queueVars, workVars, subVars, mainVars, exitVars
<1>1. Init => TypeOK
  BY ThreadNumbers, Tasks, BoundsAssumption, NumCamerasAssumption
     DEF Init, TypeOK, WorkerPC, SubPC, MainPC, ExitPC
<1>2. TypeOK /\ [Next]_vars => TypeOK'
  <2> SUFFICES ASSUME TypeOK, [Next]_vars PROVE TypeOK'
    OBVIOUS
  <2>0. /\ <<"sub", nCmd>> \in Task /\ <<"sub", nCmd + 1>> \in Task
        /\ <<"flow", nRun>> \in Task /\ <<"flow", nRun + 1>> \in Task
        /\ nCmd < MaxCommands => nCmd + 1 \in 0 .. MaxCommands
        /\ nRun < MaxRuns => nRun + 1 \in 0 .. MaxRuns
        /\ mainQ + 1 \in Nat /\ (mainQ # 0 => mainQ - 1 \in Nat)
        /\ boot \in Workers => boot + 1 \in 0 .. NumCameras + 1
    <3>1. nCmd \in Nat /\ nRun \in Nat /\ mainQ \in Nat /\ boot \in 0 .. NumCameras + 1
          /\ nCmd \in 0 .. MaxCommands /\ nRun \in 0 .. MaxRuns
      BY BoundsAssumption DEF TypeOK
    <3>2. nCmd + 1 \in Nat /\ nRun + 1 \in Nat
      BY <3>1
    <3>3. /\ nCmd < MaxCommands => nCmd + 1 \in 0 .. MaxCommands
          /\ nRun < MaxRuns => nRun + 1 \in 0 .. MaxRuns
      BY <3>1, <3>2, BoundsAssumption
    <3>4. /\ mainQ + 1 \in Nat /\ (mainQ # 0 => mainQ - 1 \in Nat)
          /\ boot \in Workers => boot + 1 \in 0 .. NumCameras + 1
      BY <3>1, NumCamerasAssumption DEF Workers
    <3>5. \A n \in Nat : <<"sub", n>> \in Task /\ <<"flow", n>> \in Task
      BY Tasks
    <3> QED
      BY <3>1, <3>2, <3>3, <3>4, <3>5
  <2> USE DEF TypeOK
  <2>1. CASE SubIo
    <3>1. EnQ(tasksQ, Io, <<"sub", nCmd + 1>>) \in [Workers -> Seq(Task)]
      BY EnQType, <2>0, ThreadNumbers
    <3> QED
      BY <2>1, <2>0, <3>1, ThreadNumbers DEF SubIo, Receive, SubPC
  <2>2. ASSUME NEW c \in Cameras, SubExMode(c) PROVE TypeOK'
    <3>1. EnQ(exModeQ, c, <<"sub", nCmd + 1>>) \in [Cameras -> Seq(Task)]
      BY EnQType, <2>0
    <3> QED
      BY <2>2, <2>0, <3>1, ThreadNumbers DEF SubExMode, Receive, SubPC
  <2>3. ASSUME NEW c \in Cameras, SubUnknown(c) PROVE TypeOK'
    BY <2>3, <2>0, ThreadNumbers DEF SubUnknown, Receive, SubPC
  <2>4. CASE SubTask
    <3>1. EnQ(tasksQ, subTo, <<"sub", nCmd>>) \in [Workers -> Seq(Task)]
      BY EnQType, <2>0
    <3> QED
      BY <2>4, <3>1 DEF SubTask, SubPC
  <2>5. CASE SubJson
    <3>1. [jsonQ EXCEPT ![subTo] = @ + 1] \in [Cameras -> Nat]
      <4>1. \A x \in Nat : x + 1 \in Nat
        OBVIOUS
      <4> QED
        BY <4>1
    <3> QED
      BY <2>5, <3>1 DEF SubJson, SubPC
  <2>6. CASE SubToken
    BY <2>6, <2>0 DEF SubToken, SubPC
  <2>7. CASE MainPoll
    BY <2>7, <2>0 DEF MainPoll, MainPC, Resume
  <2>8. CASE MainExit
    BY <2>8 DEF MainExit, MainPC
  <2>9. CASE MainWake
    <3>1. mainCam' \in Cameras /\ mainPc' \in MainPC
      BY <2>9, AfterCameraType DEF MainWake, MainPC
    <3>2. jsonQ' \in [Cameras -> Nat]
      <4>1. jsonQ \in [Cameras -> Nat] /\ mainCam \in Cameras
        OBVIOUS
      <4>2. \/ jsonQ' = jsonQ
            \/ jsonQ[mainCam] > 0 /\ jsonQ' = [jsonQ EXCEPT ![mainCam] = @ - 1]
        BY <2>9 DEF MainWake
      <4> HIDE DEF TypeOK
      <4>3. jsonQ[mainCam] > 0 => jsonQ[mainCam] - 1 \in Nat
        BY <4>1
      <4> QED
        BY <4>1, <4>2, <4>3
    <3>3. suspendFlag' \in [Workers -> BOOLEAN]
      BY <2>9 DEF MainWake, Resume
    <3> QED
      BY <2>9, <3>1, <3>2, <3>3 DEF MainWake
  <2>10. CASE FlowSkip
    <3>1. mainCam' \in Cameras /\ mainPc' \in MainPC
      BY <2>10, AfterCameraType DEF FlowSkip, MainPC
    <3> QED
      BY <2>10, <3>1 DEF FlowSkip
  <2>11. CASE FlowExMode
    <3>1. EnQ(exModeQ, mainCam, <<"flow", nRun + 1>>) \in [Cameras -> Seq(Task)]
      BY EnQType, <2>0
    <3> QED
      BY <2>11, <2>0, <3>1 DEF FlowExMode, MainPC
  <2>12. CASE FlowTask
    <3>1. EnQ(tasksQ, mainCam, <<"flow", nRun>>) \in [Workers -> Seq(Task)]
      BY EnQType, <2>0, ThreadNumbers
    <3> QED
      BY <2>12, <3>1 DEF FlowTask, MainPC
  <2>13. CASE FlowWake
    <3>1. mainCam' \in Cameras /\ mainPc' \in MainPC
      BY <2>13, AfterCameraType DEF FlowWake, MainPC
    <3> QED
      BY <2>13, <3>1 DEF FlowWake, Resume
  <2>14. ASSUME NEW w \in Workers, Worker(w) PROVE TypeOK'
    <3> USE DEF Goto, WorkerPC
    <3>1. CASE WorkerTop(w)
      BY <3>1 DEF WorkerTop
    <3>2. CASE WorkerGate(w)
      BY <3>2 DEF WorkerGate
    <3>3. CASE WorkerTake(w)
      <4>1. DeQ(tasksQ, w) \in [Workers -> Seq(Task)] /\ Head(tasksQ[w]) \in Task
        BY <3>3, DeQType DEF WorkerTake
      <4> QED
        BY <3>3, <4>1 DEF WorkerTake
    <3>4. CASE WorkerExMode(w)
      <4>1. exModeQ' \in [Cameras -> Seq(Task)]
        <5>1. CASE exModeQ[w] = <<>>
          BY <3>4, <5>1 DEF WorkerExMode
        <5>2. CASE exModeQ[w] # <<>> /\ w \in Cameras
          BY <3>4, <5>2, DeQType DEF WorkerExMode
        <5>3. CASE w \notin Cameras
          BY <3>4, <5>3 DEF WorkerExMode, DeQ
        <5> QED
          BY <5>1, <5>2, <5>3
      <4> QED
        BY <3>4, <4>1 DEF WorkerExMode
    <3>5. CASE WorkerRun(w)
      BY <3>5, Tasks DEF WorkerRun
    <3>6. CASE WorkerDrained(w)
      BY <3>6 DEF WorkerDrained
    <3>7. CASE WorkerIdle(w)
      BY <3>7 DEF WorkerIdle
    <3>8. CASE WorkerPark(w)
      BY <3>8 DEF WorkerPark, Suspend
    <3> QED
      BY <2>14, <3>1, <3>2, <3>3, <3>4, <3>5, <3>6, <3>7, <3>8 DEF Worker
  <2>15. CASE BootSuspend
    BY <2>15, <2>0 DEF BootSuspend, Suspend
  <2>16. CASE SigExit
    BY <2>16 DEF SigExit, ExitPC
  <2>17. CASE ExitSuspend
    <3>1. exitAt' \in Workers /\ exitPc' \in ExitPC
      BY <2>17, AfterWorkerType DEF ExitSuspend, ExitPC
    <3> QED
      BY <2>17, <3>1 DEF ExitSuspend, Suspend
  <2>18. CASE ExitClose
    <3>1. exitAt' \in Workers /\ exitPc' \in ExitPC
      BY <2>18, AfterWorkerType DEF ExitClose, ExitPC
    <3> QED
      BY <2>18, <3>1 DEF ExitClose, Resume
  <2>19. CASE ExitCloseMp
    BY <2>19 DEF ExitCloseMp, ExitPC
  <2>20. CASE ExitJoin
    BY <2>20 DEF ExitJoin, ExitPC
  <2>21. CASE UNCHANGED vars
    BY <2>21 DEF vars
  <2> HIDE DEF TypeOK
  <2> QED
    BY <2>1, <2>2, <2>3, <2>4, <2>5, <2>6, <2>7, <2>8, <2>9, <2>10, <2>11, <2>12, <2>13,
       <2>14, <2>15, <2>16, <2>17, <2>18, <2>19, <2>20, <2>21
       DEF Next, Sub, SubFinish, Main, ExitRest
<1> QED
  BY <1>1, <1>2, PTL DEF Spec
-----------------------------------------------------------------------------
(* Mode records and tasks. *)

(* Half-done steps on camera c: a submission of the subscriber, one of the *)
(* flow, and the worker between its two dequeues.                          *)
HalfSub(c)  == IF subPc = "task" /\ subTo = c THEN 1 ELSE 0
HalfFlow(c) == IF mainPc = "flowTask" /\ mainCam = c THEN 1 ELSE 0
HalfTake(c) == IF wpc[c] = "exmode" THEN 1 ELSE 0

(* Camera c's two queues are filled and emptied in step: they differ by    *)
(* exactly the steps that are half done.                                   *)
Balanced(c) ==
  Len(exModeQ[c]) = Len(tasksQ[c]) + HalfSub(c) + HalfFlow(c) + HalfTake(c)
ExModeBalance == \A c \in Cameras : Balanced(c)

LEMMA Halves ==
  ASSUME NEW c
  PROVE  HalfSub(c) \in {0, 1} /\ HalfFlow(c) \in {0, 1} /\ HalfTake(c) \in {0, 1}
BY DEF HalfSub, HalfFlow, HalfTake

(* A dequeue takes one element, from its own queue only. *)
LEMMA DeQLen ==
  ASSUME NEW S, NEW E, NEW q \in [S -> Seq(E)], NEW w \in S, q[w] # <<>>
  PROVE  /\ Len(DeQ(q, w)[w]) = Len(q[w]) - 1
         /\ \A v \in S : v # w => DeQ(q, w)[v] = q[v]
<1>1. Len(Tail(q[w])) = Len(q[w]) - 1
  OBVIOUS
<1> QED
  BY <1>1 DEF DeQ

(* A step that leaves camera c's two queues alone, and does not begin or   *)
(* end half of a submission or of a dequeueing, keeps the balance.         *)
LEMMA BalanceKept ==
  ASSUME NEW c \in Cameras, Balanced(c),
         exModeQ' = exModeQ, tasksQ'[c] = tasksQ[c],
         (subPc = "task" /\ subTo = c) <=> (subPc = "task" /\ subTo = c)',
         (mainPc = "flowTask" /\ mainCam = c) <=> (mainPc = "flowTask" /\ mainCam = c)',
         (wpc[c] = "exmode") <=> (wpc[c] = "exmode")'
  PROVE  Balanced(c)'
<1>1. HalfSub(c)' = HalfSub(c) /\ HalfFlow(c)' = HalfFlow(c) /\ HalfTake(c)' = HalfTake(c)
  BY DEF HalfSub, HalfFlow, HalfTake
<1> QED
  BY <1>1 DEF Balanced

LEMMA BalanceInductive ==
  ASSUME TypeOK, ExModeBalance, [Next]_vars
  PROVE  ExModeBalance'
<1> SUFFICES ASSUME NEW c \in Cameras PROVE Balanced(c)'
  BY DEF ExModeBalance
<1> USE DEF queueVars, workVars, subVars, mainVars, exitVars
<1>a. c \in Workers /\ c # Io /\ Io \in Workers
  BY ThreadNumbers
<1>b. Balanced(c)
  BY DEF ExModeBalance
<1>c. /\ tasksQ \in [Workers -> Seq(Task)] /\ exModeQ \in [Cameras -> Seq(Task)]
      /\ wpc \in [Workers -> WorkerPC] /\ mainCam \in Cameras /\ mainCam \in Workers
      /\ subTo \in Workers
  BY ThreadNumbers DEF TypeOK
<1>d. Len(tasksQ[c]) \in Nat /\ Len(exModeQ[c]) \in Nat
  BY <1>a, <1>c
<1>e. /\ <<"sub", nCmd>> \in Task /\ <<"sub", nCmd + 1>> \in Task
      /\ <<"flow", nRun>> \in Task /\ <<"flow", nRun + 1>> \in Task
  <2>1. nCmd \in Nat /\ nRun \in Nat /\ nCmd + 1 \in Nat /\ nRun + 1 \in Nat
    BY BoundsAssumption DEF TypeOK
  <2> QED
    BY <2>1, Tasks
<1>1. CASE SubIo
  <2>1. tasksQ'[c] = tasksQ[c]
    BY <1>a, <1>c, <1>1 DEF SubIo, EnQ
  <2> QED
    BY <1>a, <1>b, <1>1, <2>1, BalanceKept DEF SubIo, Receive
<1>2. ASSUME NEW d \in Cameras, SubExMode(d) PROVE Balanced(c)'
  <2>1. /\ c = d => Len(EnQ(exModeQ, d, <<"sub", nCmd + 1>>)[c]) = Len(exModeQ[c]) + 1
        /\ c # d => EnQ(exModeQ, d, <<"sub", nCmd + 1>>)[c] = exModeQ[c]
    BY <1>c, <1>e DEF EnQ
  <2>2. exModeQ' = EnQ(exModeQ, d, <<"sub", nCmd + 1>>) /\ tasksQ' = tasksQ
    BY <1>2 DEF SubExMode
  <2>3. /\ subPc # "task" /\ subPc' = "task" /\ subTo' = d
        /\ UNCHANGED <<mainPc, mainCam, wpc>>
    BY <1>2 DEF SubExMode, Receive
  <2>4. /\ HalfSub(c) = 0 /\ (c = d => HalfSub(c)' = 1) /\ (c # d => HalfSub(c)' = 0)
        /\ HalfFlow(c)' = HalfFlow(c) /\ HalfTake(c)' = HalfTake(c)
    BY <2>3 DEF HalfSub, HalfFlow, HalfTake
  <2> QED
    BY <1>b, <1>d, <2>1, <2>2, <2>4, Halves DEF Balanced
<1>3. ASSUME NEW d \in Cameras, SubUnknown(d) PROVE Balanced(c)'
  BY <1>b, <1>3, BalanceKept DEF SubUnknown, Receive
<1>4. CASE SubTask
  <2>1. /\ c = subTo => Len(EnQ(tasksQ, subTo, <<"sub", nCmd>>)[c]) = Len(tasksQ[c]) + 1
        /\ c # subTo => EnQ(tasksQ, subTo, <<"sub", nCmd>>)[c] = tasksQ[c]
    BY <1>a, <1>c, <1>e DEF EnQ
  <2>2. tasksQ' = EnQ(tasksQ, subTo, <<"sub", nCmd>>) /\ exModeQ' = exModeQ
    BY <1>4 DEF SubTask
  <2>3. subPc = "task" /\ subPc' = "json" /\ UNCHANGED <<mainPc, mainCam, wpc>>
    BY <1>4 DEF SubTask
  <2>4. /\ (c = subTo => HalfSub(c) = 1) /\ (c # subTo => HalfSub(c) = 0) /\ HalfSub(c)' = 0
        /\ HalfFlow(c)' = HalfFlow(c) /\ HalfTake(c)' = HalfTake(c)
    BY <2>3 DEF HalfSub, HalfFlow, HalfTake
  <2> QED
    BY <1>b, <1>d, <2>1, <2>2, <2>4, Halves DEF Balanced
<1>5. CASE SubJson \/ SubToken
  BY <1>b, <1>5, BalanceKept DEF SubJson, SubToken
<1>6. CASE MainPoll \/ MainExit
  BY <1>b, <1>6, BalanceKept DEF MainPoll, MainExit
<1>7. CASE MainWake \/ FlowSkip \/ FlowWake
  <2>1. mainPc # "flowTask" /\ mainPc' # "flowTask"
    BY <1>7 DEF MainWake, FlowSkip, FlowWake, AfterCamera
  <2> QED
    BY <1>b, <1>7, <2>1, BalanceKept DEF MainWake, FlowSkip, FlowWake
<1>8. CASE FlowExMode
  <2>1. /\ c = mainCam => Len(EnQ(exModeQ, mainCam, <<"flow", nRun + 1>>)[c]) = Len(exModeQ[c]) + 1
        /\ c # mainCam => EnQ(exModeQ, mainCam, <<"flow", nRun + 1>>)[c] = exModeQ[c]
    BY <1>c, <1>e DEF EnQ
  <2>2. exModeQ' = EnQ(exModeQ, mainCam, <<"flow", nRun + 1>>) /\ tasksQ' = tasksQ
    BY <1>8 DEF FlowExMode
  <2>3. mainPc = "flow" /\ mainPc' = "flowTask" /\ UNCHANGED <<mainCam, subPc, subTo, wpc>>
    BY <1>8 DEF FlowExMode
  <2>4. /\ HalfFlow(c) = 0
        /\ (c = mainCam => HalfFlow(c)' = 1) /\ (c # mainCam => HalfFlow(c)' = 0)
        /\ HalfSub(c)' = HalfSub(c) /\ HalfTake(c)' = HalfTake(c)
    BY <2>3 DEF HalfSub, HalfFlow, HalfTake
  <2> QED
    BY <1>b, <1>d, <2>1, <2>2, <2>4, Halves DEF Balanced
<1>9. CASE FlowTask
  <2>1. /\ c = mainCam => Len(EnQ(tasksQ, mainCam, <<"flow", nRun>>)[c]) = Len(tasksQ[c]) + 1
        /\ c # mainCam => EnQ(tasksQ, mainCam, <<"flow", nRun>>)[c] = tasksQ[c]
    BY <1>a, <1>c, <1>e DEF EnQ
  <2>2. tasksQ' = EnQ(tasksQ, mainCam, <<"flow", nRun>>) /\ exModeQ' = exModeQ
    BY <1>9 DEF FlowTask
  <2>3. mainPc = "flowTask" /\ mainPc' = "flowWake" /\ UNCHANGED <<mainCam, subPc, subTo, wpc>>
    BY <1>9 DEF FlowTask
  <2>4. /\ HalfFlow(c)' = 0
        /\ (c = mainCam => HalfFlow(c) = 1) /\ (c # mainCam => HalfFlow(c) = 0)
        /\ HalfSub(c)' = HalfSub(c) /\ HalfTake(c)' = HalfTake(c)
    BY <2>3 DEF HalfSub, HalfFlow, HalfTake
  <2> QED
    BY <1>b, <1>d, <2>1, <2>2, <2>4, Halves DEF Balanced
<1>10. ASSUME NEW w \in Workers, Worker(w) PROVE Balanced(c)'
  <2>1. CASE WorkerTake(w)
    <3>1. /\ c = w => Len(DeQ(tasksQ, w)[c]) = Len(tasksQ[c]) - 1
          /\ c # w => DeQ(tasksQ, w)[c] = tasksQ[c]
      BY <1>a, <1>c, <2>1 DEF WorkerTake, DeQ
    <3>2. tasksQ' = DeQ(tasksQ, w) /\ exModeQ' = exModeQ
      BY <2>1 DEF WorkerTake
    <3>3. /\ wpc[w] = "drain" /\ (w = c => wpc'[c] = "exmode") /\ (w # c => wpc'[c] = wpc[c])
          /\ UNCHANGED <<mainPc, mainCam, subPc, subTo>>
      BY <1>a, <1>c, <2>1 DEF WorkerTake, Goto
    <3>4. /\ (w = c => HalfTake(c) = 0 /\ HalfTake(c)' = 1)
          /\ (w # c => HalfTake(c)' = HalfTake(c))
          /\ HalfSub(c)' = HalfSub(c) /\ HalfFlow(c)' = HalfFlow(c)
      BY <3>3 DEF HalfSub, HalfFlow, HalfTake
    <3> QED
      BY <1>b, <1>d, <3>1, <3>2, <3>4, Halves DEF Balanced
  <2>2. CASE WorkerExMode(w) /\ w = c
    <3>1. /\ wpc[c] = "exmode" /\ wpc'[c] = "run"
          /\ UNCHANGED <<tasksQ, mainPc, mainCam, subPc, subTo>>
      BY <1>a, <1>c, <2>2 DEF WorkerExMode, Goto
    <3>a. HalfTake(c) = 1 /\ HalfTake(c)' = 0
      BY <3>1 DEF HalfTake
    <3>b. HalfSub(c)' = HalfSub(c) /\ HalfFlow(c)' = HalfFlow(c)
      BY <3>1 DEF HalfSub, HalfFlow
    <3>2. exModeQ[c] # <<>>
      <4>1. Len(exModeQ[c]) # 0
        BY <1>b, <1>d, <3>a, Halves DEF Balanced
      <4> QED
        BY <4>1
    <3>3. Len(DeQ(exModeQ, c)[c]) = Len(exModeQ[c]) - 1
      BY <1>c, <3>2, DeQLen
    <3>4. exModeQ' = DeQ(exModeQ, c)
      BY <2>2, <3>2 DEF WorkerExMode
    <3> QED
      BY <1>b, <1>d, <3>1, <3>3, <3>4, <3>a, <3>b, Halves DEF Balanced
  <2>3. CASE WorkerExMode(w) /\ w # c
    <3>1. exModeQ'[c] = exModeQ[c] /\ wpc'[c] = wpc[c]
      BY <1>c, <2>3 DEF WorkerExMode, DeQ, Goto
    <3>2. UNCHANGED <<tasksQ, mainPc, mainCam, subPc, subTo>>
      BY <2>3 DEF WorkerExMode
    <3>3. UNCHANGED <<HalfSub(c), HalfFlow(c), HalfTake(c)>>
      BY <3>1, <3>2 DEF HalfSub, HalfFlow, HalfTake
    <3> QED
      BY <1>b, <3>1, <3>2, <3>3 DEF Balanced
  <2>4. CASE WorkerTop(w) \/ WorkerGate(w) \/ WorkerRun(w) \/ WorkerDrained(w)
               \/ WorkerIdle(w) \/ WorkerPark(w)
    <3>1. (wpc[c] = "exmode") <=> (wpc[c] = "exmode")'
      <4>1. wpc[w] # "exmode"
        BY <2>4 DEF WorkerTop, WorkerGate, WorkerRun, WorkerDrained, WorkerIdle, WorkerPark
      <4>2. \E p \in WorkerPC \ {"exmode"} : Goto(w, p)
        BY <2>4 DEF WorkerTop, WorkerGate, WorkerRun, WorkerDrained, WorkerIdle, WorkerPark,
                    WorkerPC
      <4> QED
        BY <1>a, <1>c, <4>1, <4>2 DEF Goto
    <3> QED
      BY <1>b, <2>4, <3>1, BalanceKept
         DEF WorkerTop, WorkerGate, WorkerRun, WorkerDrained, WorkerIdle, WorkerPark
  <2> QED
    BY <1>10, <2>1, <2>2, <2>3, <2>4 DEF Worker
<1>11. CASE BootSuspend \/ SigExit \/ ExitRest
  BY <1>b, <1>11, BalanceKept
     DEF BootSuspend, SigExit, ExitRest, ExitSuspend, ExitClose, ExitCloseMp, ExitJoin
<1>12. CASE UNCHANGED vars
  BY <1>b, <1>12, BalanceKept DEF vars
<1> QED
  BY <1>1, <1>2, <1>3, <1>4, <1>5, <1>6, <1>7, <1>8, <1>9, <1>10, <1>11, <1>12
     DEF Next, Sub, SubFinish, Main

(* A worker that took a task always finds a mode record, however the       *)
(* subscriber's and the flow's submissions interleave (ExModeQ_DeQ_Dual).  *)
THEOREM ModeRecords == Spec => []ModeRecordPresent
<1>1. Init => ExModeBalance
  <2> SUFFICES ASSUME Init, NEW c \in Cameras PROVE Balanced(c)
    BY DEF ExModeBalance
  <2>1. exModeQ[c] = <<>> /\ tasksQ[c] = <<>>
    BY ThreadNumbers DEF Init
  <2>2. HalfSub(c) = 0 /\ HalfFlow(c) = 0 /\ HalfTake(c) = 0
    BY ThreadNumbers DEF Init, HalfSub, HalfFlow, HalfTake
  <2> QED
    BY <2>1, <2>2 DEF Balanced
<1>2. ASSUME TypeOK, ExModeBalance PROVE ModeRecordPresent
  <2> SUFFICES ASSUME NEW c \in Cameras, wpc[c] = "exmode", exModeQ[c] = <<>> PROVE FALSE
    BY DEF ModeRecordPresent
  <2>1. Len(exModeQ[c]) = 0 /\ Len(tasksQ[c]) \in Nat
    BY ThreadNumbers DEF TypeOK
  <2>2. Balanced(c)
    BY <1>2 DEF ExModeBalance
  <2>3. HalfTake(c) = 1
    BY DEF HalfTake
  <2> QED
    BY <2>1, <2>2, <2>3, Halves DEF Balanced
<1> QED
  BY <1>1, <1>2, TypeCorrect, BalanceInductive, PTL DEF Spec
-----------------------------------------------------------------------------
(* Tickets and tokens. *)

(* A token already taken will still be spent at camera c; a token for c is *)
(* about to be queued.                                                     *)
PassAhead(c)  == IF mainPc = "wake" /\ mainCam <= c THEN 1 ELSE 0
TokenAhead(c) == IF subPc = "token" /\ subTo = c THEN 1 ELSE 0

(* Every ticket of camera c has a token of its own: a token taken for      *)
(* another camera's ticket is not the one c's ticket came with.            *)
Covered(c) == jsonQ[c] <= mainQ + PassAhead(c) + TokenAhead(c)
TicketsCovered == (mainPc = "poll" => mainCam = 0) /\ \A c \in Cameras : Covered(c)

LEMMA Aheads == ASSUME NEW c PROVE PassAhead(c) \in {0, 1} /\ TokenAhead(c) \in {0, 1}
BY DEF PassAhead, TokenAhead

LEMMA AheadsPrimed == ASSUME NEW c PROVE PassAhead(c)' \in {0, 1} /\ TokenAhead(c)' \in {0, 1}
BY DEF PassAhead, TokenAhead

(* A step that adds no ticket for camera c and takes no token keeps c      *)
(* covered, if it ends no pass that c's ticket counts on.                  *)
LEMMA CoveredKept ==
  ASSUME NEW c \in Cameras, Covered(c), UNCHANGED <<jsonQ, mainQ>>,
         PassAhead(c)' = PassAhead(c), TokenAhead(c)' = TokenAhead(c)
  PROVE  Covered(c)'
BY DEF Covered

LEMMA CoveredInductive ==
  ASSUME TypeOK, TicketsCovered, [Next]_vars
  PROVE  TicketsCovered'
<1> USE DEF queueVars, workVars, subVars, mainVars, exitVars
<1>1. (mainPc = "poll" => mainCam = 0)'
  <2>1. CASE Main
    BY <2>1 DEF TicketsCovered, Main, MainPoll, MainExit, MainWake, FlowSkip, FlowExMode,
                FlowTask, FlowWake, AfterCamera
  <2>2. CASE Sub \/ BootSuspend \/ SigExit \/ ExitRest \/ UNCHANGED vars
    BY <2>2 DEF TicketsCovered, Sub, SubIo, SubExMode, SubUnknown, SubFinish, SubTask, SubJson,
                SubToken, BootSuspend, SigExit, ExitRest, ExitSuspend, ExitClose, ExitCloseMp,
                ExitJoin, vars
  <2>3. CASE \E w \in Workers : Worker(w)
    BY <2>3 DEF TicketsCovered, Worker, WorkerTop, WorkerGate, WorkerTake, WorkerExMode,
                WorkerRun, WorkerDrained, WorkerIdle, WorkerPark
  <2> QED
    BY <2>1, <2>2, <2>3 DEF Next
<1>2. ASSUME NEW c \in Cameras PROVE Covered(c)'
  <2>a. Covered(c) /\ c \in Workers /\ c # Io
    BY ThreadNumbers DEF TicketsCovered
  <2>b. jsonQ \in [Cameras -> Nat] /\ jsonQ[c] \in Nat /\ mainQ \in Nat
    BY DEF TypeOK
  <2>c. c \in Int /\ mainCam \in Int /\ NumCameras \in Int /\ c < NumCameras
        /\ 0 <= c /\ 0 <= mainCam
    BY NumCamerasAssumption DEF TypeOK, Cameras
  <2>1. CASE SubIo
    <3>1. UNCHANGED <<jsonQ, mainQ, mainPc, mainCam>> /\ subPc = "ready" /\ subTo' = Io
      BY <2>1 DEF SubIo, Receive
    <3>2. PassAhead(c)' = PassAhead(c) /\ TokenAhead(c)' = TokenAhead(c)
      BY <2>a, <3>1 DEF PassAhead, TokenAhead
    <3> QED
      BY <2>a, <3>1, <3>2, CoveredKept
  <2>2. CASE \/ \E d \in Cameras : SubExMode(d) \/ SubUnknown(d)
             \/ SubTask
    <3>1. UNCHANGED <<jsonQ, mainQ, mainPc, mainCam>> /\ subPc # "token" /\ subPc' # "token"
      BY <2>2 DEF SubExMode, SubUnknown, SubTask, Receive
    <3>2. PassAhead(c)' = PassAhead(c) /\ TokenAhead(c)' = TokenAhead(c)
      BY <3>1 DEF PassAhead, TokenAhead
    <3> QED
      BY <2>a, <3>1, <3>2, CoveredKept
  <2>3. CASE SubJson
    <3>1. /\ subTo = c => jsonQ'[c] = jsonQ[c] + 1
          /\ subTo # c => jsonQ'[c] = jsonQ[c]
          /\ mainQ' = mainQ
      BY <2>3, <2>b DEF SubJson
    <3>2. /\ TokenAhead(c) = 0
          /\ subTo = c => TokenAhead(c)' = 1
          /\ PassAhead(c)' = PassAhead(c)
      BY <2>3 DEF SubJson, PassAhead, TokenAhead
    <3> QED
      BY <2>a, <2>b, <3>1, <3>2, Aheads, AheadsPrimed DEF Covered
  <2>4. CASE SubToken
    <3>1. jsonQ' = jsonQ /\ mainQ' = mainQ + 1
      BY <2>4 DEF SubToken
    <3>2. TokenAhead(c)' = 0 /\ PassAhead(c)' = PassAhead(c)
      BY <2>4 DEF SubToken, PassAhead, TokenAhead
    <3> QED
      BY <2>a, <2>b, <3>1, <3>2, Aheads DEF Covered
  <2>5. CASE MainPoll
    <3>1. jsonQ' = jsonQ /\ mainPc = "poll" /\ mainCam = 0 /\ mainCam' = 0
      BY <2>5 DEF MainPoll, TicketsCovered
    <3>2. TokenAhead(c)' = TokenAhead(c) /\ PassAhead(c) = 0
      BY <2>5 DEF MainPoll, PassAhead, TokenAhead
    <3>3. CASE mainQ = 0
      <4>1. mainQ' = mainQ /\ mainPc' = "flow"
        BY <2>5, <3>3 DEF MainPoll
      <4>2. PassAhead(c)' = 0
        BY <4>1 DEF PassAhead
      <4> QED
        BY <2>a, <2>b, <3>1, <3>2, <4>1, <4>2, Aheads DEF Covered
    <3>4. CASE mainQ # 0
      <4>1. mainQ' = mainQ - 1 /\ mainPc' = "wake"
        BY <2>5, <3>4 DEF MainPoll
      <4>2. PassAhead(c)' = 1
        BY <2>c, <3>1, <4>1 DEF PassAhead
      <4> QED
        BY <2>a, <2>b, <3>1, <3>2, <4>1, <4>2, Aheads DEF Covered
    <3> QED
      BY <3>3, <3>4
  <2>6. CASE MainWake
    <3>0. mainPc = "wake" /\ mainQ' = mainQ /\ AfterCamera("wake", "flow")
      BY <2>6 DEF MainWake
    <3>1. TokenAhead(c)' = TokenAhead(c)
      BY <2>6 DEF MainWake, TokenAhead
    <3>2. CASE mainCam = c
      <4>1. jsonQ'[c] = IF jsonQ[c] > 0 THEN jsonQ[c] - 1 ELSE jsonQ[c]
        BY <2>6, <2>b, <3>2 DEF MainWake
      <4>2. PassAhead(c) = 1
        BY <2>c, <3>0, <3>2 DEF PassAhead
      <4>3. CASE jsonQ[c] > 0
        BY <2>a, <2>b, <3>0, <3>1, <4>1, <4>2, <4>3, Aheads, AheadsPrimed DEF Covered
      <4>4. CASE jsonQ[c] = 0
        BY <2>a, <2>b, <3>0, <3>1, <4>1, <4>4, Aheads, AheadsPrimed DEF Covered
      <4> QED
        BY <2>b, <4>3, <4>4
    <3>3. CASE mainCam # c
      <4>1. jsonQ'[c] = jsonQ[c]
        BY <2>6, <2>b, <3>3 DEF MainWake
      <4>2. (mainPc = "wake" /\ mainCam <= c) <=> (mainPc = "wake" /\ mainCam <= c)'
        <5>1. CASE mainCam + 1 < NumCameras
          <6>1. mainPc' = "wake" /\ mainCam' = mainCam + 1
            BY <3>0, <5>1 DEF AfterCamera
          <6>2. mainCam <= c <=> mainCam + 1 <= c
            BY <2>c, <3>3
          <6> QED
            BY <3>0, <6>1, <6>2
        <5>2. CASE ~(mainCam + 1 < NumCameras)
          <6>1. mainPc' = "flow"
            BY <3>0, <5>2 DEF AfterCamera
          <6>2. ~(mainCam <= c)
            BY <2>c, <3>3, <5>2
          <6> QED
            BY <6>1, <6>2
        <5> QED
          BY <5>1, <5>2
      <4>3. PassAhead(c)' = PassAhead(c)
        BY <4>2 DEF PassAhead
      <4> QED
        BY <2>a, <3>0, <3>1, <4>1, <4>3 DEF Covered
    <3> QED
      BY <3>2, <3>3
  <2>7. CASE MainExit \/ FlowSkip \/ FlowExMode \/ FlowTask \/ FlowWake
    <3>1. UNCHANGED <<jsonQ, mainQ, subPc, subTo>> /\ mainPc # "wake" /\ mainPc' # "wake"
      BY <2>7 DEF MainExit, FlowSkip, FlowExMode, FlowTask, FlowWake, AfterCamera
    <3>2. PassAhead(c)' = PassAhead(c) /\ TokenAhead(c)' = TokenAhead(c)
      BY <3>1 DEF PassAhead, TokenAhead
    <3> QED
      BY <2>a, <3>1, <3>2, CoveredKept
  <2>8. CASE \/ \E w \in Workers : Worker(w)
             \/ BootSuspend \/ SigExit \/ ExitRest \/ UNCHANGED vars
    <3>1. UNCHANGED <<jsonQ, mainQ, subPc, subTo, mainPc, mainCam>>
      BY <2>8 DEF Worker, WorkerTop, WorkerGate, WorkerTake, WorkerExMode, WorkerRun,
                  WorkerDrained, WorkerIdle, WorkerPark, BootSuspend, SigExit, ExitRest,
                  ExitSuspend, ExitClose, ExitCloseMp, ExitJoin, vars
    <3>2. PassAhead(c)' = PassAhead(c) /\ TokenAhead(c)' = TokenAhead(c)
      BY <3>1 DEF PassAhead, TokenAhead
    <3> QED
      BY <2>a, <3>1, <3>2, CoveredKept
  <2> QED
    BY <2>1, <2>2, <2>3, <2>4, <2>5, <2>6, <2>7, <2>8 DEF Next, Sub, SubFinish, Main
<1> QED
  BY <1>1, <1>2 DEF TicketsCovered

LEMMA TicketsAlways == Spec => []TicketsCovered
<1>1. Init => TicketsCovered
  <2> SUFFICES ASSUME Init PROVE TicketsCovered
    OBVIOUS
  <2>1. mainCam = 0 /\ mainQ = 0 /\ \A c \in Cameras : jsonQ[c] = 0
    BY DEF Init
  <2>2. ASSUME NEW c \in Cameras PROVE Covered(c)
    BY <2>1, Aheads DEF Covered
  <2> QED
    BY <2>1, <2>2 DEF TicketsCovered
<1> QED
  BY <1>1, TypeCorrect, CoveredInductive, PTL DEF Spec

(* With no token queued and no command half handled, no ticket is left     *)
(* behind, for any number of cameras (the one-token, many-queues loop of   *)
(* mainCtl).                                                               *)
THEOREM TicketsSpent == Spec => []NoForgottenTicket
<1>1. ASSUME TypeOK, TicketsCovered PROVE NoForgottenTicket
  <2> SUFFICES ASSUME mainQ = 0, mainPc \in {"poll", "flow"}, subPc = "ready",
                      NEW c \in Cameras
               PROVE  jsonQ[c] = 0
    BY DEF NoForgottenTicket
  <2>1. Covered(c) /\ jsonQ[c] \in Nat
    BY <1>1 DEF TicketsCovered, TypeOK
  <2>2. PassAhead(c) = 0 /\ TokenAhead(c) = 0
    BY DEF PassAhead, TokenAhead
  <2> QED
    BY <2>1, <2>2 DEF Covered
<1> QED
  BY <1>1, TypeCorrect, TicketsAlways, PTL
-----------------------------------------------------------------------------
(* Which record belongs to which task. *)

(* Unless two submissions overlapped on camera c: its records are those of *)
(* the task the worker holds without a record, if any, of the queued       *)
(* tasks, in order, and of the submission that is half done, if any.       *)
Paired(c) ==
  ~overlap[c] =>
    /\ wpc[c] = "exmode" => exModeQ[c][1] = cur[c]
    /\ \A i \in 1 .. Len(tasksQ[c]) : exModeQ[c][i + HalfTake(c)] = tasksQ[c][i]
    /\ HalfSub(c) = 1 => HalfFlow(c) = 0 /\ exModeQ[c][Len(exModeQ[c])] = <<"sub", nCmd>>
    /\ HalfFlow(c) = 1 => exModeQ[c][Len(exModeQ[c])] = <<"flow", nRun>>
RecordsPaired == \A c \in Cameras : Paired(c)

(* A step that has nothing to do with camera c's two queues. *)
LEMMA PairedKept ==
  ASSUME NEW c \in Cameras, Paired(c),
         UNCHANGED <<exModeQ[c], tasksQ[c], overlap[c]>>,
         HalfTake(c)' = HalfTake(c), HalfSub(c)' = HalfSub(c), HalfFlow(c)' = HalfFlow(c),
         HalfTake(c) = 1 => cur'[c] = cur[c],
         HalfSub(c) = 1 => nCmd' = nCmd,
         HalfFlow(c) = 1 => nRun' = nRun
  PROVE  Paired(c)'
<1>1. (wpc[c] = "exmode")' => wpc[c] = "exmode" /\ cur'[c] = cur[c]
  BY DEF HalfTake
<1> QED
  BY <1>1 DEF Paired

(* What a record or a task put in at the end, and one taken off the front,  *)
(* leave of a sequence.                                                     *)
LEMMA AppendFacts ==
  ASSUME NEW S, NEW s \in Seq(S), NEW x \in S
  PROVE  /\ Append(s, x) \in Seq(S) /\ Len(s) \in Nat /\ Len(Append(s, x)) = Len(s) + 1
         /\ \A i \in 1 .. Len(s) : Append(s, x)[i] = s[i]
         /\ Append(s, x)[Len(s) + 1] = x
OBVIOUS

LEMMA TailFacts ==
  ASSUME NEW S, NEW s \in Seq(S), s # <<>>
  PROVE  /\ Tail(s) \in Seq(S) /\ Len(s) \in Nat /\ Len(s) > 0 /\ Len(Tail(s)) = Len(s) - 1
         /\ \A i \in 1 .. Len(s) - 1 : Tail(s)[i] = s[i + 1]
         /\ Head(s) = s[1]
OBVIOUS

(* A submitter puts a record in, beside no other submission. *)
LEMMA RecordAppended ==
  ASSUME TypeOK, NEW c \in Cameras, Balanced(c), Paired(c), ~overlap[c],
         HalfSub(c) = 0, HalfFlow(c) = 0, NEW x \in Task,
         exModeQ'[c] = Append(exModeQ[c], x), HalfTake(c)' = HalfTake(c),
         UNCHANGED <<tasksQ[c], wpc[c], cur[c]>>
  PROVE  /\ wpc'[c] = "exmode" => exModeQ'[c][1] = cur'[c]
         /\ \A i \in 1 .. Len(tasksQ'[c]) : exModeQ'[c][i + HalfTake(c)'] = tasksQ'[c][i]
         /\ exModeQ'[c][Len(exModeQ'[c])] = x
<1>1. exModeQ[c] \in Seq(Task) /\ tasksQ[c] \in Seq(Task) /\ Len(tasksQ[c]) \in Nat
  BY ThreadNumbers DEF TypeOK
<1>2. Len(exModeQ[c]) = Len(tasksQ[c]) + HalfTake(c) /\ HalfTake(c) \in {0, 1}
  BY <1>1, Halves DEF Balanced
<1>3. /\ Len(exModeQ[c]) \in Nat /\ Len(exModeQ'[c]) = Len(exModeQ[c]) + 1
      /\ \A i \in 1 .. Len(exModeQ[c]) : exModeQ'[c][i] = exModeQ[c][i]
      /\ exModeQ'[c][Len(exModeQ[c]) + 1] = x
  BY <1>1, AppendFacts
<1>4. /\ wpc[c] = "exmode" => exModeQ[c][1] = cur[c]
      /\ \A i \in 1 .. Len(tasksQ[c]) : exModeQ[c][i + HalfTake(c)] = tasksQ[c][i]
  BY DEF Paired
<1>5. wpc[c] = "exmode" => Len(exModeQ[c]) >= 1
  BY <1>1, <1>2 DEF HalfTake
<1>6. \A i \in 1 .. Len(tasksQ[c]) : i + HalfTake(c) \in 1 .. Len(exModeQ[c])
  BY <1>1, <1>2
<1>7. wpc'[c] = "exmode" => exModeQ'[c][1] = cur'[c]
  <2>1. wpc[c] = "exmode" => 1 \in 1 .. Len(exModeQ[c])
    BY <1>3, <1>5
  <2> QED
    BY <1>3, <1>4, <2>1
<1>8. \A i \in 1 .. Len(tasksQ'[c]) : exModeQ'[c][i + HalfTake(c)'] = tasksQ'[c][i]
  BY <1>3, <1>4, <1>6
<1> QED
  BY <1>3, <1>7, <1>8

(* ...and then its task, of which the last record is. *)
LEMMA TaskAppended ==
  ASSUME TypeOK, NEW c \in Cameras, Balanced(c), Paired(c), ~overlap[c],
         HalfSub(c) + HalfFlow(c) = 1, NEW x \in Task,
         exModeQ[c][Len(exModeQ[c])] = x,
         tasksQ'[c] = Append(tasksQ[c], x), HalfTake(c)' = HalfTake(c),
         UNCHANGED <<exModeQ[c], wpc[c], cur[c]>>
  PROVE  /\ wpc'[c] = "exmode" => exModeQ'[c][1] = cur'[c]
         /\ \A i \in 1 .. Len(tasksQ'[c]) : exModeQ'[c][i + HalfTake(c)'] = tasksQ'[c][i]
<1>1. exModeQ[c] \in Seq(Task) /\ tasksQ[c] \in Seq(Task) /\ Len(tasksQ[c]) \in Nat
  BY ThreadNumbers DEF TypeOK
<1>2. Len(exModeQ[c]) = Len(tasksQ[c]) + 1 + HalfTake(c) /\ HalfTake(c) \in {0, 1}
  BY <1>1, Halves DEF Balanced
<1>3. /\ Len(tasksQ'[c]) = Len(tasksQ[c]) + 1
      /\ \A i \in 1 .. Len(tasksQ[c]) : tasksQ'[c][i] = tasksQ[c][i]
      /\ tasksQ'[c][Len(tasksQ[c]) + 1] = x
  BY <1>1, AppendFacts
<1>4. /\ wpc[c] = "exmode" => exModeQ[c][1] = cur[c]
      /\ \A i \in 1 .. Len(tasksQ[c]) : exModeQ[c][i + HalfTake(c)] = tasksQ[c][i]
  BY DEF Paired
<1>5. \A i \in 1 .. Len(tasksQ'[c]) : exModeQ[c][i + HalfTake(c)] = tasksQ'[c][i]
  <2> SUFFICES ASSUME NEW i \in 1 .. Len(tasksQ'[c])
               PROVE  exModeQ[c][i + HalfTake(c)] = tasksQ'[c][i]
    OBVIOUS
  <2>1. CASE i \in 1 .. Len(tasksQ[c])
    BY <1>3, <1>4, <2>1
  <2>2. CASE i = Len(tasksQ[c]) + 1
    <3>1. i + HalfTake(c) = Len(exModeQ[c])
      BY <1>1, <1>2, <2>2
    <3> QED
      BY <1>3, <2>2, <3>1
  <2> QED
    BY <1>1, <1>3, <2>1, <2>2
<1> QED
  BY <1>4, <1>5

LEMMA PairedInductive ==
  ASSUME TypeOK, ExModeBalance, RecordsPaired, [Next]_vars
  PROVE  RecordsPaired'
<1> SUFFICES ASSUME NEW c \in Cameras PROVE Paired(c)'
  BY DEF RecordsPaired
<1> USE DEF queueVars, workVars, subVars, mainVars, exitVars
<1>a. c \in Workers /\ c # Io /\ Io \in Workers
  BY ThreadNumbers
<1>b. Balanced(c) /\ Paired(c)
  BY DEF ExModeBalance, RecordsPaired
<1>c. /\ tasksQ \in [Workers -> Seq(Task)] /\ exModeQ \in [Cameras -> Seq(Task)]
      /\ wpc \in [Workers -> WorkerPC] /\ mainCam \in Cameras /\ mainCam \in Workers
      /\ subTo \in Workers /\ overlap \in [Cameras -> BOOLEAN] /\ cur \in [Workers -> Task]
  BY ThreadNumbers DEF TypeOK
<1>d. /\ <<"sub", nCmd>> \in Task /\ <<"sub", nCmd + 1>> \in Task
      /\ <<"flow", nRun>> \in Task /\ <<"flow", nRun + 1>> \in Task
  <2>1. nCmd \in Nat /\ nRun \in Nat /\ nCmd + 1 \in Nat /\ nRun + 1 \in Nat
    BY BoundsAssumption DEF TypeOK
  <2> QED
    BY <2>1, Tasks
<1>1. CASE SubIo
  <2>1. tasksQ'[c] = tasksQ[c]
    BY <1>a, <1>c, <1>1 DEF SubIo, EnQ
  <2>2. UNCHANGED <<exModeQ, overlap, nRun, cur, wpc, mainPc, mainCam>>
        /\ subPc = "ready" /\ subPc' = "token"
    BY <1>1 DEF SubIo, Receive
  <2>3. HalfSub(c) = 0 /\ HalfSub(c)' = 0 /\ HalfFlow(c)' = HalfFlow(c) /\ HalfTake(c)' = HalfTake(c)
    BY <2>2 DEF HalfSub, HalfFlow, HalfTake
  <2> QED
    BY <1>b, <2>1, <2>2, <2>3, PairedKept
<1>2. ASSUME NEW d \in Cameras, SubExMode(d) PROVE Paired(c)'
  <2>1. /\ UNCHANGED <<tasksQ, nRun, cur, wpc, mainPc, mainCam>>
        /\ subPc = "ready" /\ subPc' = "task" /\ subTo' = d /\ nCmd' = nCmd + 1
        /\ exModeQ' = EnQ(exModeQ, d, <<"sub", nCmd + 1>>)
    BY <1>2 DEF SubExMode, Receive
  <2>2. /\ HalfSub(c) = 0 /\ HalfSub(c)' = (IF d = c THEN 1 ELSE 0)
        /\ HalfFlow(c)' = HalfFlow(c) /\ HalfTake(c)' = HalfTake(c)
    BY <2>1 DEF HalfSub, HalfFlow, HalfTake
  <2>3. CASE d # c
    <3>1. exModeQ'[c] = exModeQ[c] /\ overlap'[c] = overlap[c]
      BY <1>2, <1>c, <2>1, <2>3 DEF SubExMode, EnQ
    <3> QED
      BY <1>b, <2>1, <2>2, <2>3, <3>1, PairedKept
  <2>4. CASE d = c /\ ~overlap'[c]
    <3>1. ~overlap[c] /\ HalfFlow(c) = 0
      BY <1>2, <1>c, <2>4 DEF SubExMode, HalfFlow
    <3>2. exModeQ'[c] = Append(exModeQ[c], <<"sub", nCmd + 1>>)
      BY <1>c, <2>1, <2>4 DEF EnQ
    <3>3. /\ wpc'[c] = "exmode" => exModeQ'[c][1] = cur'[c]
          /\ \A i \in 1 .. Len(tasksQ'[c]) : exModeQ'[c][i + HalfTake(c)'] = tasksQ'[c][i]
          /\ exModeQ'[c][Len(exModeQ'[c])] = <<"sub", nCmd'>>
      BY <1>b, <1>d, <2>1, <2>2, <3>1, <3>2, RecordAppended
    <3> QED
      BY <2>2, <3>1, <3>3 DEF Paired
  <2> QED
    BY <2>3, <2>4 DEF Paired
<1>3. ASSUME NEW d \in Cameras, SubUnknown(d) PROVE Paired(c)'
  <2>1. UNCHANGED <<exModeQ, tasksQ, overlap, nRun, cur, wpc, mainPc, mainCam>>
        /\ subPc = "ready" /\ subPc' = "json"
    BY <1>3 DEF SubUnknown, Receive
  <2>2. HalfSub(c) = 0 /\ HalfSub(c)' = 0 /\ HalfFlow(c)' = HalfFlow(c) /\ HalfTake(c)' = HalfTake(c)
    BY <2>1 DEF HalfSub, HalfFlow, HalfTake
  <2> QED
    BY <1>b, <2>1, <2>2, PairedKept
<1>4. CASE SubTask
  <2>1. /\ UNCHANGED <<exModeQ, overlap, nCmd, nRun, cur, wpc, mainPc, mainCam>>
        /\ subPc = "task" /\ subPc' = "json" /\ tasksQ' = EnQ(tasksQ, subTo, <<"sub", nCmd>>)
    BY <1>4 DEF SubTask
  <2>2. /\ HalfSub(c) = (IF subTo = c THEN 1 ELSE 0) /\ HalfSub(c)' = 0
        /\ HalfFlow(c)' = HalfFlow(c) /\ HalfTake(c)' = HalfTake(c)
    BY <2>1 DEF HalfSub, HalfFlow, HalfTake
  <2>3. CASE subTo # c
    <3>1. tasksQ'[c] = tasksQ[c]
      BY <1>a, <1>c, <2>1, <2>3 DEF EnQ
    <3> QED
      BY <1>b, <2>1, <2>2, <2>3, <3>1, PairedKept
  <2>4. CASE subTo = c /\ ~overlap[c]
    <3>1. HalfSub(c) = 1 /\ HalfFlow(c) = 0 /\ exModeQ[c][Len(exModeQ[c])] = <<"sub", nCmd>>
      BY <1>b, <2>2, <2>4 DEF Paired
    <3>2. tasksQ'[c] = Append(tasksQ[c], <<"sub", nCmd>>)
      BY <1>a, <1>c, <2>1, <2>4 DEF EnQ
    <3>3. /\ wpc'[c] = "exmode" => exModeQ'[c][1] = cur'[c]
          /\ \A i \in 1 .. Len(tasksQ'[c]) : exModeQ'[c][i + HalfTake(c)'] = tasksQ'[c][i]
      <4>1. HalfSub(c) + HalfFlow(c) = 1
        BY <3>1
      <4> QED
        BY <1>b, <1>d, <2>1, <2>2, <2>4, <3>1, <3>2, <4>1, TaskAppended
    <3> QED
      BY <2>2, <3>1, <3>3 DEF Paired
  <2> QED
    BY <2>1, <2>3, <2>4 DEF Paired
<1>5. CASE SubJson \/ SubToken
  <2>1. UNCHANGED <<exModeQ, tasksQ, overlap, nCmd, nRun, cur, wpc, mainPc, mainCam>>
        /\ subPc # "task" /\ subPc' # "task"
    BY <1>5 DEF SubJson, SubToken
  <2>2. HalfSub(c) = 0 /\ HalfSub(c)' = 0 /\ HalfFlow(c)' = HalfFlow(c) /\ HalfTake(c)' = HalfTake(c)
    BY <2>1 DEF HalfSub, HalfFlow, HalfTake
  <2> QED
    BY <1>b, <2>1, <2>2, PairedKept
<1>6. CASE MainPoll \/ MainExit \/ MainWake \/ FlowSkip \/ FlowWake
  <2>1. UNCHANGED <<exModeQ, tasksQ, overlap, nCmd, nRun, cur, wpc, subPc, subTo>>
        /\ mainPc # "flowTask" /\ mainPc' # "flowTask"
    BY <1>6 DEF MainPoll, MainExit, MainWake, FlowSkip, FlowWake, AfterCamera
  <2>2. HalfFlow(c) = 0 /\ HalfFlow(c)' = 0 /\ HalfSub(c)' = HalfSub(c) /\ HalfTake(c)' = HalfTake(c)
    BY <2>1 DEF HalfSub, HalfFlow, HalfTake
  <2> QED
    BY <1>b, <2>1, <2>2, PairedKept
<1>7. CASE FlowExMode
  <2>1. /\ UNCHANGED <<tasksQ, nCmd, cur, wpc, mainCam, subPc, subTo>>
        /\ mainPc = "flow" /\ mainPc' = "flowTask" /\ nRun' = nRun + 1
        /\ exModeQ' = EnQ(exModeQ, mainCam, <<"flow", nRun + 1>>)
    BY <1>7 DEF FlowExMode
  <2>2. /\ HalfFlow(c) = 0 /\ HalfFlow(c)' = (IF mainCam = c THEN 1 ELSE 0)
        /\ HalfSub(c)' = HalfSub(c) /\ HalfTake(c)' = HalfTake(c)
    BY <2>1 DEF HalfSub, HalfFlow, HalfTake
  <2>3. CASE mainCam # c
    <3>1. exModeQ'[c] = exModeQ[c] /\ overlap'[c] = overlap[c]
      BY <1>7, <1>c, <2>1, <2>3 DEF FlowExMode, EnQ
    <3> QED
      BY <1>b, <2>1, <2>2, <2>3, <3>1, PairedKept
  <2>4. CASE mainCam = c /\ ~overlap'[c]
    <3>1. ~overlap[c] /\ HalfSub(c) = 0
      BY <1>7, <1>c, <2>4 DEF FlowExMode, HalfSub
    <3>2. exModeQ'[c] = Append(exModeQ[c], <<"flow", nRun + 1>>)
      BY <1>c, <2>1, <2>4 DEF EnQ
    <3>3. /\ wpc'[c] = "exmode" => exModeQ'[c][1] = cur'[c]
          /\ \A i \in 1 .. Len(tasksQ'[c]) : exModeQ'[c][i + HalfTake(c)'] = tasksQ'[c][i]
          /\ exModeQ'[c][Len(exModeQ'[c])] = <<"flow", nRun'>>
      BY <1>b, <1>d, <2>1, <2>2, <3>1, <3>2, RecordAppended
    <3> QED
      BY <2>2, <3>1, <3>3 DEF Paired
  <2> QED
    BY <2>3, <2>4 DEF Paired
<1>8. CASE FlowTask
  <2>1. /\ UNCHANGED <<exModeQ, overlap, nCmd, nRun, cur, wpc, mainCam, subPc, subTo>>
        /\ mainPc = "flowTask" /\ mainPc' = "flowWake"
        /\ tasksQ' = EnQ(tasksQ, mainCam, <<"flow", nRun>>)
    BY <1>8 DEF FlowTask
  <2>2. /\ HalfFlow(c) = (IF mainCam = c THEN 1 ELSE 0) /\ HalfFlow(c)' = 0
        /\ HalfSub(c)' = HalfSub(c) /\ HalfTake(c)' = HalfTake(c)
    BY <2>1 DEF HalfSub, HalfFlow, HalfTake
  <2>3. CASE mainCam # c
    <3>1. tasksQ'[c] = tasksQ[c]
      BY <1>a, <1>c, <2>1, <2>3 DEF EnQ
    <3> QED
      BY <1>b, <2>1, <2>2, <2>3, <3>1, PairedKept
  <2>4. CASE mainCam = c /\ ~overlap[c]
    <3>1. HalfFlow(c) = 1 /\ HalfSub(c) = 0 /\ exModeQ[c][Len(exModeQ[c])] = <<"flow", nRun>>
      BY <1>b, <2>2, <2>4, Halves DEF Paired
    <3>2. tasksQ'[c] = Append(tasksQ[c], <<"flow", nRun>>)
      BY <1>a, <1>c, <2>1, <2>4 DEF EnQ
    <3>3. /\ wpc'[c] = "exmode" => exModeQ'[c][1] = cur'[c]
          /\ \A i \in 1 .. Len(tasksQ'[c]) : exModeQ'[c][i + HalfTake(c)'] = tasksQ'[c][i]
      <4>1. HalfSub(c) + HalfFlow(c) = 1
        BY <3>1
      <4> QED
        BY <1>b, <1>d, <2>1, <2>2, <2>4, <3>1, <3>2, <4>1, TaskAppended
    <3> QED
      BY <2>2, <3>1, <3>3 DEF Paired
  <2> QED
    BY <2>1, <2>3, <2>4 DEF Paired
<1>9. ASSUME NEW w \in Workers, w # c, Worker(w) PROVE Paired(c)'
  <2>1. UNCHANGED <<overlap, nCmd, nRun, mainPc, mainCam, subPc, subTo>>
    BY <1>9 DEF Worker, WorkerTop, WorkerGate, WorkerTake, WorkerExMode, WorkerRun, WorkerDrained,
                WorkerIdle, WorkerPark
  <2>2. UNCHANGED <<exModeQ[c], tasksQ[c], wpc[c], cur[c]>>
    BY <1>9, <1>a, <1>c
       DEF Worker, WorkerTop, WorkerGate, WorkerTake, WorkerExMode, WorkerRun, WorkerDrained,
           WorkerIdle, WorkerPark, Goto, DeQ
  <2>3. HalfFlow(c)' = HalfFlow(c) /\ HalfSub(c)' = HalfSub(c) /\ HalfTake(c)' = HalfTake(c)
    BY <2>1, <2>2 DEF HalfSub, HalfFlow, HalfTake
  <2> QED
    BY <1>b, <2>1, <2>2, <2>3, PairedKept
<1>10. CASE WorkerTake(c)
  <2>1. /\ UNCHANGED <<exModeQ, overlap, nCmd, nRun, mainPc, mainCam, subPc, subTo>>
        /\ tasksQ[c] # <<>> /\ wpc[c] = "drain" /\ wpc'[c] = "exmode"
        /\ tasksQ'[c] = Tail(tasksQ[c]) /\ cur'[c] = Head(tasksQ[c])
    BY <1>10, <1>a, <1>c DEF WorkerTake, DeQ, Goto
  <2>2. /\ HalfTake(c) = 0 /\ HalfTake(c)' = 1
        /\ HalfFlow(c)' = HalfFlow(c) /\ HalfSub(c)' = HalfSub(c)
    BY <2>1 DEF HalfSub, HalfFlow, HalfTake
  <2>3. /\ Len(tasksQ[c]) \in Nat /\ Len(tasksQ[c]) > 0 /\ Len(tasksQ'[c]) = Len(tasksQ[c]) - 1
        /\ \A i \in 1 .. Len(tasksQ'[c]) : tasksQ'[c][i] = tasksQ[c][i + 1]
        /\ cur'[c] = tasksQ[c][1]
    BY <1>a, <1>c, <2>1, TailFacts
  <2>4. ASSUME ~overlap[c]
        PROVE  /\ exModeQ[c][1] = cur'[c]
               /\ \A i \in 1 .. Len(tasksQ'[c]) : exModeQ[c][i + 1] = tasksQ'[c][i]
    <3>1. \A i \in 1 .. Len(tasksQ[c]) : exModeQ[c][i] = tasksQ[c][i]
      BY <1>b, <2>2, <2>4 DEF Paired
    <3>2. exModeQ[c][1] = cur'[c]
      BY <2>3, <3>1
    <3>3. \A i \in 1 .. Len(tasksQ'[c]) : i + 1 \in 1 .. Len(tasksQ[c])
      BY <2>3
    <3> QED
      BY <2>3, <3>1, <3>2, <3>3
  <2> QED
    BY <1>b, <2>1, <2>2, <2>4 DEF Paired
<1>11. CASE WorkerExMode(c)
  <2>1. /\ UNCHANGED <<tasksQ, overlap, nCmd, nRun, mainPc, mainCam, subPc, subTo>>
        /\ wpc[c] = "exmode" /\ wpc'[c] = "run"
    BY <1>11, <1>a, <1>c DEF WorkerExMode, Goto
  <2>2. /\ HalfTake(c) = 1 /\ HalfTake(c)' = 0
        /\ HalfFlow(c)' = HalfFlow(c) /\ HalfSub(c)' = HalfSub(c)
    BY <2>1 DEF HalfSub, HalfFlow, HalfTake
  <2>3. exModeQ[c] \in Seq(Task) /\ tasksQ[c] \in Seq(Task) /\ Len(tasksQ[c]) \in Nat
    BY <1>a, <1>c
  <2>4. Len(exModeQ[c]) = Len(tasksQ[c]) + 1 + HalfSub(c) + HalfFlow(c)
        /\ HalfSub(c) \in {0, 1} /\ HalfFlow(c) \in {0, 1}
    BY <1>b, <2>2, <2>3, Halves DEF Balanced
  <2>5. exModeQ[c] # <<>>
    BY <2>3, <2>4
  <2>6. exModeQ'[c] = Tail(exModeQ[c])
    BY <1>11, <1>c, <2>5 DEF WorkerExMode, DeQ
  <2>7. /\ Len(exModeQ[c]) \in Nat /\ Len(exModeQ'[c]) = Len(exModeQ[c]) - 1
        /\ \A i \in 1 .. Len(exModeQ[c]) - 1 : exModeQ'[c][i] = exModeQ[c][i + 1]
    BY <2>3, <2>5, <2>6, TailFacts
  <2>8. ASSUME ~overlap[c]
        PROVE  \A i \in 1 .. Len(tasksQ[c]) : exModeQ'[c][i] = tasksQ[c][i]
    <3>1. \A i \in 1 .. Len(tasksQ[c]) : exModeQ[c][i + 1] = tasksQ[c][i]
      BY <1>b, <2>2, <2>8 DEF Paired
    <3>2. \A i \in 1 .. Len(tasksQ[c]) : i \in 1 .. Len(exModeQ[c]) - 1
      BY <2>3, <2>4
    <3> QED
      BY <2>7, <3>1, <3>2
  <2>9. HalfSub(c) = 1 \/ HalfFlow(c) = 1
          => exModeQ'[c][Len(exModeQ'[c])] = exModeQ[c][Len(exModeQ[c])]
    <3> SUFFICES ASSUME HalfSub(c) = 1 \/ HalfFlow(c) = 1
                 PROVE  exModeQ'[c][Len(exModeQ'[c])] = exModeQ[c][Len(exModeQ[c])]
      OBVIOUS
    <3>1. Len(exModeQ[c]) - 1 \in 1 .. Len(exModeQ[c]) - 1
      BY <2>3, <2>4
    <3>2. exModeQ'[c][Len(exModeQ[c]) - 1] = exModeQ[c][Len(exModeQ[c]) - 1 + 1]
      BY <2>7, <3>1
    <3>3. Len(exModeQ[c]) - 1 + 1 = Len(exModeQ[c])
      BY <2>7
    <3> QED
      BY <2>7, <3>2, <3>3
  <2> QED
    BY <1>b, <2>1, <2>2, <2>8, <2>9 DEF Paired
<1>12. CASE WorkerTop(c) \/ WorkerGate(c) \/ WorkerRun(c) \/ WorkerDrained(c)
               \/ WorkerIdle(c) \/ WorkerPark(c)
  <2>1. UNCHANGED <<exModeQ, tasksQ, overlap, nCmd, nRun, mainPc, mainCam, subPc, subTo>>
        /\ wpc[c] # "exmode"
    BY <1>12 DEF WorkerTop, WorkerGate, WorkerRun, WorkerDrained, WorkerIdle, WorkerPark
  <2>2. wpc'[c] # "exmode"
    <3>1. \E p \in WorkerPC \ {"exmode"} : Goto(c, p)
      BY <1>12 DEF WorkerTop, WorkerGate, WorkerRun, WorkerDrained, WorkerIdle, WorkerPark, WorkerPC
    <3> QED
      BY <1>a, <1>c, <3>1 DEF Goto
  <2>3. HalfTake(c) = 0 /\ HalfTake(c)' = 0 /\ HalfFlow(c)' = HalfFlow(c) /\ HalfSub(c)' = HalfSub(c)
    BY <2>1, <2>2 DEF HalfSub, HalfFlow, HalfTake
  <2> QED
    BY <1>b, <2>1, <2>3, PairedKept
<1>13. CASE BootSuspend \/ SigExit \/ ExitRest \/ UNCHANGED vars
  <2>1. UNCHANGED <<exModeQ, tasksQ, overlap, nCmd, nRun, cur, wpc, mainPc, mainCam, subPc, subTo>>
    BY <1>13 DEF BootSuspend, SigExit, ExitRest, ExitSuspend, ExitClose, ExitCloseMp, ExitJoin, vars
  <2>2. HalfTake(c)' = HalfTake(c) /\ HalfFlow(c)' = HalfFlow(c) /\ HalfSub(c)' = HalfSub(c)
    BY <2>1 DEF HalfSub, HalfFlow, HalfTake
  <2> QED
    BY <1>b, <2>1, <2>2, PairedKept
<1>14. CASE Worker(c)
  BY <1>10, <1>11, <1>12, <1>14 DEF Worker
<1> QED
  BY <1>1, <1>2, <1>3, <1>4, <1>5, <1>6, <1>7, <1>8, <1>9, <1>13, <1>14
     DEF Next, Sub, SubFinish, Main

(* On a camera where the subscriber and the inspection flow never          *)
(* submitted at the same time, a worker runs each task under the mode      *)
(* record submitted with it, however many tasks are queued and wherever    *)
(* its own two dequeues fall.                                              *)
THEOREM RecordsArePaired == Spec => []SerialSubmissionsPair
<1>1. Init => ExModeBalance /\ RecordsPaired
  <2> SUFFICES ASSUME Init, NEW c \in Cameras PROVE Balanced(c) /\ Paired(c)
    BY DEF ExModeBalance, RecordsPaired
  <2>1. exModeQ[c] = <<>> /\ tasksQ[c] = <<>> /\ wpc[c] = "top" /\ subPc = "ready" /\ mainPc = "poll"
    BY ThreadNumbers DEF Init
  <2>2. HalfSub(c) = 0 /\ HalfFlow(c) = 0 /\ HalfTake(c) = 0
    BY <2>1 DEF HalfSub, HalfFlow, HalfTake
  <2> QED
    BY <2>1, <2>2 DEF Balanced, Paired
<1>2. ASSUME TypeOK, RecordsPaired PROVE SerialSubmissionsPair
  <2> SUFFICES ASSUME NEW c \in Cameras, wpc[c] = "exmode", ~overlap[c], exModeQ[c] # <<>>
               PROVE  Head(exModeQ[c]) = cur[c]
    BY DEF SerialSubmissionsPair
  <2>1. exModeQ[c] \in Seq(Task)
    BY <1>2 DEF TypeOK
  <2>2. Head(exModeQ[c]) = exModeQ[c][1]
    BY <2>1, TailFacts
  <2> QED
    BY <1>2, <2>2 DEF RecordsPaired, Paired
<1> QED
  BY <1>1, <1>2, TypeCorrect, BalanceInductive, PairedInductive, PTL DEF Spec
-----------------------------------------------------------------------------
(* Who can strand work. *)

(* The subscriber has a camera's command in hand while it queues the task  *)
(* or the ticket.                                                          *)
ForCamera == subPc \in {"task", "json"} => subTo \in Cameras

LEMMA ForCameraInductive == TypeOK /\ ForCamera /\ [Next]_vars => ForCamera'
<1> SUFFICES ASSUME TypeOK, ForCamera, [Next]_vars PROVE ForCamera'
  OBVIOUS
<1> USE DEF queueVars, workVars, subVars, mainVars, exitVars
<1>1. CASE Sub
  BY <1>1 DEF ForCamera, Sub, SubIo, SubExMode, SubUnknown, SubFinish, SubTask, SubJson, SubToken,
              Receive
<1>2. CASE Main
  BY <1>2 DEF ForCamera, Main, MainPoll, MainExit, MainWake, FlowSkip, FlowExMode, FlowTask, FlowWake
<1>3. CASE \E w \in Workers : Worker(w)
  BY <1>3 DEF ForCamera, Worker, WorkerTop, WorkerGate, WorkerTake, WorkerExMode, WorkerRun,
              WorkerDrained, WorkerIdle, WorkerPark
<1>4. CASE BootSuspend \/ SigExit \/ ExitRest \/ UNCHANGED vars
  BY <1>4 DEF ForCamera, BootSuspend, SigExit, ExitRest, ExitSuspend, ExitClose, ExitCloseMp,
              ExitJoin, vars
<1> QED
  BY <1>1, <1>2, <1>3, <1>4 DEF Next

(* A step after which w is stranded, and was before: it found w asleep     *)
(* with work, and no resume was on its way that it ended.                  *)
LEMMA StrandedBefore ==
  ASSUME NEW w, Stranded(w)', UNCHANGED <<exitPc, wpc>>,
         suspendFlag'[w] => suspendFlag[w],
         tasksQ'[w] # <<>> => tasksQ[w] # <<>>,
         ResumeComing(w) => ResumeComing(w)'
  PROVE  Stranded(w)
BY DEF Stranded

LEMMA SubStrandsNobody ==
  ASSUME TypeOK, ForCamera, Sub, NEW w \in Workers, Stranded(w)'
  PROVE  Stranded(w)
<1> USE DEF queueVars, workVars, subVars, mainVars, exitVars
<1>a. /\ tasksQ \in [Workers -> Seq(Task)] /\ jsonQ \in [Cameras -> Nat] /\ mainQ \in Nat
      /\ suspendFlag \in [Workers -> BOOLEAN] /\ subTo \in Workers
      /\ w # Io => w \in Cameras
  BY ThreadNumbers DEF TypeOK
<1>b. ~ResumeComing(w)'
  BY DEF Stranded
<1>c. UNCHANGED <<suspendFlag, wpc, exitPc, mainPc, mainCam>>
  BY DEF Sub, SubIo, SubExMode, SubUnknown, SubFinish, SubTask, SubJson, SubToken
<1>1. CASE SubIo
  <2>1. UNCHANGED <<jsonQ, mainQ>> /\ subPc = "ready" /\ subPc' = "token"
        /\ tasksQ' = EnQ(tasksQ, Io, <<"sub", nCmd + 1>>)
    BY <1>1 DEF SubIo, Receive
  <2>2. w # Io
    BY <1>b, <2>1 DEF ResumeComing
  <2>3. tasksQ'[w] = tasksQ[w]
    BY <1>a, <2>1, <2>2 DEF EnQ
  <2>4. ResumeComing(w) => ResumeComing(w)'
    BY <1>c, <2>1, <2>2 DEF ResumeComing
  <2> QED
    BY <1>c, <2>3, <2>4, StrandedBefore
<1>2. ASSUME NEW c \in Cameras, SubExMode(c) \/ SubUnknown(c) PROVE Stranded(w)
  <2>1. UNCHANGED <<tasksQ, jsonQ, mainQ>> /\ subPc = "ready" /\ subPc' \in {"task", "json"}
    BY <1>2 DEF SubExMode, SubUnknown, Receive
  <2>2. ResumeComing(w) => ResumeComing(w)'
    BY <1>c, <2>1 DEF ResumeComing
  <2> QED
    BY <1>c, <2>1, <2>2, StrandedBefore
<1>3. CASE SubTask
  <2>1. UNCHANGED <<jsonQ, mainQ, subTo>> /\ subPc = "task" /\ subPc' = "json"
        /\ tasksQ' = EnQ(tasksQ, subTo, <<"sub", nCmd>>) /\ subTo \in Cameras
    BY <1>3 DEF SubTask, ForCamera
  <2>2. w # subTo
    BY <1>b, <2>1, ThreadNumbers DEF ResumeComing
  <2>3. tasksQ'[w] = tasksQ[w]
    BY <1>a, <2>1, <2>2 DEF EnQ
  <2>4. ResumeComing(w) => ResumeComing(w)'
    BY <1>c, <2>1, <2>2 DEF ResumeComing
  <2> QED
    BY <1>c, <2>3, <2>4, StrandedBefore
<1>4. CASE SubJson
  <2>1. UNCHANGED <<tasksQ, mainQ, subTo>> /\ subPc = "json" /\ subPc' = "token"
        /\ jsonQ' = [jsonQ EXCEPT ![subTo] = @ + 1] /\ subTo \in Cameras
    BY <1>4 DEF SubJson, ForCamera
  <2>2. w # Io
    BY <1>b, <2>1 DEF ResumeComing
  <2>3. jsonQ'[w] = jsonQ[w] /\ w # subTo
    <3>1. jsonQ'[subTo] > 0
      BY <1>a, <2>1
    <3>2. w # subTo
      BY <1>b, <2>1, <2>2, <3>1 DEF ResumeComing
    <3> QED
      BY <1>a, <2>1, <2>2, <3>2
  <2>4. ResumeComing(w) => ResumeComing(w)'
    BY <1>c, <2>1, <2>2, <2>3 DEF ResumeComing
  <2> QED
    BY <1>c, <2>1, <2>4, StrandedBefore
<1>5. CASE SubToken
  <2>1. UNCHANGED <<tasksQ, jsonQ, subTo>> /\ subPc = "token" /\ subPc' = "ready"
        /\ mainQ' = mainQ + 1
    BY <1>5 DEF SubToken
  <2>2. mainQ' > 0
    BY <1>a, <2>1
  <2>3. ResumeComing(w) => ResumeComing(w)'
    BY <1>c, <2>1, <2>2 DEF ResumeComing
  <2> QED
    BY <1>c, <2>1, <2>3, StrandedBefore
<1> QED
  BY <1>1, <1>2, <1>3, <1>4, <1>5 DEF Sub, SubFinish

LEMMA MainStrandsNobody ==
  ASSUME TypeOK, TicketsCovered, Main, NEW w \in Workers, Stranded(w)'
  PROVE  Stranded(w)
<1> USE DEF queueVars, workVars, subVars, mainVars, exitVars
<1>a. /\ tasksQ \in [Workers -> Seq(Task)] /\ jsonQ \in [Cameras -> Nat] /\ mainQ \in Nat
      /\ suspendFlag \in [Workers -> BOOLEAN] /\ mainCam \in Cameras /\ mainCam \in Workers
      /\ w # Io => w \in Cameras
      /\ mainCam # Io
  BY ThreadNumbers DEF TypeOK
<1>b. ~ResumeComing(w)' /\ suspendFlag'[w] /\ tasksQ'[w] # <<>>
  BY DEF Stranded
<1>c. UNCHANGED <<wpc, exitPc, subPc, subTo>>
  BY DEF Main, MainPoll, MainExit, MainWake, FlowSkip, FlowExMode, FlowTask, FlowWake
<1>d. /\ w \in Int /\ mainCam \in Int /\ NumCameras \in Int /\ 0 <= w /\ 0 <= mainCam
      /\ w # Io => w < NumCameras
  BY NumCamerasAssumption DEF TypeOK, Cameras, Workers, Io
<1>1. CASE MainPoll
  <2>1. UNCHANGED <<tasksQ, jsonQ, mainCam>> /\ mainPc = "poll" /\ mainCam = 0
    BY <1>1 DEF MainPoll, TicketsCovered
  <2>2. CASE mainQ = 0
    <3>1. UNCHANGED <<mainQ, suspendFlag>> /\ mainPc' = "flow"
      BY <1>1, <2>2 DEF MainPoll
    <3>2. ResumeComing(w) => ResumeComing(w)'
      BY <1>c, <2>1, <3>1 DEF ResumeComing
    <3> QED
      BY <1>c, <2>1, <3>1, <3>2, StrandedBefore
  <2>3. CASE mainQ # 0
    <3>1. mainPc' = "wake" /\ mainQ' = mainQ - 1
      BY <1>1, <2>3 DEF MainPoll
    <3>2. w # Io
      BY <1>1, <1>a, <1>b, <2>1, <2>3, ThreadNumbers DEF MainPoll, Resume
    <3>3. suspendFlag'[w] = suspendFlag[w]
      BY <1>1, <1>a, <2>3, <3>2 DEF MainPoll, Resume
    <3>4. ~(jsonQ[w] > 0)
      BY <1>b, <1>d, <2>1, <3>1, <3>2 DEF ResumeComing
    <3>5. ResumeComing(w) => ResumeComing(w)'
      BY <1>c, <2>1, <3>1, <3>2, <3>4 DEF ResumeComing
    <3> QED
      BY <1>c, <2>1, <3>3, <3>5, StrandedBefore
  <2> QED
    BY <2>2, <2>3
<1>2. CASE MainExit \/ FlowSkip
  <2>1. /\ UNCHANGED <<tasksQ, jsonQ, mainQ, suspendFlag>>
        /\ mainPc \notin {"wake", "flowTask", "flowWake"}
        /\ mainPc' \notin {"wake", "flowTask", "flowWake"}
    BY <1>2 DEF MainExit, FlowSkip, AfterCamera
  <2>2. ResumeComing(w) => ResumeComing(w)'
    BY <1>c, <2>1 DEF ResumeComing
  <2> QED
    BY <1>c, <2>1, <2>2, StrandedBefore
<1>3. CASE MainWake
  <2>1. UNCHANGED <<tasksQ, mainQ>> /\ mainPc = "wake" /\ AfterCamera("wake", "flow")
        /\ mainPc' \in {"wake", "flow"}
    BY <1>3 DEF MainWake, AfterCamera
  <2>2. CASE w = mainCam
    <3>1. ~(jsonQ[w] > 0)
      BY <1>3, <1>a, <1>b, <2>2 DEF MainWake, Resume
    <3>2. UNCHANGED <<jsonQ, suspendFlag>>
      BY <1>3, <2>2, <3>1 DEF MainWake
    <3>3. ResumeComing(w) => ResumeComing(w)'
      BY <1>a, <1>c, <2>1, <2>2, <3>1, <3>2 DEF ResumeComing
    <3> QED
      BY <1>c, <2>1, <3>2, <3>3, StrandedBefore
  <2>3. CASE w # mainCam
    <3>1. suspendFlag'[w] = suspendFlag[w] /\ (w # Io => jsonQ'[w] = jsonQ[w])
      BY <1>3, <1>a, <2>3 DEF MainWake, Resume
    <3>2. w # Io /\ mainCam <= w => mainPc' = "wake" /\ mainCam' <= w
      BY <1>d, <2>1, <2>3 DEF AfterCamera
    <3>3. ResumeComing(w) => ResumeComing(w)'
      BY <1>c, <2>1, <3>1, <3>2 DEF ResumeComing
    <3> QED
      BY <1>c, <2>1, <3>1, <3>3, StrandedBefore
  <2> QED
    BY <2>2, <2>3
<1>4. CASE FlowExMode
  <2>1. UNCHANGED <<tasksQ, jsonQ, mainQ, suspendFlag, mainCam>>
        /\ mainPc = "flow" /\ mainPc' = "flowTask"
    BY <1>4 DEF FlowExMode
  <2>2. ResumeComing(w) => ResumeComing(w)'
    BY <1>c, <2>1 DEF ResumeComing
  <2> QED
    BY <1>c, <2>1, <2>2, StrandedBefore
<1>5. CASE FlowTask
  <2>1. UNCHANGED <<jsonQ, mainQ, suspendFlag, mainCam>>
        /\ mainPc = "flowTask" /\ mainPc' = "flowWake"
        /\ tasksQ' = EnQ(tasksQ, mainCam, <<"flow", nRun>>)
    BY <1>5 DEF FlowTask
  <2>2. w # mainCam
    BY <1>a, <1>b, <2>1 DEF ResumeComing
  <2>3. tasksQ'[w] = tasksQ[w]
    BY <1>a, <2>1, <2>2 DEF EnQ
  <2>4. ResumeComing(w) => ResumeComing(w)'
    BY <1>c, <2>1 DEF ResumeComing
  <2> QED
    BY <1>c, <2>1, <2>3, <2>4, StrandedBefore
<1>6. CASE FlowWake
  <2>1. UNCHANGED <<tasksQ, jsonQ, mainQ>> /\ mainPc = "flowWake" /\ Resume(mainCam)
        /\ mainPc' \in {"flow", "poll"}
    BY <1>6 DEF FlowWake, AfterCamera
  <2>2. w # mainCam
    BY <1>a, <1>b, <2>1 DEF Resume
  <2>3. suspendFlag'[w] = suspendFlag[w]
    BY <1>a, <2>1, <2>2 DEF Resume
  <2>4. ResumeComing(w) => ResumeComing(w)'
    BY <1>c, <2>1, <2>2 DEF ResumeComing
  <2> QED
    BY <1>c, <2>1, <2>3, <2>4, StrandedBefore
<1> QED
  BY <1>1, <1>2, <1>3, <1>4, <1>5, <1>6 DEF Main

LEMMA OthersLeaveSubmitters ==
  ASSUME [Next]_vars, ~Sub, ~Main
  PROVE  UNCHANGED <<subVars, mainVars>>
<1>1. CASE \E w \in Workers : Worker(w)
  BY <1>1 DEF Worker, WorkerTop, WorkerGate, WorkerTake, WorkerExMode, WorkerRun, WorkerDrained,
              WorkerIdle, WorkerPark
<1>2. CASE BootSuspend \/ SigExit \/ ExitRest \/ UNCHANGED vars
  BY <1>2 DEF BootSuspend, SigExit, ExitRest, ExitSuspend, ExitClose, ExitCloseMp, ExitJoin, vars
<1> QED
  BY <1>1, <1>2 DEF Next

(* Neither the subscriber nor mainCtl strands the queue of a worker, for   *)
(* any number of cameras: after each of their steps that leaves work with  *)
(* a sleeping worker, its resume is still to come, unless the worker was   *)
(* stranded before.                                                        *)
THEOREM SubmittersStrandNobody == Spec => OnlySuspendStrands
<1> DEFINE A == \A w \in Workers : ~Stranded(w) /\ Stranded(w)' => UNCHANGED <<subVars, mainVars>>
<1>1. Init => ForCamera
  BY DEF Init, ForCamera
<1>2. TypeOK /\ ForCamera /\ TicketsCovered /\ [Next]_vars => [A]_vars
  BY SubStrandsNobody, MainStrandsNobody, OthersLeaveSubmitters
<1> QED
  BY <1>1, <1>2, TypeCorrect, TicketsAlways, ForCameraInductive, PTL DEF Spec, OnlySuspendStrands
=============================================================================
