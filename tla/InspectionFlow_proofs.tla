------------------------ MODULE InspectionFlow_proofs -----------------------
(***************************************************************************)
(* What holds of InspectionFlow for every configuration of triggers and    *)
(* outputs, every outcome of the runs and any number of triggers and       *)
(* AUTO_TEST_SET_MODE commands.                                            *)
(***************************************************************************)
EXTENDS InspectionFlow, FiniteSetTheorems, TLAPS

LEMMA TwoCameras == 0 \in Cameras /\ 1 \in Cameras /\ \A c \in Cameras : Other(c) \in Cameras
BY DEF Cameras, Other

(* Writing one entry of an array keeps its type. *)
LEMMA SetType ==
  ASSUME NEW R, NEW f \in [Cameras -> R], NEW c \in Cameras, NEW v \in R
  PROVE  Set(f, c, v) \in [Cameras -> R]
BY DEF Set

LEMMA BumpType ==
  ASSUME NEW f \in [Cameras -> Nat], NEW c \in Cameras
  PROVE  Bump(f, c) \in [Cameras -> Nat]
<1>1. f[c] + 1 \in Nat
  OBVIOUS
<1> QED
  BY <1>1 DEF Bump

LEMMA DropType ==
  ASSUME NEW f \in [Cameras -> Nat], NEW c \in Cameras, f[c] > 0
  PROVE  [f EXCEPT ![c] = @ - 1] \in [Cameras -> Nat]
<1>1. f[c] - 1 \in Nat
  OBVIOUS
<1> QED
  BY <1>1

(* The part of the state that decides what a handler does next. *)
CycleType ==
  /\ giFlow \in [Cameras -> Flow] /\ wake \in [Cameras -> BOOLEAN]
  /\ mainPc \in MainPC /\ at \in Cameras
  /\ accepted \in [Cameras -> Nat] /\ submitted \in [Cameras -> Nat]
  /\ announced \in [Cameras -> Nat]

LEMMA CycleTypeInductive == CycleType /\ [Next]_vars => CycleType'
<1> SUFFICES ASSUME CycleType, [Next]_vars PROVE CycleType'
  OBVIOUS
<1> USE DEF confVars, flowVars, workerVars, mainVars, ioVars, histVars
<1>0. at \in Cameras /\ Other(at) \in Cameras
  BY TwoCameras DEF CycleType
<1>1. CASE Main
  <2>1. mainPc' \in MainPC /\ at' \in Cameras
    BY <1>0, <1>1 DEF CycleType, Main, Nothing, Start, Arm, Take, Accept, Bounce, Execute, Poll,
                      Judge, Judged, Restart, Leave, Within, MainPC
  <2>2. giFlow' \in [Cameras -> Flow]
    BY <1>0, <1>1 DEF CycleType, Main, Nothing, Start, Arm, Take, Accept, Bounce, Execute, Poll,
                      Judge, Judged, Restart, Set, Flow
  <2>3. wake' \in [Cameras -> BOOLEAN]
    BY <1>0, <1>1 DEF CycleType, Main, Nothing, Start, Arm, Take, Accept, Bounce, Execute, Poll,
                      Judge, Judged, Restart, Set
  <2>4. accepted' \in [Cameras -> Nat] /\ submitted' \in [Cameras -> Nat]
        /\ announced' \in [Cameras -> Nat]
    BY <1>0, <1>1, BumpType
       DEF CycleType, Main, Nothing, Start, Arm, Take, Accept, Bounce, Execute, Poll, Judge,
           Judged, Restart
  <2> QED
    BY <2>1, <2>2, <2>3, <2>4 DEF CycleType
<1>2. CASE \E c \in Cameras : Worker(c)
  BY <1>2 DEF CycleType, Worker, WorkerBegin, WorkerTake, WorkerEnd, WorkerPost,
                         WorkerDrained, WorkerCheck, WorkerPark
<1>3. CASE IoAutoTest
  BY <1>3 DEF CycleType, IoAutoTest, Set, Flow
<1>4. CASE (\E c \in TriggerCams : Raise(c)) \/ Commands
  BY <1>4 DEF CycleType, Raise, Commands, ReportResult, AutoTestSetMode, DinSetMode, DoutSetMode,
              CommandRun
<1>5. CASE UNCHANGED vars
  BY <1>5 DEF CycleType, vars
<1> QED
  BY <1>1, <1>2, <1>3, <1>4, <1>5 DEF Next
-----------------------------------------------------------------------------
(* The cycle of camera c, as an inductive invariant: an accepted trigger   *)
(* pays for one run and one announcement, and the wake flag says which of  *)
(* an EXECUTE's two kinds of visit is next.  The clauses on mainPc are     *)
(* needed because IoAutoTest may reset giFlow while a handler is between   *)
(* two of its writes.                                                      *)
OwesRun(c)    == submitted[c] < accepted[c]
OwesAnswer(c) == announced[c] < accepted[c]
CycleInv(c) ==
  /\ submitted[c] <= accepted[c] /\ announced[c] <= accepted[c]
  /\ giFlow[c] = "WAIT" => ~wake[c]
  /\ giFlow[c] = "EXECUTE" => wake[c] \/ OwesRun(c)
  /\ giFlow[c] \in {"EXECUTE", "RESULT"} => OwesAnswer(c)
  /\ mainPc = "poll" /\ at = c => wake[c]
  /\ mainPc \in {"poll", "verdict", "restart"} /\ at = c => OwesAnswer(c)

(* A step that touches nothing CycleInv(c) speaks of. *)
LEMMA CycleKept ==
  ASSUME NEW c \in Cameras, CycleInv(c),
         UNCHANGED <<submitted[c], accepted[c], announced[c], giFlow[c], wake[c]>>,
         mainPc' \in {"poll", "verdict", "restart"} /\ at' = c
           => mainPc = mainPc' /\ at = c
  PROVE  CycleInv(c)'
BY DEF CycleInv, OwesRun, OwesAnswer

CycleInvs == \A c \in Cameras : CycleInv(c)

LEMMA CycleInductive ==
  ASSUME CycleType, CycleInvs, [Next]_vars
  PROVE  CycleInvs'
<1> SUFFICES ASSUME NEW c \in Cameras PROVE CycleInv(c)'
  BY DEF CycleInvs
<1> USE DEF confVars, flowVars, workerVars, mainVars, ioVars, histVars
<1>a. CycleInv(c)
  BY DEF CycleInvs
<1>b. /\ giFlow \in [Cameras -> Flow] /\ wake \in [Cameras -> BOOLEAN]
      /\ accepted \in [Cameras -> Nat] /\ submitted \in [Cameras -> Nat]
      /\ announced \in [Cameras -> Nat]
      /\ at \in Cameras
  BY DEF CycleType
<1>c. accepted[c] \in Nat /\ submitted[c] \in Nat /\ announced[c] \in Nat
  BY <1>b
<1>1. CASE Nothing \/ Start \/ Take \/ Bounce
  <2>1. UNCHANGED <<submitted, accepted, announced, giFlow, wake>>
    BY <1>1 DEF Nothing, Start, Take, Bounce
  <2>2. mainPc' \notin {"poll", "verdict", "restart"}
    BY <1>1 DEF Nothing, Start, Take, Bounce, Leave, Within
  <2> QED
    BY <1>a, <2>1, <2>2, CycleKept
<1>2. CASE Arm
  <2>1. UNCHANGED <<submitted, accepted, announced>> /\ mainPc' = "visit"
    BY <1>2 DEF Arm, Leave
  <2>2. CASE at = c
    <3>1. giFlow'[c] = "WAIT" /\ wake'[c] = FALSE
      BY <1>2, <1>b, <2>2 DEF Arm, Set
    <3> QED
      BY <1>a, <2>1, <3>1 DEF CycleInv
  <2>3. CASE at # c
    <3>1. giFlow'[c] = giFlow[c] /\ wake'[c] = wake[c]
      BY <1>2, <1>b, <2>3 DEF Arm, Set
    <3> QED
      BY <1>a, <2>1, <3>1, CycleKept
  <2> QED
    BY <2>2, <2>3
<1>3. CASE Accept
  <2>1. UNCHANGED <<submitted, announced, wake>> /\ mainPc' = "visit"
    BY <1>3 DEF Accept, Leave
  <2>2. CASE at = c
    <3>1. giFlow'[c] = "EXECUTE" /\ accepted'[c] = accepted[c] + 1
      BY <1>3, <1>b, <2>2 DEF Accept, Set, Bump
    <3> QED
      BY <1>a, <1>c, <2>1, <3>1 DEF CycleInv, OwesRun, OwesAnswer
  <2>3. CASE at # c
    <3>1. giFlow'[c] = giFlow[c] /\ accepted'[c] = accepted[c]
      BY <1>3, <1>b, <2>3 DEF Accept, Set, Bump
    <3> QED
      BY <1>a, <2>1, <3>1, CycleKept
  <2> QED
    BY <2>2, <2>3
<1>4. CASE Execute
  <2>1. UNCHANGED <<accepted, announced, giFlow>> /\ mainPc' = "poll" /\ at' = at
        /\ giFlow[at] = "EXECUTE"
    BY <1>4 DEF Execute, Within, Visiting
  <2>2. CASE at = c /\ wake[c]
    <3>1. submitted' = submitted /\ wake' = wake
      BY <1>4, <2>2 DEF Execute
    <3> QED
      BY <1>a, <2>1, <2>2, <3>1 DEF CycleInv, OwesRun, OwesAnswer
  <2>3. CASE at = c /\ ~wake[c]
    <3>1. submitted'[c] = submitted[c] + 1 /\ wake'[c] = TRUE
      BY <1>4, <1>b, <2>3 DEF Execute, Set, Bump
    <3> QED
      BY <1>a, <1>c, <2>1, <2>3, <3>1 DEF CycleInv, OwesRun, OwesAnswer
  <2>4. CASE at # c
    <3>1. submitted'[c] = submitted[c] /\ wake'[c] = wake[c]
      BY <1>4, <1>b, <2>4 DEF Execute, Set, Bump
    <3> QED
      BY <1>a, <2>1, <2>4, <3>1, CycleKept
  <2> QED
    BY <2>2, <2>3, <2>4
<1>5. CASE Poll
  <2>1. UNCHANGED <<submitted, accepted, announced, wake>>
        /\ mainPc = "poll" /\ mainPc' = "visit"
    BY <1>5 DEF Poll, Leave
  <2>2. CASE at = c
    <3>1. giFlow'[c] \in {"EXECUTE", "RESULT"}
      BY <1>5, <1>b, <2>2 DEF Poll, Set
    <3> QED
      BY <1>a, <2>1, <2>2, <3>1 DEF CycleInv, OwesRun, OwesAnswer
  <2>3. CASE at # c
    <3>1. giFlow'[c] = giFlow[c]
      BY <1>5, <1>b, <2>3 DEF Poll, Set
    <3> QED
      BY <1>a, <2>1, <3>1, CycleKept
  <2> QED
    BY <2>2, <2>3
<1>6. CASE Judge
  <2>1. UNCHANGED <<submitted, accepted, announced, wake, giFlow>>
        /\ mainPc' = "verdict" /\ at' = at /\ giFlow[at] = "RESULT"
    BY <1>6 DEF Judge, Within, Visiting
  <2> QED
    BY <1>a, <2>1 DEF CycleInv, OwesRun, OwesAnswer
<1>7. CASE Judged
  <2>1. UNCHANGED <<submitted, accepted, announced, wake, giFlow>> /\ mainPc = "verdict"
    BY <1>7 DEF Judged
  <2>2. mainPc' = "visit" \/ (mainPc' = "restart" /\ at' = at)
    BY <1>7 DEF Judged, Leave, Within
  <2> QED
    BY <1>a, <2>1, <2>2 DEF CycleInv, OwesRun, OwesAnswer
<1>8. CASE Restart
  <2>1. UNCHANGED <<submitted, accepted, wake>> /\ mainPc = "restart" /\ mainPc' = "visit"
    BY <1>8 DEF Restart, Leave
  <2>2. CASE at = c
    <3>1. giFlow'[c] = "START" /\ announced'[c] \in {announced[c], announced[c] + 1}
      BY <1>8, <1>b, <2>2 DEF Restart, Set, Bump
    <3> QED
      BY <1>a, <1>c, <2>1, <2>2, <3>1 DEF CycleInv, OwesRun, OwesAnswer
  <2>3. CASE at # c
    <3>1. giFlow'[c] = giFlow[c] /\ announced'[c] = announced[c]
      BY <1>8, <1>b, <2>3 DEF Restart, Set, Bump
    <3> QED
      BY <1>a, <2>1, <3>1, CycleKept
  <2> QED
    BY <2>2, <2>3
<1>9. CASE IoAutoTest
  <2>1. UNCHANGED <<submitted, accepted, announced, wake, mainPc, at>>
        /\ giFlow'[c] \in {giFlow[c], "START"}
    BY <1>9, <1>b DEF IoAutoTest, Set
  <2> QED
    BY <1>a, <2>1 DEF CycleInv, OwesRun, OwesAnswer
<1>10. ASSUME NEW d \in Cameras, Worker(d) PROVE CycleInv(c)'
  <2>1. UNCHANGED <<submitted, accepted, announced, giFlow, wake, mainPc, at>>
    BY <1>10 DEF Worker, WorkerBegin, WorkerTake, WorkerEnd, WorkerPost,
                 WorkerDrained, WorkerCheck, WorkerPark
  <2> QED
    BY <1>a, <2>1, CycleKept
<1>11. CASE (\E d \in TriggerCams : Raise(d)) \/ Commands
  <2>1. UNCHANGED <<submitted, accepted, announced, giFlow, wake, mainPc, at>>
    BY <1>11 DEF Raise, Commands, ReportResult, AutoTestSetMode, DinSetMode, DoutSetMode,
                 CommandRun
  <2> QED
    BY <1>a, <2>1, CycleKept
<1>12. CASE UNCHANGED vars
  BY <1>a, <1>12, CycleKept DEF vars
<1>13. CASE Main
  BY <1>1, <1>2, <1>3, <1>4, <1>5, <1>6, <1>7, <1>8, <1>13 DEF Main
<1> QED
  BY <1>9, <1>10, <1>11, <1>12, <1>13 DEF Next

LEMMA InitCycleType ==
  ASSUME Init PROVE CycleType
<1>1. mainPc = "visit" /\ at = 0 /\ giFlow = [c \in Cameras |-> "START"]
      /\ wake = [c \in Cameras |-> FALSE]
  BY DEF Init
<1>2. accepted \in [Cameras -> Nat] /\ submitted \in [Cameras -> Nat]
      /\ announced \in [Cameras -> Nat]
  BY DEF Init
<1>3. giFlow \in [Cameras -> Flow] /\ wake \in [Cameras -> BOOLEAN]
  BY <1>1 DEF Flow
<1> QED
  BY <1>1, <1>2, <1>3, TwoCameras DEF CycleType, MainPC

LEMMA CycleAlways == Spec => [](CycleType /\ CycleInvs)
<1>1. Init => CycleType
  BY InitCycleType
<1>2. Init => CycleInvs
  <2> SUFFICES ASSUME Init, NEW c \in Cameras PROVE CycleInv(c)
    BY DEF CycleInvs
  <2>1. submitted[c] = 0 /\ accepted[c] = 0 /\ announced[c] = 0
    BY DEF Init
  <2>2. giFlow[c] = "START" /\ mainPc = "visit"
    BY DEF Init
  <2> QED
    BY <2>1, <2>2 DEF CycleInv
<1> QED
  BY <1>1, <1>2, CycleTypeInductive, CycleInductive, PTL DEF Spec

(* Process_Flow_Handler(_Dual) submits at most one run per trigger it      *)
(* accepted, whatever AUTO_TEST_SET_MODE does to giFlow meanwhile.         *)
THEOREM RunsArePaidFor == Spec => []OneRunPerTrigger
<1>1. CycleInvs => OneRunPerTrigger
  BY DEF CycleInvs, CycleInv, OneRunPerTrigger
<1> QED
  BY <1>1, CycleAlways, PTL

(* ...and announces AutoDone at most once per trigger. *)
THEOREM AnswersArePaidFor == Spec => []OneAnswerPerTrigger
<1>1. CycleInvs => OneAnswerPerTrigger
  BY DEF CycleInvs, CycleInv, OneAnswerPerTrigger
<1> QED
  BY <1>1, CycleAlways, PTL

(* A camera that waits for a trigger has its wake flag down, so that the   *)
(* trigger's GI_EXCUTE_AUTO_GI submits a run.                              *)
THEOREM WaitingIsUnwoken == Spec => []WaitMeansUnwoken
<1>1. CycleInvs => WaitMeansUnwoken
  BY DEF CycleInvs, CycleInv, WaitMeansUnwoken
<1> QED
  BY <1>1, CycleAlways, PTL
-----------------------------------------------------------------------------
(* What a step makes of disturbed is again a Boolean for each camera.      *)
LEMMA DisturbedTypeKept ==
  ASSUME disturbed \in [Cameras -> BOOLEAN], [Next]_vars
  PROVE  disturbed' \in [Cameras -> BOOLEAN]
<1>1. CASE \E C \in SUBSET Cameras : Disturb(C)
  <2>1. PICK C \in SUBSET Cameras : disturbed' = [c \in Cameras |-> disturbed[c] \/ c \in C]
    BY <1>1 DEF Disturb
  <2> QED
    BY <2>1, Zenon
<1>2. CASE Arm
  <2>1. disturbed' = [disturbed EXCEPT ![at] = disturbed[at] /\ ~AtRest(at)]
    BY <1>2 DEF Arm, Set
  <2> QED
    BY <2>1, Zenon
<1>3. CASE disturbed' = disturbed
  BY <1>3
<1>4. CASE Execute
  <2>1. disturbed' = disturbed \/ Disturb({Other(at)})
    BY <1>4 DEF Execute
  <2>2. CASE Disturb({Other(at)})
    <3>1. disturbed' = [c \in Cameras |-> disturbed[c] \/ c \in {Other(at)}]
      BY <2>2 DEF Disturb
    <3> QED
      BY <3>1, Zenon
  <2> QED
    BY <2>1, <2>2
<1>5. CASE IoAutoTest
  BY <1>5, <1>1, TwoCameras DEF IoAutoTest
<1>6. CASE \E c \in Cameras : CommandRun(c)
  BY <1>6, <1>1 DEF CommandRun
<1>7. CASE Main
  BY <1>2, <1>3, <1>4, <1>7
     DEF Main, Nothing, Start, Take, Accept, Bounce, Poll, Judge, Judged, Restart, histVars
<1>8. CASE \E c \in Cameras : Worker(c)
  BY <1>3, <1>8 DEF Worker, WorkerBegin, WorkerTake, WorkerEnd, WorkerPost, WorkerDrained,
                    WorkerCheck, WorkerPark, histVars
<1>9. CASE \E c \in TriggerCams : Raise(c)
  BY <1>3, <1>9 DEF Raise
<1>10. CASE Commands
  BY <1>3, <1>6, <1>10 DEF Commands, ReportResult, AutoTestSetMode, DinSetMode, DoutSetMode,
                           histVars
<1>11. CASE UNCHANGED vars
  BY <1>3, <1>11 DEF vars, histVars
<1> QED
  BY <1>5, <1>7, <1>8, <1>9, <1>10, <1>11 DEF Next

(* The states of InspectionFlow are well formed: no run is taken from an   *)
(* empty queue, no message read from one, and the status is one of the     *)
(* three values the handlers distinguish.                                  *)
THEOREM FlowTypeCorrect == Spec => []TypeOK
<1> USE DEF confVars, flowVars, workerVars, mainVars, ioVars, histVars
<1>1. Init => TypeOK
  <2> SUFFICES ASSUME Init PROVE TypeOK
    OBVIOUS
  <2>1. CycleType
    BY InitCycleType
  <2>2. /\ active \in BOOLEAN /\ autoMode \in BOOLEAN
        /\ autoDonePin \in [Cameras -> BOOLEAN]
        /\ verdict \in [Cameras -> BOOLEAN] /\ light \in [Cameras -> BOOLEAN]
        /\ mpStatus \in {-1, 0, 1}
    BY DEF Init
  <2>3. iosQ \in Seq(Cameras) /\ ipsQ \in [Cameras -> Seq({"Done", "Fail"})]
    BY DEF Init
  <2>4. /\ tasks \in [Cameras -> Nat] /\ raised \in [Cameras -> Nat]
        /\ iosCam \in Cameras /\ pendingAuto \in Nat
        /\ nAuto \in 0 .. MaxAutoTests /\ nCommanded \in 0 .. MaxCommandRuns
    BY TwoCameras, BoundsAssumption DEF Init
  <2>5. wpc \in [Cameras -> WorkerPC] /\ runStatus \in {-1, 0, 1}
    <3>1. wpc = [c \in Cameras |-> "asleep"] /\ runStatus = -1
      BY DEF Init
    <3> QED
      BY <3>1 DEF WorkerPC
  <2>6. disturbed \in [Cameras -> BOOLEAN]
    BY DEF Init
  <2> QED
    BY <2>1, <2>2, <2>3, <2>4, <2>5, <2>6 DEF CycleType, TypeOK
<1>2. ASSUME TypeOK, [Next]_vars PROVE TypeOK'
  <2>a. CycleType'
    BY <1>2, CycleTypeInductive DEF TypeOK, CycleType
  <2>d. disturbed' \in [Cameras -> BOOLEAN]
    BY <1>2, DisturbedTypeKept DEF TypeOK
  <2>b. at \in Cameras /\ Other(at) \in Cameras
    BY <1>2, TwoCameras DEF TypeOK
  <2>1. CASE Main
    <3>1. UNCHANGED <<active, autoMode, autoDonePin, raised, ioVars, runStatus>>
      BY <2>1 DEF Main, Nothing, Start, Arm, Take, Accept, Bounce, Execute, Poll, Judge, Judged,
                  Restart
    <3>2. verdict' \in [Cameras -> BOOLEAN] /\ light' \in [Cameras -> BOOLEAN]
          /\ mpStatus' \in {-1, 0, 1}
      BY <1>2, <2>1, <2>b
         DEF TypeOK, Main, Nothing, Start, Arm, Take, Accept, Bounce, Execute, Poll, Judge,
             Judged, Restart, Set
    <3>3. tasks' \in [Cameras -> Nat] /\ wpc' \in [Cameras -> WorkerPC]
      <4>1. CASE Execute
        <5>1. tasks' \in {tasks, Bump(tasks, at)} /\ (wpc' = wpc \/ ResumeIp(at))
          BY <4>1 DEF Execute
        <5>2. Bump(tasks, at) \in [Cameras -> Nat]
          BY <1>2, <2>b, BumpType DEF TypeOK
        <5>3. wpc' \in [Cameras -> WorkerPC]
          BY <1>2, <5>1 DEF TypeOK, ResumeIp, WorkerPC
        <5> QED
          BY <1>2, <5>1, <5>2, <5>3 DEF TypeOK
      <4>2. CASE UNCHANGED workerVars
        BY <1>2, <4>2 DEF TypeOK
      <4> QED
        BY <2>1, <4>1, <4>2 DEF Main, Nothing, Start, Arm, Take, Accept, Bounce, Poll, Judge,
                                Judged, Restart
    <3>4. iosQ' \in Seq(Cameras)
      <4>1. CASE Take
        BY <1>2, <4>1 DEF TypeOK, Take
      <4>2. CASE Bounce
        BY <1>2, <2>b, <4>2 DEF TypeOK, Bounce
      <4>3. CASE iosQ' = iosQ
        BY <1>2, <4>3 DEF TypeOK
      <4> QED
        BY <2>1, <4>1, <4>2, <4>3 DEF Main, Nothing, Start, Arm, Accept, Execute, Poll, Judge,
                                      Judged, Restart
    <3>5. ipsQ' \in [Cameras -> Seq({"Done", "Fail"})]
      <4>1. CASE Judge
        <5>1. CASE ipsQ[at] = <<>>
          BY <1>2, <4>1, <5>1 DEF TypeOK, Judge
        <5>2. CASE ipsQ[at] # <<>>
          <6>1. Tail(ipsQ[at]) \in Seq({"Done", "Fail"})
            BY <1>2, <2>b, <5>2 DEF TypeOK
          <6>2. ipsQ' = Set(ipsQ, at, Tail(ipsQ[at]))
            BY <4>1, <5>2 DEF Judge
          <6> QED
            BY <1>2, <2>b, <6>1, <6>2, SetType DEF TypeOK
        <5> QED
          BY <5>1, <5>2
      <4>2. CASE ipsQ' = ipsQ
        BY <1>2, <4>2 DEF TypeOK
      <4> QED
        BY <2>1, <4>1, <4>2 DEF Main, Nothing, Start, Arm, Take, Accept, Bounce, Execute, Poll,
                                Judged, Restart
    <3> QED
      BY <1>2, <2>a, <2>d, <3>1, <3>2, <3>3, <3>4, <3>5 DEF TypeOK, CycleType
  <2>2. ASSUME NEW c \in Cameras, Worker(c) PROVE TypeOK'
    <3>1. UNCHANGED <<active, autoMode, autoDonePin, verdict, light, iosQ, raised, ioVars>>
      BY <2>2 DEF Worker, WorkerBegin, WorkerTake, WorkerEnd, WorkerPost,
                  WorkerDrained, WorkerCheck, WorkerPark
    <3>2. wpc' \in [Cameras -> WorkerPC]
      BY <1>2, <2>2 DEF TypeOK, Worker, WorkerBegin, WorkerTake, WorkerEnd, WorkerPost,
                        WorkerDrained, WorkerCheck, WorkerPark, Goto, WorkerPC
    <3>3. tasks' \in [Cameras -> Nat]
      <4>1. tasks' = tasks \/ (tasks[c] > 0 /\ tasks' = [tasks EXCEPT ![c] = @ - 1])
        BY <2>2 DEF Worker, WorkerBegin, WorkerTake, WorkerEnd, WorkerPost,
                    WorkerDrained, WorkerCheck, WorkerPark
      <4>2. tasks \in [Cameras -> Nat]
        BY <1>2 DEF TypeOK
      <4> QED
        BY <4>1, <4>2, DropType
    <3>4. runStatus' \in {-1, 0, 1} /\ mpStatus' \in {-1, 0, 1}
          /\ ipsQ' \in [Cameras -> Seq({"Done", "Fail"})]
      <4>1. CASE WorkerEnd(c)
        <5>1. PICK o \in Outcomes :
                /\ ipsQ' = Set(ipsQ, c, Append(ipsQ[c], IF o = "good" THEN "Done" ELSE "Fail"))
                /\ runStatus' = StatusOf(o)
          BY <4>1 DEF WorkerEnd
        <5>2. StatusOf(o) \in {-1, 0, 1}
          BY OutcomeAssumption DEF StatusOf
        <5>3. runStatus' \in {-1, 0, 1}
          BY <5>1, <5>2
        <5>4. ipsQ' \in [Cameras -> Seq({"Done", "Fail"})]
          BY <1>2, <5>1 DEF TypeOK, Set
        <5> QED
          BY <1>2, <4>1, <5>3, <5>4 DEF TypeOK, WorkerEnd
      <4>2. CASE WorkerPost(c)
        BY <1>2, <4>2 DEF TypeOK, WorkerPost
      <4>3. CASE runStatus' \in {-1, runStatus} /\ UNCHANGED <<mpStatus, ipsQ>>
        BY <1>2, <4>3 DEF TypeOK
      <4> QED
        BY <2>2, <4>1, <4>2, <4>3 DEF Worker, WorkerBegin, WorkerTake, WorkerDrained,
                                      WorkerCheck, WorkerPark
    <3> QED
      BY <1>2, <2>a, <2>d, <3>1, <3>2, <3>3, <3>4 DEF TypeOK, CycleType
  <2>3. ASSUME NEW c \in TriggerCams, Raise(c) PROVE TypeOK'
    <3>1. c \in Cameras
      BY CamerasAssumption
    <3>2. iosQ' \in Seq(Cameras) /\ raised' \in [Cameras -> Nat]
      <4>1. iosQ' = Append(iosQ, c) /\ raised' = Bump(raised, c)
        BY <2>3 DEF Raise
      <4>2. iosQ \in Seq(Cameras) /\ raised \in [Cameras -> Nat]
        BY <1>2 DEF TypeOK
      <4>3. Append(iosQ, c) \in Seq(Cameras)
        BY <3>1, <4>2
      <4> QED
        BY <3>1, <4>1, <4>2, <4>3, BumpType
    <3> QED
      BY <1>2, <2>3, <2>a, <2>d, <3>2 DEF TypeOK, CycleType, Raise
  <2>4. CASE IoAutoTest
    <3>1. pendingAuto' \in Nat
      BY <1>2, <2>4 DEF TypeOK, IoAutoTest
    <3> QED
      BY <1>2, <2>4, <2>a, <2>d, <3>1 DEF TypeOK, CycleType, IoAutoTest
  <2>5. CASE Commands
    <3>1. CASE \E v, withId \in BOOLEAN, t \in Cameras : ReportResult(v, withId, t)
      <4>1. PICK v \in BOOLEAN, withId \in BOOLEAN, t \in Cameras : ReportResult(v, withId, t)
        BY <3>1
      <4>2. verdict' \in [Cameras -> BOOLEAN]
        BY <1>2, <4>1 DEF TypeOK, ReportResult
      <4> QED
        BY <1>2, <2>a, <2>d, <4>1, <4>2 DEF TypeOK, CycleType, ReportResult
    <3>2. CASE \E on \in BOOLEAN, t \in Cameras : AutoTestSetMode(on, t)
      <4>1. pendingAuto' \in Nat /\ nAuto' \in 0 .. MaxAutoTests
        <5>1. pendingAuto' = pendingAuto + 1 /\ nAuto' = nAuto + 1 /\ nAuto < MaxAutoTests
          BY <3>2 DEF AutoTestSetMode
        <5>2. pendingAuto \in Nat /\ nAuto \in 0 .. MaxAutoTests
          BY <1>2 DEF TypeOK
        <5> QED
          BY <5>1, <5>2, BoundsAssumption
      <4> QED
        BY <1>2, <2>a, <2>d, <3>2, <4>1 DEF TypeOK, CycleType, AutoTestSetMode
    <3>3. CASE DinSetMode
      BY <1>2, <2>a, <2>d, <3>3 DEF TypeOK, CycleType, DinSetMode
    <3>4. CASE \E c \in PinnedCams, b \in DoutModes : DoutSetMode(c, b)
      <4>1. PICK c \in PinnedCams, b \in DoutModes : DoutSetMode(c, b)
        BY <3>4
      <4>2. c \in Cameras /\ b \in BOOLEAN
        BY CamerasAssumption, DoutAssumption
      <4>3. autoDonePin' \in [Cameras -> BOOLEAN]
        BY <1>2, <4>1, <4>2, SetType DEF TypeOK, DoutSetMode
      <4> QED
        BY <1>2, <2>a, <2>d, <4>1, <4>3 DEF TypeOK, CycleType, DoutSetMode
    <3>5. ASSUME NEW c \in Cameras, CommandRun(c) PROVE TypeOK'
      <4>1. nCommanded' \in 0 .. MaxCommandRuns
        <5>1. nCommanded' = nCommanded + 1 /\ nCommanded < MaxCommandRuns
          BY <3>5 DEF CommandRun
        <5>2. nCommanded \in 0 .. MaxCommandRuns
          BY <1>2 DEF TypeOK
        <5> QED
          BY <5>1, <5>2, BoundsAssumption
      <4>2. tasks' \in [Cameras -> Nat]
        <5>1. tasks' = Bump(tasks, c) /\ tasks \in [Cameras -> Nat]
          BY <1>2, <3>5 DEF TypeOK, CommandRun
        <5> QED
          BY <5>1, BumpType
      <4>3. wpc' \in [Cameras -> WorkerPC]
        BY <1>2, <3>5 DEF TypeOK, CommandRun, ResumeIp, WorkerPC
      <4> QED
        BY <1>2, <2>a, <2>d, <3>5, <4>1, <4>2, <4>3 DEF TypeOK, CycleType, CommandRun
    <3> QED
      BY <2>5, <3>1, <3>2, <3>3, <3>4, <3>5 DEF Commands
  <2>6. CASE UNCHANGED vars
    BY <1>2, <2>6, <2>a, <2>d DEF TypeOK, vars
  <2> QED
    BY <1>2, <2>1, <2>2, <2>3, <2>4, <2>5, <2>6 DEF Next
<1> QED
  BY <1>1, <1>2, PTL DEF Spec
-----------------------------------------------------------------------------
(* How often a value stands in a sequence, and what the two queue          *)
(* operations do to that number.                                           *)
Positions(s, v) == {i \in DOMAIN s : s[i] = v}
Count(s, v)     == Cardinality(Positions(s, v))

LEMMA CountType ==
  ASSUME NEW S, NEW s \in Seq(S), NEW v
  PROVE  IsFiniteSet(Positions(s, v)) /\ Count(s, v) \in Nat
<1>1. Len(s) \in Nat /\ DOMAIN s = 1 .. Len(s)
  OBVIOUS
<1>2. IsFiniteSet(1 .. Len(s)) /\ Positions(s, v) \in SUBSET (1 .. Len(s))
  BY <1>1, FS_Interval DEF Positions
<1> QED
  BY <1>2, FS_Subset, FS_CardinalityType DEF Count

LEMMA CountAppend ==
  ASSUME NEW S, NEW s \in Seq(S), NEW x \in S, NEW v
  PROVE  Count(Append(s, x), v) = Count(s, v) + (IF x = v THEN 1 ELSE 0)
<1>1. /\ Len(s) \in Nat /\ DOMAIN s = 1 .. Len(s)
      /\ DOMAIN Append(s, x) = 1 .. Len(s) + 1
      /\ \A i \in 1 .. Len(s) : Append(s, x)[i] = s[i]
      /\ Append(s, x)[Len(s) + 1] = x
  OBVIOUS
<1>2. IsFiniteSet(Positions(s, v)) /\ Count(s, v) \in Nat
  BY CountType
<1>3. CASE x = v
  <2>1. Positions(Append(s, x), v) = Positions(s, v) \cup {Len(s) + 1}
    BY <1>1, <1>3 DEF Positions
  <2>2. Len(s) + 1 \notin Positions(s, v)
    BY <1>1 DEF Positions
  <2> QED
    BY <1>2, <1>3, <2>1, <2>2, FS_AddElement DEF Count
<1>4. CASE x # v
  <2>1. Positions(Append(s, x), v) = Positions(s, v)
    BY <1>1, <1>4 DEF Positions
  <2> QED
    BY <1>2, <1>4, <2>1 DEF Count
<1> QED
  BY <1>3, <1>4

LEMMA CountTail ==
  ASSUME NEW S, NEW s \in Seq(S), s # <<>>, NEW v
  PROVE  Count(s, v) = Count(Tail(s), v) + (IF Head(s) = v THEN 1 ELSE 0)
<1> DEFINE P == Positions(s, v)
           Q == Positions(Tail(s), v)
           f == [i \in Q |-> i + 1]
<1>1. /\ Len(s) \in Nat \ {0} /\ DOMAIN s = 1 .. Len(s) /\ Head(s) = s[1]
      /\ Tail(s) \in Seq(S) /\ DOMAIN Tail(s) = 1 .. Len(s) - 1
      /\ \A i \in 1 .. Len(s) - 1 : Tail(s)[i] = s[i + 1]
  OBVIOUS
<1>2. IsFiniteSet(P) /\ IsFiniteSet(Q) /\ Count(s, v) \in Nat /\ Count(Tail(s), v) \in Nat
  BY <1>1, CountType
<1>3. f \in Bijection(Q, P \ {1})
  <2>1. \A i \in Q : i + 1 \in P \ {1}
    BY <1>1 DEF Positions
  <2>2. \A j \in P \ {1} : j - 1 \in Q /\ f[j - 1] = j
    BY <1>1 DEF Positions
  <2>3. \A i, k \in Q : f[i] = f[k] => i = k
    BY <1>1 DEF Positions
  <2>4. f \in [Q -> P \ {1}]
    BY <2>1
  <2> QED
    BY <2>2, <2>3, <2>4 DEF Bijection, Injection, Surjection, IsInjective
<1>4. Cardinality(P \ {1}) = Cardinality(Q)
  BY <1>2, <1>3, FS_Bijection DEF ExistsBijection
<1>5. 1 \in P <=> Head(s) = v
  BY <1>1 DEF Positions
<1>6. Cardinality(P \ {1}) = IF 1 \in P THEN Cardinality(P) - 1 ELSE Cardinality(P)
  BY <1>2, FS_RemoveElement
<1> QED
  BY <1>2, <1>4, <1>5, <1>6 DEF Count
-----------------------------------------------------------------------------
(* No trigger is lost, invented or turned over to the other camera: the    *)
(* balance of one camera is kept by every step.                            *)
Balanced(c) == raised[c] = accepted[c] + Count(iosQ, c) + InHand(c)

LEMMA BalanceKept ==
  ASSUME NEW c \in Cameras, Balanced(c),
         UNCHANGED <<raised[c], accepted[c], iosQ>>,
         mainPc \notin {"accept", "bounce"}, mainPc' \notin {"accept", "bounce"}
  PROVE  Balanced(c)'
BY DEF Balanced, InHand

LEMMA BalanceInductive ==
  ASSUME TypeOK, [Next]_vars, NEW c \in Cameras, Balanced(c)
  PROVE  Balanced(c)'
<1> USE DEF confVars, flowVars, workerVars, mainVars, ioVars, histVars
<1>a. /\ at \in Cameras /\ Other(at) \in Cameras /\ Other(at) # at
      /\ \A d \in Cameras : d = at \/ d = Other(at)
      /\ \A d \in Cameras : Other(d) = at <=> d = Other(at)
  BY DEF TypeOK, Cameras, Other
<1>b. /\ iosQ \in Seq(Cameras) /\ Count(iosQ, c) \in Nat
      /\ raised \in [Cameras -> Nat] /\ accepted \in [Cameras -> Nat]
      /\ raised[c] \in Nat /\ accepted[c] \in Nat
  BY CountType DEF TypeOK
<1>1. CASE Take
  <2>1. /\ iosQ # <<>> /\ iosQ' = Tail(iosQ) /\ UNCHANGED <<raised, accepted, at>>
        /\ mainPc = "visit" /\ mainPc' = IF Head(iosQ) = at THEN "accept" ELSE "bounce"
    BY <1>1 DEF Take, Visiting, Within
  <2>2. Head(iosQ) \in Cameras
    BY <1>b, <2>1
  <2>3. Count(iosQ, c) = Count(iosQ', c) + (IF Head(iosQ) = c THEN 1 ELSE 0)
    BY <1>b, <2>1, CountTail
  <2>4. InHand(c) = 0 /\ InHand(c)' = IF Head(iosQ) = c THEN 1 ELSE 0
    BY <1>a, <2>1, <2>2 DEF InHand
  <2>5. iosQ' \in Seq(Cameras) /\ Count(iosQ', c) \in Nat
    <3>1. Tail(iosQ) \in Seq(Cameras)
      BY <1>b, <2>1
    <3> QED
      BY <2>1, <3>1, CountType
  <2> QED
    BY <1>b, <2>1, <2>3, <2>4, <2>5 DEF Balanced
<1>2. CASE Accept
  <2>1. UNCHANGED <<raised, iosQ>> /\ mainPc = "accept" /\ mainPc' = "visit"
        /\ accepted' = Bump(accepted, at)
    BY <1>2 DEF Accept, Leave
  <2>2. accepted'[c] = accepted[c] + (IF c = at THEN 1 ELSE 0)
    BY <1>a, <1>b, <2>1 DEF Bump
  <2>3. InHand(c) = (IF c = at THEN 1 ELSE 0) /\ InHand(c)' = 0
    BY <1>a, <2>1 DEF InHand
  <2> QED
    BY <1>b, <2>1, <2>2, <2>3 DEF Balanced
<1>3. CASE Bounce
  <2>1. /\ UNCHANGED <<raised, accepted>> /\ mainPc = "bounce" /\ mainPc' = "visit"
        /\ iosQ' = Append(iosQ, Other(at))
    BY <1>3 DEF Bounce, Leave
  <2>2. Count(iosQ', c) = Count(iosQ, c) + (IF Other(at) = c THEN 1 ELSE 0)
    BY <1>a, <1>b, <2>1, CountAppend
  <2>3. InHand(c) = (IF Other(at) = c THEN 1 ELSE 0) /\ InHand(c)' = 0
    BY <1>a, <2>1 DEF InHand
  <2> QED
    BY <1>b, <2>1, <2>2, <2>3 DEF Balanced
<1>4. CASE Nothing \/ Start \/ Arm \/ Execute \/ Poll \/ Judge \/ Judged \/ Restart
  <2>1. UNCHANGED <<raised, accepted, iosQ>>
    BY <1>4 DEF Nothing, Start, Arm, Execute, Poll, Judge, Judged, Restart
  <2>2. mainPc \notin {"accept", "bounce"} /\ mainPc' \notin {"accept", "bounce"}
    BY <1>4 DEF Nothing, Start, Arm, Execute, Poll, Judge, Judged, Restart, Visiting, Leave, Within
  <2> QED
    BY <2>1, <2>2, BalanceKept
<1>5. ASSUME NEW d \in TriggerCams, Raise(d) PROVE Balanced(c)'
  <2>1. /\ UNCHANGED <<accepted, mainPc, at>> /\ iosQ' = Append(iosQ, d)
        /\ raised' = Bump(raised, d) /\ d \in Cameras
    BY <1>5, CamerasAssumption DEF Raise
  <2>2. raised'[c] = raised[c] + (IF d = c THEN 1 ELSE 0)
    BY <1>b, <2>1 DEF Bump
  <2>3. Count(iosQ', c) = Count(iosQ, c) + (IF d = c THEN 1 ELSE 0)
    BY <1>b, <2>1, CountAppend
  <2>4. InHand(c)' = InHand(c) /\ InHand(c) \in Nat
    BY <2>1 DEF InHand
  <2> QED
    BY <1>b, <2>1, <2>2, <2>3, <2>4 DEF Balanced
<1>6. CASE (\E d \in Cameras : Worker(d)) \/ IoAutoTest \/ Commands \/ UNCHANGED vars
  <2>1. UNCHANGED <<raised, accepted, iosQ, mainPc, at>>
    BY <1>6 DEF Worker, WorkerBegin, WorkerTake, WorkerEnd, WorkerPost, WorkerDrained, WorkerCheck,
                WorkerPark, IoAutoTest, Commands, ReportResult, AutoTestSetMode, DinSetMode,
                DoutSetMode, CommandRun, vars
  <2> QED
    BY <2>1 DEF Balanced, InHand
<1> QED
  BY <1>1, <1>2, <1>3, <1>4, <1>5, <1>6 DEF Next, Main

(* Every trigger of DI or backend is accepted once by the camera it is     *)
(* for, or still in innerQ_IOS or a handler's hands, for any number of     *)
(* bounces between Process_Flow_Handler and Process_Flow_Handler_Dual.     *)
THEOREM TriggersConserved == Spec => []TriggerConservation
<1>1. Init => \A c \in Cameras : Balanced(c)
  <2> SUFFICES ASSUME Init, NEW c \in Cameras PROVE Balanced(c)
    OBVIOUS
  <2>1. raised[c] = 0 /\ accepted[c] = 0 /\ iosQ = <<>> /\ mainPc = "visit"
    BY DEF Init
  <2>2. Positions(iosQ, c) = {}
    BY <2>1 DEF Positions
  <2>3. Count(iosQ, c) = 0
    BY <2>2, FS_EmptySet DEF Count
  <2>4. InHand(c) = 0
    BY <2>1 DEF InHand
  <2> QED
    BY <2>1, <2>3, <2>4 DEF Balanced
<1>2. TypeOK /\ [Next]_vars /\ (\A c \in Cameras : Balanced(c)) => (\A c \in Cameras : Balanced(c))'
  BY BalanceInductive
<1>3. (\A c \in Cameras : Balanced(c)) => TriggerConservation
  BY DEF TriggerConservation, Balanced, Count, Positions, Queued
<1> QED
  BY <1>1, <1>2, <1>3, FlowTypeCorrect, PTL DEF Spec
-----------------------------------------------------------------------------
(* A camera whose cycle is not disturbed. *)

(* The run of camera c: none, and no message of one; ended, with its       *)
(* message unread; or under way, with the status not given yet.            *)
Idle(c)    == RunOver(c) /\ ipsQ[c] = <<>>
Ended(c)   == RunOver(c) /\ \E m \in {"Done", "Fail"} : ipsQ[c] = <<m>>
Pending(c) ==
  /\ mpStatus = -1
  /\ \/ tasks[c] = 1 /\ wpc[c] \notin {"run", "post"} /\ ipsQ[c] = <<>>
     \/ tasks[c] = 0 /\ wpc[c] = "run" /\ ipsQ[c] = <<>>
     \/ tasks[c] = 0 /\ wpc[c] = "post" /\ \E m \in {"Done", "Fail"} : ipsQ[c] = <<m>>

(* Where mainCtl is in the handler of camera c. *)
Place(c) == IF at = c THEN mainPc ELSE "visit"

(* Where the cycle of camera c stands, with what it knows of its run.  A   *)
(* restart may fall into the handler after it took a trigger.              *)
Stage(c) ==
  \/ giFlow[c] = "START" /\ Idle(c) /\ Place(c) \in {"visit", "arm"}
  \/ giFlow[c] \in {"START", "WAIT"} /\ Idle(c) /\ ~wake[c] /\ mpStatus = -1
     /\ Place(c) \in {"visit", "accept", "bounce"}
  \/ giFlow[c] = "EXECUTE" /\ light[c] /\ ~wake[c] /\ Idle(c) /\ mpStatus = -1
     /\ Place(c) = "visit"
  \/ giFlow[c] = "EXECUTE" /\ light[c] /\ wake[c] /\ (Pending(c) \/ Ended(c))
     /\ Place(c) \in {"visit", "poll"}
  \/ giFlow[c] = "RESULT" /\ (Idle(c) \/ Ended(c)) /\ Place(c) = "visit"
  \/ giFlow[c] = "RESULT" /\ Idle(c) /\ Place(c) \in {"verdict", "restart"}

(* A cycle that began at rest and that nothing disturbed since: the other  *)
(* camera has no run, whatever it does otherwise.  That the handler of c   *)
(* may start from any giFlow of the other camera, with the status reset    *)
(* under it, is why Stage knows the status only where a run is awaited.    *)
OwnInv(c)  == ~disturbed[c] => RunOver(Other(c)) /\ Stage(c)
OwnInvs    == \A c \in Cameras : OwnInv(c)

(* A step that leaves alone what OwnInv(c) speaks of, or resets the status. *)
LEMMA OwnKept ==
  ASSUME NEW c \in Cameras, OwnInv(c), disturbed'[c] \in {disturbed[c], TRUE},
         UNCHANGED <<giFlow[c], light[c], wake[c], ipsQ[c], tasks, wpc>>,
         Place(c)' = Place(c), mpStatus' \in {mpStatus, -1}
  PROVE  OwnInv(c)'
<1>1. RunOver(c)' = RunOver(c) /\ RunOver(Other(c))' = RunOver(Other(c))
  BY DEF RunOver, Other
<1>2. (Idle(c)' <=> Idle(c)) /\ (Ended(c)' <=> Ended(c)) /\ (Pending(c) => Pending(c)')
  BY <1>1 DEF Idle, Ended, Pending
<1>3. CASE ~disturbed[c]
  <2>1. Stage(c)
    BY <1>3 DEF OwnInv
  <2>2. Stage(c)'
    BY <1>2, <2>1 DEF Stage
  <2> QED
    BY <1>1, <1>3, <2>2 DEF OwnInv
<1>4. CASE disturbed[c]
  BY <1>4 DEF OwnInv
<1> QED
  BY <1>3, <1>4

(* The handler of the other camera. *)
LEMMA OwnOtherHandler ==
  ASSUME TypeOK, NEW c \in Cameras, OwnInv(c), Main, at # c
  PROVE  OwnInv(c)'
<1> USE DEF confVars, flowVars, workerVars, mainVars, ioVars, histVars, Leave, Within
<1>a. at \in Cameras /\ Other(at) = c /\ c = Other(at)
  BY DEF TypeOK, Cameras, Other
<1>b. /\ giFlow \in [Cameras -> Flow] /\ wake \in [Cameras -> BOOLEAN]
      /\ light \in [Cameras -> BOOLEAN] /\ tasks \in [Cameras -> Nat]
      /\ wpc \in [Cameras -> WorkerPC] /\ ipsQ \in [Cameras -> Seq({"Done", "Fail"})]
      /\ disturbed \in [Cameras -> BOOLEAN]
  BY DEF TypeOK
<1>c. Place(c) = "visit" /\ Place(c)' = "visit"
  BY <1>a DEF Main, Nothing, Start, Arm, Take, Accept, Bounce, Execute, Poll, Judge, Judged,
              Restart, Place
<1>1. CASE Execute /\ ~wake[at]
  <2>1. disturbed'[c] = TRUE
    BY <1>1, <1>a DEF Execute, Disturb
  <2> QED
    BY <2>1 DEF OwnInv
<1>2. CASE Execute /\ wake[at]
  <2>1. UNCHANGED <<giFlow, light, wake, ipsQ, tasks, wpc, mpStatus, disturbed>>
    BY <1>2 DEF Execute
  <2> QED
    BY <1>c, <2>1, OwnKept
<1>3. CASE Main /\ ~Execute
  <2>1. UNCHANGED <<tasks, wpc>>
    BY <1>3 DEF Main, Nothing, Start, Arm, Take, Accept, Bounce, Poll, Judge, Judged, Restart
  <2>2. giFlow'[c] = giFlow[c] /\ light'[c] = light[c] /\ wake'[c] = wake[c]
    BY <1>3, <1>a, <1>b DEF Main, Nothing, Start, Arm, Take, Accept, Bounce, Poll, Judge, Judged,
                            Restart, Set
  <2>3. ipsQ'[c] = ipsQ[c] /\ disturbed'[c] = disturbed[c]
    BY <1>3, <1>a, <1>b DEF Main, Nothing, Start, Arm, Take, Accept, Bounce, Poll, Judge, Judged,
                            Restart, Set
  <2>4. mpStatus' \in {mpStatus, -1}
    BY <1>3 DEF Main, Nothing, Start, Arm, Take, Accept, Bounce, Poll, Judge, Judged, Restart
  <2> QED
    BY <1>c, <2>1, <2>2, <2>3, <2>4, OwnKept
<1> QED
  BY <1>1, <1>2, <1>3

(* Its own handler. *)
LEMMA OwnHandler ==
  ASSUME TypeOK, NEW c \in Cameras, OwnInv(c), Main, at = c
  PROVE  OwnInv(c)'
<1> SUFFICES ASSUME ~disturbed'[c] PROVE (RunOver(Other(c)) /\ Stage(c))'
  BY DEF OwnInv
<1> USE DEF confVars, flowVars, workerVars, mainVars, ioVars, histVars, Leave, Within
<1>a. Other(c) \in Cameras /\ Other(c) # c
  BY DEF Cameras, Other
<1>b. /\ giFlow \in [Cameras -> Flow] /\ wake \in [Cameras -> BOOLEAN]
      /\ light \in [Cameras -> BOOLEAN] /\ tasks \in [Cameras -> Nat]
      /\ wpc \in [Cameras -> WorkerPC] /\ ipsQ \in [Cameras -> Seq({"Done", "Fail"})]
      /\ disturbed \in [Cameras -> BOOLEAN]
  BY DEF TypeOK
<1>p. Place(c) = mainPc /\ (mainPc' = "visit" => Place(c)' = "visit")
      /\ (at' = at => Place(c)' = mainPc')
  BY DEF Place
<1>1. CASE Arm
  <2>1. /\ UNCHANGED <<ipsQ, tasks, wpc>> /\ mainPc = "arm" /\ mpStatus' = -1
        /\ Place(c)' = "visit"
    BY <1>1, <1>p DEF Arm
  <2>2. giFlow'[c] = "WAIT" /\ wake'[c] = FALSE
    BY <1>1, <1>b DEF Arm, Set
  <2>3. disturbed'[c] = (disturbed[c] /\ ~AtRest(c))
    BY <1>1, <1>b DEF Arm, Set
  <2>4. CASE ~disturbed[c]
    <3>1. RunOver(Other(c)) /\ Idle(c)
      BY <1>p, <2>1, <2>4 DEF OwnInv, Stage
    <3> QED
      BY <2>1, <2>2, <3>1 DEF Stage, Idle, RunOver
  <2>5. CASE AtRest(c)
    <3>1. RunOver(Other(c)) /\ Idle(c)
      BY <1>a, <2>5 DEF AtRest, Idle
    <3> QED
      BY <2>1, <2>2, <3>1 DEF Stage, Idle, RunOver
  <2> QED
    BY <2>3, <2>4, <2>5
<1>2. CASE Execute
  <2>1. /\ UNCHANGED <<giFlow, light, mpStatus, ipsQ>>
        /\ mainPc = "visit" /\ Place(c)' = "poll" /\ giFlow[c] = "EXECUTE"
    BY <1>2, <1>p DEF Execute, Visiting
  <2>2. CASE wake[c]
    <3>1. UNCHANGED <<wake, tasks, wpc, disturbed>>
      BY <1>2, <2>2 DEF Execute
    <3>2. RunOver(Other(c)) /\ light[c] /\ (Pending(c) \/ Ended(c))
      BY <1>p, <2>1, <2>2, <3>1 DEF OwnInv, Stage
    <3> QED
      BY <2>1, <2>2, <3>1, <3>2 DEF Stage, Ended, Pending, RunOver
  <2>3. CASE ~wake[c]
    <3>1. /\ wake' = Set(wake, c, TRUE) /\ tasks' = Bump(tasks, c) /\ ResumeIp(c)
          /\ Disturb({Other(c)})
      BY <1>2, <2>3 DEF Execute
    <3>2. /\ wake'[c] = TRUE /\ tasks'[c] = tasks[c] + 1 /\ tasks'[Other(c)] = tasks[Other(c)]
          /\ wpc'[Other(c)] = wpc[Other(c)] /\ wpc'[c] \in {wpc[c], "woken"}
      BY <1>a, <1>b, <3>1 DEF Set, Bump, ResumeIp
    <3>3. disturbed'[c] = disturbed[c]
      BY <1>a, <1>b, <3>1 DEF Disturb
    <3>4. RunOver(Other(c)) /\ light[c] /\ Idle(c) /\ mpStatus = -1
      BY <1>p, <2>1, <2>3, <3>3 DEF OwnInv, Stage
    <3>5. Pending(c)'
      BY <2>1, <3>2, <3>4 DEF Pending, Idle, RunOver
    <3> QED
      BY <2>1, <3>2, <3>4, <3>5 DEF Stage, RunOver
  <2> QED
    BY <2>2, <2>3
<1>3. CASE Judge
  <2>1. /\ UNCHANGED <<giFlow, wake, mpStatus, tasks, wpc, disturbed>>
        /\ mainPc = "visit" /\ Place(c)' = "verdict" /\ giFlow[c] = "RESULT"
    BY <1>3, <1>p DEF Judge, Visiting
  <2>2. RunOver(Other(c)) /\ (Idle(c) \/ Ended(c))
    BY <1>p, <2>1 DEF OwnInv, Stage
  <2>3. ipsQ'[c] = <<>>
    <3>1. CASE ipsQ[c] = <<>>
      BY <1>3, <3>1 DEF Judge
    <3>2. ASSUME NEW m \in {"Done", "Fail"}, ipsQ[c] = <<m>> PROVE ipsQ'[c] = <<>>
      <4>1. ipsQ' = Set(ipsQ, c, Tail(ipsQ[c])) /\ Tail(ipsQ[c]) = <<>>
        BY <1>3, <3>2 DEF Judge
      <4> QED
        BY <1>b, <4>1 DEF Set
    <3> QED
      BY <2>2, <3>1, <3>2 DEF Idle, Ended
  <2> QED
    BY <2>1, <2>2, <2>3 DEF Stage, Idle, Ended, RunOver
<1>4. CASE Main /\ ~Arm /\ ~Execute /\ ~Judge
  <2>1. UNCHANGED <<wake, mpStatus, ipsQ, tasks, wpc, disturbed>>
    BY <1>4 DEF Main, Nothing, Start, Take, Accept, Bounce, Poll, Judged, Restart
  <2>2. RunOver(Other(c)) /\ Stage(c) /\ RunOver(Other(c))'
    BY <2>1 DEF OwnInv, RunOver
  <2>3. (Idle(c) <=> Idle(c)') /\ (Ended(c) <=> Ended(c)') /\ (Pending(c) <=> Pending(c)')
    BY <2>1 DEF Idle, Ended, Pending, RunOver
  <2>4. CASE Nothing \/ Start \/ Take \/ Bounce \/ Judged
    <3>1. UNCHANGED <<giFlow, light>>
      BY <2>4 DEF Nothing, Start, Take, Bounce, Judged
    <3>2. \/ Place(c)' = "visit" /\ Place(c) \in {"visit", "bounce", "verdict"}
          \/ Place(c) = "visit" /\ Place(c)' = "arm" /\ giFlow[c] = "START"
          \/ Place(c) = "visit" /\ Place(c)' \in {"accept", "bounce"} /\ giFlow[c] = "WAIT"
          \/ Place(c) = "verdict" /\ Place(c)' = "restart"
      BY <1>p, <2>4 DEF Nothing, Start, Take, Bounce, Judged, Visiting
    <3> QED
      BY <2>1, <2>2, <2>3, <3>1, <3>2 DEF Stage
  <2>5. CASE Accept
    <3>1. giFlow'[c] = "EXECUTE" /\ light'[c] = TRUE /\ Place(c) = "accept" /\ Place(c)' = "visit"
      BY <1>b, <1>p, <2>5 DEF Accept, Set
    <3> QED
      BY <2>1, <2>2, <2>3, <3>1 DEF Stage
  <2>6. CASE Poll
    <3>1. /\ giFlow'[c] = (IF mpStatus \in {0, 1} THEN "RESULT" ELSE "EXECUTE")
          /\ light' = light /\ Place(c) = "poll" /\ Place(c)' = "visit"
      BY <1>b, <1>p, <2>6 DEF Poll, Set
    <3>2. light[c] /\ wake[c] /\ (Pending(c) \/ Ended(c))
      BY <2>2, <3>1 DEF Stage
    <3>3. Pending(c) => mpStatus \notin {0, 1}
      BY DEF Pending
    <3> QED
      BY <2>1, <2>2, <2>3, <3>1, <3>2, <3>3 DEF Stage
  <2>7. CASE Restart
    <3>1. giFlow'[c] = "START" /\ Place(c) = "restart" /\ Place(c)' = "visit"
      BY <1>b, <1>p, <2>7 DEF Restart, Set
    <3> QED
      BY <2>2, <2>3, <3>1 DEF Stage
  <2> QED
    BY <1>4, <2>4, <2>5, <2>6, <2>7 DEF Main
<1> QED
  BY <1>1, <1>2, <1>3, <1>4

(* A worker: the camera's own, or one that has no run to do.               *)
LEMMA OwnWorker ==
  ASSUME TypeOK, NEW c \in Cameras, OwnInv(c), NEW d \in Cameras, Worker(d)
  PROVE  OwnInv(c)'
<1> USE DEF confVars, flowVars, mainVars, ioVars, histVars
<1>d. UNCHANGED <<giFlow, wake, light, mainPc, at, disturbed>> /\ Place(c)' = Place(c)
  BY DEF Worker, WorkerBegin, WorkerTake, WorkerEnd, WorkerPost, WorkerDrained, WorkerCheck,
         WorkerPark, Place
<1> SUFFICES ASSUME ~disturbed[c] PROVE (RunOver(Other(c)) /\ Stage(c))'
  BY <1>d DEF OwnInv
<1>a. Other(c) \in Cameras /\ Other(c) # c /\ (d = c \/ d = Other(c))
  BY DEF Cameras, Other
<1>b. /\ tasks \in [Cameras -> Nat] /\ wpc \in [Cameras -> WorkerPC]
      /\ ipsQ \in [Cameras -> Seq({"Done", "Fail"})]
  BY DEF TypeOK
<1>c. RunOver(Other(c)) /\ Stage(c)
  BY DEF OwnInv
<1>1. CASE WorkerBegin(d) \/ WorkerDrained(d) \/ WorkerCheck(d) \/ WorkerPark(d)
  <2>1. UNCHANGED <<mpStatus, ipsQ, tasks>>
    BY <1>1 DEF WorkerBegin, WorkerDrained, WorkerCheck, WorkerPark
  <2>2. \A e \in Cameras : \/ wpc'[e] = wpc[e]
                           \/ wpc[e] \notin {"run", "post"} /\ wpc'[e] \notin {"run", "post"}
    BY <1>1, <1>b DEF WorkerBegin, WorkerDrained, WorkerCheck, WorkerPark, Goto
  <2>3. (Idle(c) <=> Idle(c)') /\ (Ended(c) <=> Ended(c)') /\ (Pending(c) <=> Pending(c)')
    BY <2>1, <2>2 DEF Idle, Ended, Pending, RunOver
  <2>4. RunOver(Other(c))'
    BY <1>a, <1>c, <2>1, <2>2 DEF RunOver
  <2> QED
    BY <1>c, <1>d, <2>1, <2>3, <2>4 DEF Stage
<1>2. CASE d = Other(c) /\ (WorkerTake(d) \/ WorkerEnd(d) \/ WorkerPost(d))
  BY <1>2, <1>b, <1>c DEF RunOver, WorkerTake, WorkerEnd, WorkerPost
<1>3. CASE d = c /\ WorkerTake(c)
  <2>1. UNCHANGED <<mpStatus, ipsQ>> /\ tasks[c] > 0 /\ wpc[c] = "awake"
    BY <1>3 DEF WorkerTake
  <2>2. /\ tasks'[c] = tasks[c] - 1 /\ tasks'[Other(c)] = tasks[Other(c)]
        /\ wpc'[c] = "run" /\ wpc'[Other(c)] = wpc[Other(c)]
    BY <1>3, <1>a, <1>b DEF WorkerTake, Goto
  <2>3. /\ giFlow[c] = "EXECUTE" /\ light[c] /\ wake[c] /\ Place(c) \in {"visit", "poll"}
        /\ mpStatus = -1 /\ tasks[c] = 1 /\ ipsQ[c] = <<>>
    BY <1>c, <2>1 DEF Stage, Idle, Ended, Pending, RunOver
  <2>4. Pending(c)'
    BY <2>1, <2>2, <2>3 DEF Pending
  <2> QED
    BY <1>c, <1>d, <2>2, <2>3, <2>4 DEF Stage, RunOver
<1>4. CASE d = c /\ WorkerEnd(c)
  <2>1. UNCHANGED <<mpStatus, tasks>> /\ wpc[c] = "run"
    BY <1>4 DEF WorkerEnd
  <2>2. PICK m \in {"Done", "Fail"} : ipsQ' = Set(ipsQ, c, Append(ipsQ[c], m))
    BY <1>4 DEF WorkerEnd
  <2>3. ipsQ'[c] = Append(ipsQ[c], m)
    BY <1>b, <2>2 DEF Set
  <2>4. wpc'[c] = "post" /\ wpc'[Other(c)] = wpc[Other(c)]
    BY <1>4, <1>a, <1>b DEF WorkerEnd, Goto
  <2>5. /\ giFlow[c] = "EXECUTE" /\ light[c] /\ wake[c] /\ Place(c) \in {"visit", "poll"}
        /\ mpStatus = -1 /\ tasks[c] = 0 /\ ipsQ[c] = <<>>
    BY <1>c, <2>1 DEF Stage, Idle, Ended, Pending, RunOver
  <2>6. ipsQ'[c] = <<m>>
    BY <2>3, <2>5
  <2>7. Pending(c)'
    BY <2>1, <2>4, <2>5, <2>6 DEF Pending
  <2> QED
    BY <1>c, <1>d, <2>1, <2>4, <2>5, <2>7 DEF Stage, RunOver
<1>5. CASE d = c /\ WorkerPost(c)
  <2>1. UNCHANGED <<ipsQ, tasks>> /\ wpc[c] = "post"
    BY <1>5 DEF WorkerPost
  <2>2. wpc'[c] = "awake" /\ wpc'[Other(c)] = wpc[Other(c)]
    BY <1>5, <1>a, <1>b DEF WorkerPost, Goto
  <2>3. /\ giFlow[c] = "EXECUTE" /\ light[c] /\ wake[c] /\ Place(c) \in {"visit", "poll"}
        /\ tasks[c] = 0 /\ \E m \in {"Done", "Fail"} : ipsQ[c] = <<m>>
    BY <1>c, <2>1 DEF Stage, Idle, Ended, Pending, RunOver
  <2>4. Ended(c)'
    BY <2>1, <2>2, <2>3 DEF Ended, RunOver
  <2> QED
    BY <1>c, <1>d, <2>1, <2>2, <2>3, <2>4 DEF Stage, RunOver
<1> QED
  BY <1>a, <1>1, <1>2, <1>3, <1>4, <1>5 DEF Worker

LEMMA OwnInductive ==
  ASSUME TypeOK, OwnInvs, [Next]_vars
  PROVE  OwnInvs'
<1> SUFFICES ASSUME NEW c \in Cameras PROVE OwnInv(c)'
  BY DEF OwnInvs
<1> USE DEF confVars, flowVars, workerVars, mainVars, ioVars, histVars
<1>a. OwnInv(c)
  BY DEF OwnInvs
<1>1. CASE Main
  BY <1>1, <1>a, OwnHandler, OwnOtherHandler
<1>2. ASSUME NEW d \in Cameras, Worker(d) PROVE OwnInv(c)'
  BY <1>2, <1>a, OwnWorker
<1>3. CASE IoAutoTest
  <2>1. UNCHANGED <<light, wake, mpStatus, ipsQ, tasks, wpc, mainPc, at>> /\ Place(c)' = Place(c)
    BY <1>3 DEF IoAutoTest, Place
  <2>2. giFlow'[c] = giFlow[c] \/ (giFlow'[c] = "START" /\ c = 0 /\ iosCam = 0)
    BY <1>3 DEF IoAutoTest, Set, TypeOK
  <2>3. disturbed'[c] = (disturbed[c] \/ (c = 0 /\ iosCam = 0 /\ giFlow[0] \in {"EXECUTE", "RESULT"}))
    BY <1>3 DEF IoAutoTest, Disturb
  <2>4. CASE giFlow'[c] = giFlow[c]
    <3>1. disturbed'[c] \in {disturbed[c], TRUE}
      BY <2>3 DEF TypeOK
    <3> QED
      BY <1>a, <2>1, <3>1, <2>4, OwnKept
  <2>5. CASE giFlow'[c] = "START" /\ c = 0 /\ iosCam = 0
    <3> SUFFICES ASSUME ~disturbed'[c] PROVE (RunOver(Other(c)) /\ Stage(c))'
      BY DEF OwnInv
    <3>1. ~disturbed[c] /\ giFlow[c] \notin {"EXECUTE", "RESULT"}
      BY <2>3, <2>5
    <3>2. RunOver(Other(c)) /\ Stage(c) /\ RunOver(Other(c))'
      BY <1>a, <2>1, <3>1 DEF OwnInv, RunOver
    <3>3. Idle(c) <=> Idle(c)'
      BY <2>1 DEF Idle, RunOver
    <3> QED
      BY <2>1, <2>5, <3>1, <3>2, <3>3 DEF Stage
  <2> QED
    BY <2>2, <2>4, <2>5
<1>4. ASSUME NEW d \in Cameras, CommandRun(d) PROVE OwnInv(c)'
  <2>1. disturbed'[c] = TRUE
    BY <1>4 DEF CommandRun, Disturb
  <2> QED
    BY <2>1 DEF OwnInv
<1>5. CASE UNCHANGED <<giFlow, light, wake, mpStatus, ipsQ, tasks, wpc, mainPc, at, disturbed>>
  <2>1. Place(c)' = Place(c)
    BY <1>5 DEF Place
  <2> QED
    BY <1>a, <1>5, <2>1, OwnKept
<1>6. CASE \E d \in TriggerCams : Raise(d)
  BY <1>5, <1>6 DEF Raise
<1>7. CASE Commands
  <2>1. CASE \E d \in Cameras : CommandRun(d)
    BY <1>4, <2>1
  <2>2. CASE Commands /\ ~\E d \in Cameras : CommandRun(d)
    <3>1. UNCHANGED <<giFlow, light, wake, mpStatus, ipsQ, tasks, wpc, mainPc, at, disturbed>>
      BY <2>2 DEF Commands, ReportResult, AutoTestSetMode, DinSetMode, DoutSetMode
    <3> QED
      BY <1>5, <3>1
  <2> QED
    BY <1>7, <2>1, <2>2
<1>8. CASE UNCHANGED vars
  BY <1>5, <1>8 DEF vars
<1> QED
  BY <1>1, <1>2, <1>3, <1>6, <1>7, <1>8 DEF Next

LEMMA OwnAlways == Spec => [](TypeOK /\ OwnInvs)
<1>1. Init => OwnInvs
  <2> SUFFICES ASSUME Init, NEW c \in Cameras PROVE OwnInv(c)
    BY DEF OwnInvs
  <2>1. \A d \in Cameras : /\ giFlow[d] = "START" /\ ipsQ[d] = <<>>
                           /\ tasks[d] = 0 /\ wpc[d] = "asleep"
    BY DEF Init
  <2>2. mainPc = "visit"
    BY DEF Init
  <2>3. Other(c) \in Cameras
    BY TwoCameras
  <2> QED
    BY <2>1, <2>2, <2>3 DEF OwnInv, Stage, Idle, RunOver, Place
<1>2. TypeOK /\ OwnInvs /\ [Next]_vars => OwnInvs'
  BY OwnInductive
<1> QED
  BY <1>1, <1>2, FlowTypeCorrect, PTL DEF Spec

(* A run of an undisturbed cycle, of either camera, is carried out with    *)
(* the light on: Judge and Arm, which switch it off, wait for the run.     *)
THEOREM RunsInTheLight == Spec => []LitWhileRunning
<1>1. TypeOK /\ OwnInvs => LitWhileRunning
  BY DEF OwnInvs, OwnInv, Stage, Idle, Ended, Pending, RunOver, LitWhileRunning
<1> QED
  BY <1>1, OwnAlways, PTL

(* GI_WAIT_TRIGGER is entered with no run and no message of an earlier     *)
(* cycle left, however the runs end and wherever a restart falls between   *)
(* two cycles or into a handler that arms or accepts, unless the camera    *)
(* is disturbed.                                                           *)
THEOREM CyclesStartClean == Spec => []CleanSlate
<1>1. TypeOK /\ OwnInvs => CleanSlate
  BY DEF OwnInvs, OwnInv, Stage, Idle, CleanSlate
<1> QED
  BY <1>1, OwnAlways, PTL

(* GI_EXCUTE_AUTO_GI of an undisturbed camera is left only when the run it *)
(* submitted is over, though one mp_FlowStatus serves both cameras.        *)
THEOREM OwnRunEnds == Spec => DoneMeansOwnRunDone
<1> DEFINE A == \A c \in Cameras : ~disturbed[c] /\ giFlow[c] = "EXECUTE" /\ giFlow'[c] = "RESULT" =>
                  RunOver(c)
<1>1. TypeOK /\ OwnInvs /\ [Next]_vars => [A]_vars
  <2> SUFFICES ASSUME TypeOK, OwnInvs, Next, NEW c \in Cameras, ~disturbed[c],
                      giFlow[c] = "EXECUTE", giFlow'[c] = "RESULT"
               PROVE  RunOver(c)
    OBVIOUS
  <2> USE DEF confVars, flowVars, workerVars, mainVars, ioVars, histVars
  <2>1. giFlow \in [Cameras -> Flow] /\ at \in Cameras
    BY DEF TypeOK
  <2>2. Poll /\ at = c
    <3>1. \/ Poll
          \/ Arm /\ giFlow' = Set(giFlow, at, "WAIT")
          \/ Accept /\ giFlow' = Set(giFlow, at, "EXECUTE")
          \/ Restart /\ giFlow' = Set(giFlow, at, "START")
          \/ IoAutoTest /\ giFlow' \in {giFlow, Set(giFlow, 0, "START")}
          \/ giFlow' = giFlow
      <4>1. CASE Main
        BY <4>1 DEF Main, Nothing, Start, Arm, Take, Accept, Bounce, Execute, Judge, Judged, Restart
      <4>2. CASE \E d \in Cameras : Worker(d)
        BY <4>2 DEF Worker, WorkerBegin, WorkerTake, WorkerEnd, WorkerPost, WorkerDrained,
                    WorkerCheck, WorkerPark
      <4>3. CASE IoAutoTest
        BY <4>3 DEF IoAutoTest
      <4>4. CASE (\E d \in TriggerCams : Raise(d)) \/ Commands
        BY <4>4 DEF Raise, Commands, ReportResult, AutoTestSetMode, DinSetMode, DoutSetMode,
                    CommandRun
      <4> QED
        BY <4>1, <4>2, <4>3, <4>4 DEF Next
    <3> QED
      BY <2>1, <3>1 DEF Poll, Set
  <2>3. mpStatus \in {0, 1} /\ mainPc = "poll"
    BY <2>1, <2>2 DEF Poll, Set
  <2> QED
    BY <2>1, <2>2, <2>3 DEF OwnInvs, OwnInv, Stage, Place, Ended, Pending
<1> QED
  BY <1>1, OwnAlways, PTL DEF Spec, DoneMeansOwnRunDone
=============================================================================
