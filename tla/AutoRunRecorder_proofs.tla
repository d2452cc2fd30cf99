------------------------ MODULE AutoRunRecorder_proofs ------------------------
(***************************************************************************)
(* What holds of recording and replaying for one camera or two, whatever   *)
(* the backend sends, however often the inspection flow triggers and       *)
(* whichever methods fail.                                                 *)
(***************************************************************************)
EXTENDS AutoRunRecorder, FiniteSetTheorems, TLAPS

(* The parts of the type invariant that the replay needs.                  *)
ReplayType ==
  /\ pc \in [Cameras -> PC] /\ at \in [Cameras -> Nat]
  /\ cur \in [Cameras -> Task] /\ rec \in [Cameras -> Seq(Task)]
  /\ queue \in [Cameras -> Seq(Task)]
  /\ ran \in [Cameras -> Seq(Id)] /\ reports \in [Cameras -> Seq({"Done", "Fail"})]
  /\ script \in [Cameras -> Seq(Commands)] /\ sent \in [Cameras -> Nat]
  /\ subCam \in Cameras \cup {NoCam} /\ flowCam \in Cameras \cup {NoCam}
  /\ subCam # NoCam => sent[subCam] < Len(script[subCam])
  /\ mode \in Mode /\ trigFlag \in BOOLEAN

LEMMA TaskTypes ==
  ASSUME NEW k \in Commands, NEW id \in Id, NEW m \in Mode
  PROVE  [kind |-> k, id |-> id, mode |-> m] \in Task
BY DEF Task

(* Appending to one camera's sequence keeps the sequences well formed.     *)
LEMMA PushType ==
  ASSUME NEW S, NEW f \in [Cameras -> Seq(S)], NEW c \in Cameras, NEW v \in S
  PROVE  Push(f, c, v) \in [Cameras -> Seq(S)]
BY DEF Push

LEMMA EmptyType ==
  ASSUME NEW S
  PROVE  [c \in Cameras |-> <<>>] \in [Cameras -> Seq(S)] /\ <<>> \in Seq(S)
OBVIOUS

LEMMA CameraNumbers == NoCam \notin Cameras /\ \A c \in Cameras : <<c, 0>> \in Id
BY CamerasAssumption DEF NoCam, Id

LEMMA UpdatedType ==
  ASSUME ReplayType, NEW k \in Commands
  PROVE  Updated(mode, k) \in Mode
<1>1. ASSUME NEW m \in Mode, NEW a \in BOOLEAN, NEW b \in BOOLEAN
      PROVE  [m EXCEPT !.auto = a, !.trig = b] \in Mode /\ [m EXCEPT !.act = a] \in Mode
  BY DEF Mode
<1>2. mode \in Mode /\ trigFlag \in BOOLEAN
  BY DEF ReplayType
<1>3. (k \in {"record", "chain"}) \in BOOLEAN /\ (k = "record") \in BOOLEAN
  OBVIOUS
<1> QED
  BY <1>1, <1>2, <1>3 DEF Updated

LEMMA ReplayInitial == Init => ReplayType
<1> SUFFICES ASSUME Init PROVE ReplayType
  OBVIOUS
<1>1. Off \in Mode
  BY DEF Off, Mode
<1>2. \A c \in Cameras : [kind |-> "end", id |-> Nothing(c), mode |-> Off] \in Task
  BY <1>1, CameraNumbers DEF Nothing, Task, Commands, AutoCommands
<1>3. script \in [Cameras -> Seq(Commands)] /\ "idle" \in PC
  BY ScriptsAssumption DEF Init, PC
<1>4. /\ cur \in [Cameras -> Task] /\ pc \in [Cameras -> PC] /\ at \in [Cameras -> Nat]
      /\ sent \in [Cameras -> Nat] /\ mode \in Mode /\ trigFlag \in BOOLEAN
      /\ subCam = NoCam /\ flowCam = NoCam
  BY <1>1, <1>2, <1>3 DEF Init
<1>5. /\ rec \in [Cameras -> Seq(Task)] /\ queue \in [Cameras -> Seq(Task)]
      /\ ran \in [Cameras -> Seq(Id)] /\ reports \in [Cameras -> Seq({"Done", "Fail"})]
  <2>1. /\ rec = [c \in Cameras |-> <<>>] /\ queue = [c \in Cameras |-> <<>>]
        /\ ran = [c \in Cameras |-> <<>>] /\ reports = [c \in Cameras |-> <<>>]
    BY DEF Init
  <2> QED
    BY <2>1, EmptyType
<1> QED
  BY <1>3, <1>4, <1>5 DEF ReplayType

(* A replay goes through what is recorded: it is at a step of it, and the  *)
(* steps before that one, and the step itself once its method is done,     *)
(* have succeeded.                                                         *)
Through(c) == IF pc[c] \in {"prepare", "run"} THEN at[c] - 1 ELSE at[c]
InReplay(c) ==
  at[c] > 0 =>
    /\ at[c] <= Len(rec[c]) /\ pc[c] \in {"prepare", "run", "convert", "answer"}
    /\ Len(ran[c]) = Through(c)
    /\ \A i \in 1 .. Len(ran[c]) : ran[c][i] = rec[c][i].id

ReplayInv == ReplayType /\ \A c \in Cameras : InReplay(c)

LEMMA ReplayTypeInductive == ReplayInv /\ [Next]_vars => ReplayType'
<1> SUFFICES ASSUME ReplayInv, [Next]_vars PROVE ReplayType'
  OBVIOUS
<1> USE DEF ReplayInv
<1> USE CameraNumbers
        DEF Set, Goto, PC, inputVars, flagVars, runVars, ownVars
<1>1. ASSUME NEW c \in Cameras, SubParse(c) \/ FlowParse(c) PROVE ReplayType'
  BY <1>1 DEF SubParse, FlowParse, ReplayType
<1>2. CASE SubEnqueue
  <2>1. subCam \in Cameras /\ NextCommand(subCam) \in Commands
    BY <1>2 DEF SubEnqueue, NextCommand, ReplayType
  <2>2. mode' \in Mode
    BY <1>2, <2>1, UpdatedType DEF SubEnqueue
  <2>3. <<subCam, sent[subCam] + 1>> \in Id
    BY <2>1 DEF Id, ReplayType
  <2>4. queue' \in [Cameras -> Seq(Task)]
    BY <1>2, <2>1, <2>2, <2>3, TaskTypes, PushType DEF SubEnqueue, Enqueue, ReplayType
  <2>5. sent' \in [Cameras -> Nat] /\ subCam' = NoCam
    BY <1>2, <2>1 DEF SubEnqueue, ReplayType
  <2> QED
    BY <1>2, <2>2, <2>4, <2>5 DEF SubEnqueue, ReplayType
<1>3. CASE FlowEnqueue
  <2>1. flowCam \in Cameras /\ [Off EXCEPT !.act = trigFlag] \in Mode
    BY <1>3 DEF FlowEnqueue, ReplayType, Off, Mode
  <2>2. "trigger" \in Commands /\ Nothing(flowCam) \in Id
    BY <2>1 DEF Commands, TriggerCommands, Nothing
  <2>3. queue' \in [Cameras -> Seq(Task)]
    BY <1>3, <2>1, <2>2, TaskTypes, PushType DEF FlowEnqueue, Enqueue, ReplayType
  <2> QED
    BY <1>3, <2>3 DEF FlowEnqueue, ReplayType
<1>r. ASSUME NEW c \in Cameras, Report(c, "Done") \/ Report(c, "Fail") \/ UNCHANGED reports
      PROVE  reports' \in [Cameras -> Seq({"Done", "Fail"})]
  <2>1. reports \in [Cameras -> Seq({"Done", "Fail"})]
    BY DEF ReplayType
  <2>2. \A v \in {"Done", "Fail"} : Push(reports, c, v) \in [Cameras -> Seq({"Done", "Fail"})]
    BY <2>1, PushType
  <2> QED
    BY <1>r, <2>1, <2>2 DEF Report
<1>4. ASSUME NEW c \in Cameras, Take(c) PROVE ReplayType'
  <2>1. Head(queue[c]) \in Task /\ Tail(queue[c]) \in Seq(Task)
    BY <1>4 DEF Take, ReplayType
  <2> QED
    BY <1>4, <2>1 DEF Take, ReplayType
<1>5. ASSUME NEW c \in Cameras, ModeCommand(c) PROVE ReplayType'
  BY <1>5 DEF ModeCommand, ReplayType
<1>6. ASSUME NEW c \in Cameras, Record(c) PROVE ReplayType'
  <2>1. Recorded(c) \in Seq(Task)
    BY DEF Recorded, ReplayType
  <2> QED
    BY <1>6, <2>1 DEF Record, ReplayType
<1>7. ASSUME NEW c \in Cameras, TrigAssign(c) PROVE ReplayType'
  BY <1>7 DEF TrigAssign, ReplayType
<1>8. ASSUME NEW c \in Cameras, TrigTest(c) PROVE ReplayType'
  BY <1>8, <1>r DEF TrigTest, ReplayType
<1>9. ASSUME NEW c \in Cameras, Begin(c) PROVE ReplayType'
  <2>1. reports' \in [Cameras -> Seq({"Done", "Fail"})]
    BY <1>9, <1>r DEF Begin
  <2>2. at' \in [Cameras -> Nat] /\ pc' \in [Cameras -> PC] /\ ran' \in [Cameras -> Seq(Id)]
    <3>1. CASE rec[c] = <<>>
      BY <1>9, <3>1 DEF Begin, ReplayType
    <3>2. CASE rec[c] # <<>>
      <4>1. /\ at' = [at EXCEPT ![c] = 1] /\ ran' = [ran EXCEPT ![c] = <<>>]
            /\ pc' = [pc EXCEPT ![c] = "prepare"]
        BY <1>9, <3>2 DEF Begin
      <4>2. <<>> \in Seq(Id)
        BY EmptyType
      <4> QED
        BY <4>1, <4>2 DEF ReplayType
    <3> QED
      BY <3>1, <3>2
  <2> QED
    BY <1>9, <2>1, <2>2 DEF Begin, ReplayType
<1>10. ASSUME NEW c \in Cameras, Prepare(c) PROVE ReplayType'
  BY <1>10 DEF Prepare, ReplayType
<1>11. ASSUME NEW c \in Cameras, RunFail(c) PROVE ReplayType'
  BY <1>11, <1>r DEF RunFail, ReplayType
<1>12. ASSUME NEW c \in Cameras, Convert(c) PROVE ReplayType'
  BY <1>12 DEF Convert, ReplayType
<1>13. ASSUME NEW c \in Cameras, Answer(c) PROVE ReplayType'
  <2>1. reports' \in [Cameras -> Seq({"Done", "Fail"})]
    BY <1>13, <1>r DEF Answer
  <2>2. at' \in [Cameras -> Nat] /\ pc' \in [Cameras -> PC]
    <3>1. at' = [at EXCEPT ![c] = at[c] + 1] \/ at' = [at EXCEPT ![c] = 0]
      BY <1>13 DEF Answer
    <3>2. pc' = [pc EXCEPT ![c] = "prepare"] \/ pc' = [pc EXCEPT ![c] = "idle"]
      BY <1>13 DEF Answer
    <3>3. at[c] + 1 \in Nat
      BY DEF ReplayType
    <3>4. at' \in [Cameras -> Nat]
      <4>1. at \in [Cameras -> Nat] /\ 0 \in Nat
        BY DEF ReplayType
      <4> HIDE DEF ReplayInv
      <4> QED
        BY <3>1, <3>3, <4>1
    <3>5. pc' \in [Cameras -> PC]
      BY <3>2 DEF ReplayType
    <3> QED
      BY <3>4, <3>5
  <2> QED
    BY <1>13, <2>1, <2>2 DEF Answer, ReplayType
<1>14. ASSUME NEW c \in Cameras, RunOk(c) PROVE ReplayType'
  <2>1. ran' \in [Cameras -> Seq(Id)]
    <3>1. CASE Replaying(c)
      <4>1. Step(c).id \in Id
        <5>1. at[c] \in 1 .. Len(rec[c]) /\ rec[c] \in Seq(Task)
          BY <3>1 DEF Replaying, InReplay, ReplayType
        <5>2. rec[c][at[c]] \in Task
          BY <5>1
        <5> QED
          BY <3>1, <5>2 DEF Step, Task
      <4> QED
        BY <1>14, <3>1, <4>1, PushType DEF RunOk, ReplayType
    <3>2. CASE ~Replaying(c)
      BY <1>14, <3>2 DEF RunOk, ReplayType
    <3> QED
      BY <3>1, <3>2
  <2> QED
    BY <1>14, <2>1 DEF RunOk, ReplayType
<1>15. CASE UNCHANGED vars
  BY <1>15 DEF vars, ReplayType
<1> QED
  BY <1>1, <1>2, <1>3, <1>4, <1>5, <1>6, <1>7, <1>8, <1>9, <1>10, <1>11, <1>12, <1>13, <1>14,
     <1>15 DEF Next, Input, Worker

(* Only a camera's own worker takes part in its replay.                    *)
LEMMA ReplayKept ==
  ASSUME NEW c \in Cameras, InReplay(c), UNCHANGED <<at[c], rec[c], pc[c], ran[c]>>
  PROVE  InReplay(c)'
BY DEF InReplay, Through

LEMMA OthersKeep ==
  ASSUME ReplayType, NEW c \in Cameras, NEW d \in Cameras, d # c, Worker(d)
  PROVE  UNCHANGED <<at[c], rec[c], pc[c], ran[c], reports[c]>>
BY DEF Worker, Take, ModeCommand, Record, TrigAssign, TrigTest, Begin, Prepare, RunOk, RunFail,
       Convert, Answer, Set, Push, Goto, Report, flagVars, runVars, ownVars, ReplayType

LEMMA ReplayInductive ==
  ASSUME ReplayInv, [Next]_vars, NEW c \in Cameras
  PROVE  InReplay(c)'
<1> USE DEF ReplayInv
<1>t. ReplayType'
  BY ReplayTypeInductive
<1>1. CASE Input
  BY <1>1, ReplayKept DEF Input, SubParse, FlowParse, SubEnqueue, FlowEnqueue, runVars
<1>2. ASSUME NEW d \in Cameras, d # c, Worker(d) PROVE InReplay(c)'
  BY <1>2, OthersKeep, ReplayKept
<1>3. CASE Take(c)
  <2>1. pc[c] = "idle" /\ at' = at
    BY <1>3 DEF Take, runVars
  <2> QED
    BY <2>1 DEF InReplay
<1>4. CASE ModeCommand(c)
  <2>1. pc[c] = "mode" /\ at' = at
    BY <1>4 DEF ModeCommand, runVars
  <2> QED
    BY <2>1 DEF InReplay
<1>5. CASE Record(c)
  <2>1. pc[c] = "record" /\ at' = at
    BY <1>5 DEF Record, runVars
  <2> QED
    BY <2>1 DEF InReplay
<1>6. CASE TrigAssign(c) \/ TrigTest(c)
  <2>1. pc[c] \in {"trigger", "trigTest"} /\ at' = at
    BY <1>6 DEF TrigAssign, TrigTest, runVars
  <2> QED
    BY <2>1 DEF InReplay
<1>7. CASE Begin(c)
  <2>1. CASE rec[c] = <<>>
    BY <1>7, <2>1 DEF Begin, InReplay
  <2>2. CASE rec[c] # <<>>
    <3>1. at'[c] = 1 /\ ran'[c] = <<>> /\ pc'[c] = "prepare" /\ rec' = rec
      BY <1>7, <2>2 DEF Begin, Set, Goto, ReplayType
    <3>2. Len(rec[c]) > 0
      BY <2>2 DEF ReplayType
    <3> QED
      BY <3>1, <3>2 DEF InReplay, Through
  <2> QED
    BY <2>1, <2>2
<1>8. CASE Prepare(c)
  <2>1. /\ UNCHANGED <<at, rec, ran>> /\ pc[c] = "prepare" /\ pc'[c] = "run"
    BY <1>8 DEF Prepare, Set, Goto, ReplayType
  <2> QED
    BY <2>1 DEF InReplay, Through
<1>9. CASE RunOk(c)
  <2>1. /\ UNCHANGED <<at, rec>> /\ pc[c] = "run" /\ pc'[c] = "convert"
    BY <1>9 DEF RunOk, Set, Goto, ReplayType
  <2>2. CASE at[c] > 0
    <3>1. ran'[c] = Append(ran[c], rec[c][at[c]].id)
      BY <1>9, <2>2 DEF RunOk, Push, Replaying, Step, ReplayType
    <3>2. Len(ran[c]) = at[c] - 1 /\ at[c] <= Len(rec[c]) /\ at[c] \in Nat
      BY <2>1, <2>2 DEF InReplay, Through, ReplayType
    <3>3. Len(ran'[c]) = at[c] /\ \A i \in 1 .. at[c] : ran'[c][i] = rec[c][i].id
      BY <2>2, <3>1, <3>2 DEF InReplay, ReplayType
    <3> QED
      BY <2>1, <3>2, <3>3 DEF InReplay, Through
  <2>3. CASE ~(at[c] > 0)
    BY <2>1, <2>3 DEF InReplay
  <2> QED
    BY <2>2, <2>3
<1>10. CASE RunFail(c)
  <2>1. at'[c] = 0
    BY <1>10 DEF RunFail, Set, ReplayType
  <2> QED
    BY <2>1 DEF InReplay
<1>11. CASE Convert(c)
  <2>1. UNCHANGED <<at, rec, ran>> /\ pc[c] = "convert" /\ pc'[c] = "answer"
    BY <1>11 DEF Convert, Set, Goto, runVars, ReplayType
  <2> QED
    BY <2>1 DEF InReplay, Through
<1>12. CASE Answer(c)
  <2>1. pc[c] = "answer" /\ rec' = rec /\ ran' = ran
    BY <1>12 DEF Answer
  <2>2. CASE Replaying(c) /\ at[c] < Len(rec[c])
    <3>1. at'[c] = at[c] + 1 /\ pc'[c] = "prepare" /\ at[c] \in Nat
      BY <1>12, <2>2 DEF Answer, Set, Goto, ReplayType
    <3>2. Len(rec[c]) \in Nat /\ at'[c] - 1 = at[c] /\ at'[c] <= Len(rec[c])
      <4>1. Len(rec[c]) \in Nat /\ at[c] < Len(rec[c])
        BY <2>2 DEF ReplayType
      <4> QED
        BY <3>1, <4>1
    <3>3. Len(ran[c]) = at[c] /\ \A i \in 1 .. Len(ran[c]) : ran[c][i] = rec[c][i].id
      BY <2>1, <2>2 DEF InReplay, Through, Replaying
    <3> QED
      BY <2>1, <3>1, <3>2, <3>3 DEF InReplay, Through
  <2>3. CASE ~(Replaying(c) /\ at[c] < Len(rec[c]))
    <3>1. at'[c] = 0
      BY <1>12, <2>3 DEF Answer, Set, ReplayType
    <3> QED
      BY <3>1 DEF InReplay
  <2> QED
    BY <2>2, <2>3
<1>13. CASE UNCHANGED vars
  BY <1>13, ReplayKept DEF vars, runVars
<1> QED
  BY <1>1, <1>2, <1>3, <1>4, <1>5, <1>6, <1>7, <1>8, <1>9, <1>10, <1>11, <1>12, <1>13
     DEF Next, Worker

LEMMA ReplayAlways == Spec => []ReplayInv
<1>1. Init => ReplayInv
  <2>1. Init => at = [c \in Cameras |-> 0]
    BY DEF Init
  <2> QED
    BY <2>1, ReplayInitial DEF ReplayInv, InReplay
<1>2. ReplayInv /\ [Next]_vars => ReplayInv'
  BY ReplayTypeInductive, ReplayInductive DEF ReplayInv
<1> QED
  BY <1>1, <1>2, PTL DEF Spec

(* A replay reports Done by the answer to its last step.                   *)
LEMMA DoneIsAnswered ==
  ASSUME ReplayInv, [Next]_vars, NEW c \in Cameras, reports'[c] = Append(reports[c], "Done")
  PROVE  Answer(c) /\ Replaying(c) /\ ~(at[c] < Len(rec[c]))
<1> USE DEF ReplayInv
<1>1. reports[c] \in Seq({"Done", "Fail"})
  BY DEF ReplayType
<1>2. reports'[c] # reports[c]
  BY <1>1
<1>3. reports'[c] # Append(reports[c], "Fail")
  BY <1>1
<1>4. Worker(c)
  BY <1>2, OthersKeep
     DEF Next, Input, SubParse, FlowParse, SubEnqueue, FlowEnqueue, vars, runVars
<1> QED
  BY <1>2, <1>3, <1>4
     DEF Worker, Take, ModeCommand, Record, TrigAssign, TrigTest, Begin, Prepare, RunOk,
         RunFail, Convert, Answer, Push, Report, runVars, ReplayType

(* Whatever the other worker does to the flags a replay reads, the replay  *)
(* reports Done only after every recorded step, in order, has succeeded in *)
(* it, and nothing else.                                                   *)
THEOREM DoneMeansAllSteps == Spec => DoneRanRecording
<1>1. ReplayInv /\ [Next]_vars =>
        [\A c \in Cameras :
           reports'[c] = Append(reports[c], "Done") => ran[c] = Ids(rec[c])]_vars
  <2> SUFFICES ASSUME ReplayInv, [Next]_vars, NEW c \in Cameras,
                      reports'[c] = Append(reports[c], "Done")
               PROVE  ran[c] = Ids(rec[c])
    OBVIOUS
  <2> USE DEF ReplayInv
  <2>5. Answer(c) /\ Replaying(c) /\ ~(at[c] < Len(rec[c]))
    BY DoneIsAnswered
  <2>6. pc[c] = "answer" /\ at[c] = Len(rec[c])
    BY <2>5 DEF Answer, Replaying, InReplay, ReplayType
  <2>7. Len(ran[c]) = Len(rec[c]) /\ \A i \in 1 .. Len(rec[c]) : ran[c][i] = rec[c][i].id
    BY <2>5, <2>6 DEF Replaying, InReplay, Through
  <2>8. ran[c] \in Seq(Id) /\ rec[c] \in Seq(Task)
    BY DEF ReplayType
  <2>9. ran[c] = [i \in 1 .. Len(rec[c]) |-> rec[c][i].id]
    BY <2>7, <2>8
  <2> QED
    BY <2>8, <2>9 DEF Ids
<1> QED
  BY <1>1, ReplayAlways, PTL DEF Spec, DoneRanRecording
-----------------------------------------------------------------------------
(* Every queued command carries its own mode.  While no trigger of the     *)
(* inspection flow has come, the parsed flag is that of the message at     *)
(* hand.                                                                   *)
Carried(t) ==
  IF IsAuto(t) THEN /\ t.mode.auto = (t.kind \in {"record", "chain"})
                    /\ t.mode.trig = (t.kind = "record")
  ELSE t.kind \in TriggerCommands /\ nFlow = 0 => t.mode.act = (t.kind = "trigger")

ModeInv ==
  /\ nFlow \in Nat
  /\ flowCam # NoCam => nFlow > 0
  /\ subCam # NoCam /\ NextCommand(subCam) \in TriggerCommands /\ nFlow = 0
       => trigFlag = (NextCommand(subCam) = "trigger")
  /\ \A c \in Cameras : \A i \in DOMAIN queue[c] : Carried(queue[c][i])

(* A command appended to a queue disturbs none of those before it.         *)
LEMMA AppendCarries ==
  ASSUME NEW q \in Seq(Task), NEW t \in Task, Carried(t),
         \A i \in DOMAIN q : Carried(q[i])
  PROVE  \A i \in DOMAIN Append(q, t) : Carried(Append(q, t)[i])
BY DEF Carried

LEMMA TailCarries ==
  ASSUME NEW q \in Seq(Task), q # <<>>, \A i \in DOMAIN q : Carried(q[i])
  PROVE  \A i \in DOMAIN Tail(q) : Carried(Tail(q)[i])
<1>1. \A i \in DOMAIN Tail(q) : i + 1 \in DOMAIN q /\ Tail(q)[i] = q[i + 1]
  OBVIOUS
<1> QED
  BY <1>1

(* The two mode commands fill in the record that is queued.                *)
LEMMA UpdatedCarries ==
  ASSUME ReplayType, NEW k \in Commands, NEW id,
         k \in TriggerCommands /\ nFlow = 0 => trigFlag = (k = "trigger")
  PROVE  Carried([kind |-> k, id |-> id, mode |-> Updated(mode, k)])
BY DEF ReplayType, Carried, Updated, IsAuto, Mode, AutoCommands, TriggerCommands

LEMMA ModeInductive ==
  ASSUME ReplayInv, ModeInv, [Next]_vars
  PROVE  ModeInv'
<1>t. ReplayType /\ ReplayType'
  BY ReplayTypeInductive DEF ReplayInv
<1> USE CameraNumbers
<1>1. ASSUME NEW c \in Cameras, SubParse(c)
      PROVE  ModeInv'
  BY <1>1, <1>t DEF SubParse, ModeInv, Carried, NextCommand
<1>2. ASSUME NEW c \in Cameras, FlowParse(c)
      PROVE  ModeInv'
  <2>1. nFlow' \in Nat /\ nFlow' > 0 /\ queue' = queue
    BY <1>2 DEF FlowParse, ModeInv
  <2>2. (\A d \in Cameras : \A i \in DOMAIN queue[d] : Carried(queue[d][i]))'
    BY <2>1 DEF ModeInv, Carried, IsAuto
  <2> QED
    BY <2>1, <2>2 DEF ModeInv
<1>3. CASE SubEnqueue
  <2> DEFINE k == NextCommand(subCam)
             t == [kind |-> k, id |-> <<subCam, sent[subCam] + 1>>, mode |-> Updated(mode, k)]
  <2>1. subCam \in Cameras /\ k \in Commands
    BY <1>3, <1>t DEF SubEnqueue, NextCommand, ReplayType
  <2>2. t \in Task
    <3>1. <<subCam, sent[subCam] + 1>> \in Id
      <4>1. sent \in [Cameras -> Nat]
        BY <1>t DEF ReplayType
      <4>2. subCam \in Cameras
        BY <2>1
      <4> QED
        BY <4>1, <4>2 DEF Id
    <3>2. Updated(mode, k) \in Mode
      BY <2>1, <1>t, UpdatedType
    <3> HIDE DEF k
    <3> QED
      BY <2>1, <3>1, <3>2, TaskTypes
  <2>3. Carried(t)
    BY <1>3, <1>t, <2>1, UpdatedCarries DEF SubEnqueue, ModeInv
  <2>4. queue' = [queue EXCEPT ![subCam] = Append(queue[subCam], t)]
    BY <1>3, <2>1, <1>t DEF SubEnqueue, Enqueue, Push, ReplayType
  <2>5. nFlow' = nFlow /\ flowCam' = flowCam /\ subCam' = NoCam
    BY <1>3 DEF SubEnqueue
  <2>6. ASSUME NEW c \in Cameras
        PROVE  \A i \in DOMAIN queue'[c] : Carried(queue'[c][i])
    <3>1. queue[c] \in Seq(Task) /\ \A i \in DOMAIN queue[c] : Carried(queue[c][i])
      BY <1>t DEF ReplayType, ModeInv
    <3>2. CASE c = subCam
      <4>1. queue'[c] = Append(queue[c], t)
        BY <2>4, <3>2, <1>t DEF ReplayType
      <4> HIDE DEF t
      <4> QED
        BY <2>2, <2>3, <3>1, <4>1, AppendCarries
    <3>3. CASE c # subCam
      BY <2>4, <3>1, <3>3, <1>t DEF ReplayType
    <3> QED
      BY <3>2, <3>3
  <2> QED
    BY <2>5, <2>6 DEF ModeInv, Carried
<1>4. CASE FlowEnqueue
  <2> DEFINE t == [kind |-> "trigger", id |-> Nothing(flowCam), mode |-> [Off EXCEPT !.act = trigFlag]]
  <2>1. flowCam \in Cameras /\ nFlow > 0 /\ nFlow \in Nat
    BY <1>4, <1>t DEF FlowEnqueue, ModeInv, ReplayType
  <2>2. t \in Task
    BY <2>1, <1>t, TaskTypes DEF ReplayType, Off, Mode, Nothing, Commands, TriggerCommands
  <2>3. Carried(t)
    BY <2>1 DEF Carried, IsAuto, AutoCommands
  <2>4. queue' = [queue EXCEPT ![flowCam] = Append(queue[flowCam], t)]
    BY <1>4, <2>1, <1>t DEF FlowEnqueue, Enqueue, Push, ReplayType
  <2>5. nFlow' = nFlow /\ flowCam' = NoCam /\ UNCHANGED <<script, sent, subCam, trigFlag>>
    BY <1>4 DEF FlowEnqueue
  <2>6. ASSUME NEW c \in Cameras
        PROVE  \A i \in DOMAIN queue'[c] : Carried(queue'[c][i])
    <3>1. queue[c] \in Seq(Task) /\ \A i \in DOMAIN queue[c] : Carried(queue[c][i])
      BY <1>t DEF ReplayType, ModeInv
    <3>2. CASE c = flowCam
      <4>1. queue'[c] = Append(queue[c], t)
        BY <2>4, <3>2, <1>t DEF ReplayType
      <4> HIDE DEF t
      <4> QED
        BY <2>2, <2>3, <3>1, <4>1, AppendCarries
    <3>3. CASE c # flowCam
      BY <2>4, <3>1, <3>3, <1>t DEF ReplayType
    <3> QED
      BY <3>2, <3>3
  <2> QED
    BY <2>5, <2>6 DEF ModeInv, Carried, NextCommand
<1>5. ASSUME NEW c \in Cameras, Take(c)
      PROVE  ModeInv'
  <2>1. queue' = [queue EXCEPT ![c] = Tail(queue[c])] /\ queue[c] # <<>>
    BY <1>5 DEF Take, Set
  <2>2. UNCHANGED <<nFlow, flowCam, subCam, trigFlag, script, sent>>
    BY <1>5 DEF Take, inputVars
  <2>3. ASSUME NEW d \in Cameras
        PROVE  \A i \in DOMAIN queue'[d] : Carried(queue'[d][i])
    <3>1. queue[d] \in Seq(Task) /\ \A i \in DOMAIN queue[d] : Carried(queue[d][i])
      BY <1>t DEF ReplayType, ModeInv
    <3>2. queue'[d] = IF d = c THEN Tail(queue[d]) ELSE queue[d]
      BY <2>1, <1>t DEF ReplayType
    <3> QED
      BY <2>1, <3>1, <3>2, TailCarries
  <2> QED
    BY <2>2, <2>3 DEF ModeInv, Carried, NextCommand
<1>6. ASSUME UNCHANGED <<inputVars, queue>>
      PROVE  ModeInv'
  BY <1>6 DEF ModeInv, Carried, NextCommand, inputVars
<1>7. ASSUME NEW c \in Cameras, Worker(c), ~Take(c)
      PROVE  UNCHANGED <<inputVars, queue>>
  BY <1>7 DEF Worker, ModeCommand, Record, TrigAssign, TrigTest, Begin, Prepare, RunOk, RunFail,
              Convert, Answer
<1>8. CASE UNCHANGED vars
  BY <1>6, <1>8 DEF vars
<1> QED
  BY <1>1, <1>2, <1>3, <1>4, <1>5, <1>6, <1>7, <1>8 DEF Next, Input

LEMMA ModeAlways == Spec => []ModeInv
<1>1. Init => ModeInv
  <2> SUFFICES ASSUME Init PROVE ModeInv
    OBVIOUS
  <2>1. \A c \in Cameras : queue[c] = <<>>
    BY DEF Init
  <2>2. nFlow = 0 /\ flowCam = NoCam /\ subCam = NoCam
    BY DEF Init
  <2>3. \A c \in Cameras : \A i \in DOMAIN queue[c] : Carried(queue[c][i])
    BY <2>1
  <2> QED
    BY <2>2, <2>3 DEF ModeInv
<1> QED
  BY <1>1, ReplayAlways, ModeInductive, PTL DEF Spec

(* A queued command keeps the mode its own message asked for, however the  *)
(* commands of the two cameras fill in the one mode record by turns.       *)
THEOREM ModesAreOwn == Spec => []OwnMode
<1>1. ModeInv => OwnMode
  BY DEF ModeInv, OwnMode, Carried
<1> QED
  BY <1>1, ModeAlways, PTL
-----------------------------------------------------------------------------
(* Whose messages a recording holds. *)

(* The flag that says whether to record is on only while some camera's     *)
(* last mode command began a recording; and the flag it is compared with   *)
(* is brought up to date by the time every such command has been dealt     *)
(* with.                                                                   *)
Recording(c) == IF AtFlags(c) THEN cur[c].kind = "record" ELSE open[c]
FlagsFollow ==
  /\ enb.trig => \E c \in Cameras : Recording(c)
  /\ prev.trig # enb.trig => \E c \in Cameras : AtFlags(c)

(* As long as no step of another worker came between, the flags are those  *)
(* of camera c's own session, and so is what it has recorded.              *)
FlagsOwn(c) ==
  ~mixed[c] =>
    /\ \A d \in Cameras \ {c} : ~open[d] /\ ~AtFlags(d)
    /\ prev.trig = open[c] /\ enb.trig = Recording(c)
    /\ open[c] \/ ~AtFlags(c) => Ids(rec[c]) = session[c]

(* The mode command that a worker has taken carries its own mode.          *)
TakenCarries ==
  \A c \in Cameras : /\ IsAuto(cur[c]) => cur[c].mode.trig = (cur[c].kind = "record")
                     /\ pc[c] = "mode" => IsAuto(cur[c])

FlagTypes ==
  /\ enb \in Mode /\ prev \in Mode /\ trigActivate \in BOOLEAN
  /\ open \in [Cameras -> BOOLEAN] /\ mixed \in [Cameras -> BOOLEAN]
  /\ session \in [Cameras -> Seq(Id)]

RecordingInv == FlagTypes /\ TakenCarries /\ FlagsFollow /\ \A c \in Cameras : FlagsOwn(c)

LEMMA ModeFields ==
  ASSUME NEW m \in Mode, NEW a \in BOOLEAN, NEW b \in BOOLEAN
  PROVE  /\ m.trig \in BOOLEAN /\ m.act \in BOOLEAN /\ m.auto \in BOOLEAN
         /\ [m EXCEPT !.auto = a, !.trig = b] \in Mode /\ [m EXCEPT !.auto = a, !.trig = b].trig = b
         /\ [m EXCEPT !.trig = a] \in Mode /\ [m EXCEPT !.trig = a].trig = a
         /\ [m EXCEPT !.act = a] \in Mode /\ [m EXCEPT !.act = a].trig = m.trig
         /\ [m EXCEPT !.auto = a] \in Mode /\ [m EXCEPT !.auto = a].trig = m.trig
BY DEF Mode

(* The messages of a recording that grows or begins. *)
LEMMA IdsFacts ==
  ASSUME NEW s \in Seq(Task), NEW t \in Task
  PROVE  /\ Ids(Append(s, t)) = Append(Ids(s), t.id)
         /\ Ids(<<t>>) = <<t.id>> /\ Ids(<<>>) = <<>>
<1>1. t.id \in Id /\ \A i \in DOMAIN s : s[i].id \in Id
  <2>1. \A x \in Task : x.id \in Id
    BY DEF Task
  <2>2. \A i \in DOMAIN s : s[i] \in Task
    OBVIOUS
  <2> QED
    BY <2>1, <2>2
<1>2. Ids(s) \in Seq(Id) /\ Len(Ids(s)) = Len(s)
  BY <1>1 DEF Ids
<1>3. /\ Append(s, t) \in Seq(Task) /\ Len(Append(s, t)) = Len(s) + 1
      /\ \A i \in 1 .. Len(s) : Append(s, t)[i] = s[i]
      /\ Append(s, t)[Len(s) + 1] = t
  OBVIOUS
<1>4. /\ Ids(Append(s, t)) \in Seq(Id) /\ Len(Ids(Append(s, t))) = Len(s) + 1
      /\ \A i \in 1 .. Len(s) + 1 : Ids(Append(s, t))[i] = Append(s, t)[i].id
  BY <1>1, <1>3 DEF Ids, Task
<1>5. /\ Append(Ids(s), t.id) \in Seq(Id) /\ Len(Append(Ids(s), t.id)) = Len(s) + 1
      /\ \A i \in 1 .. Len(s) : Append(Ids(s), t.id)[i] = s[i].id
      /\ Append(Ids(s), t.id)[Len(s) + 1] = t.id
  BY <1>1, <1>2 DEF Ids
<1>6. \A i \in 1 .. Len(s) + 1 : Ids(Append(s, t))[i] = Append(Ids(s), t.id)[i]
  BY <1>3, <1>4, <1>5
<1>7. Ids(Append(s, t)) = Append(Ids(s), t.id)
  BY <1>4, <1>5, <1>6
<1>8. Ids(<<t>>) = <<t.id>> /\ Ids(<<>>) = <<>>
  BY DEF Ids
<1> QED
  BY <1>7, <1>8

LEMMA RecordingInitial == Init => RecordingInv
<1> SUFFICES ASSUME Init PROVE RecordingInv
  OBVIOUS
<1>1. /\ enb = Off /\ prev = Off /\ trigActivate = FALSE
      /\ open = [c \in Cameras |-> FALSE] /\ mixed = [c \in Cameras |-> FALSE]
      /\ session = [c \in Cameras |-> <<>>] /\ rec = [c \in Cameras |-> <<>>]
      /\ pc = [c \in Cameras |-> "idle"]
      /\ cur = [c \in Cameras |-> [kind |-> "end", id |-> Nothing(c), mode |-> Off]]
  BY DEF Init
<1>2. Off \in Mode /\ Off.trig = FALSE
  BY DEF Off, Mode
<1>3. FlagTypes
  BY <1>1, <1>2, EmptyType DEF FlagTypes
<1>4. TakenCarries
  BY <1>1, <1>2 DEF TakenCarries
<1>5. Ids(<<>>) = <<>>
  BY DEF Ids
<1>6. \A c \in Cameras : ~AtFlags(c) /\ open[c] = FALSE /\ Ids(rec[c]) = session[c]
  BY <1>1, <1>5 DEF AtFlags
<1>7. FlagsFollow /\ \A c \in Cameras : FlagsOwn(c)
  BY <1>1, <1>2, <1>6 DEF FlagsFollow, FlagsOwn, Recording
<1> QED
  BY <1>3, <1>4, <1>7 DEF RecordingInv

(* A step that neither executes a mode command nor looks at the flags.     *)
Unrecorded ==
  /\ UNCHANGED <<rec, open, session, mixed>>
  /\ enb'.trig = enb.trig /\ prev'.trig = prev.trig
  /\ \A c \in Cameras : AtFlags(c)' = AtFlags(c) /\ (AtFlags(c) => cur'[c] = cur[c])

LEMMA UnrecordedKeeps ==
  ASSUME FlagsFollow, \A c \in Cameras : FlagsOwn(c), Unrecorded
  PROVE  FlagsFollow' /\ (\A c \in Cameras : FlagsOwn(c))'
<1>1. \A c \in Cameras : Recording(c)' = Recording(c)
  BY DEF Unrecorded, Recording
<1>2. FlagsFollow'
  BY <1>1 DEF FlagsFollow, Unrecorded
<1>3. ASSUME NEW c \in Cameras PROVE FlagsOwn(c)'
  BY <1>1 DEF FlagsOwn, Unrecorded
<1> QED
  BY <1>2, <1>3

LEMMA Unrecordeds ==
  ASSUME ReplayType, FlagTypes, [Next]_vars
  PROVE  Unrecorded \/ \E c \in Cameras : ModeCommand(c) \/ Record(c)
<1> USE DEF inputVars, flagVars, runVars, ownVars
<1>p. pc \in [Cameras -> PC] /\ cur \in [Cameras -> Task]
  BY DEF ReplayType
<1>u. ASSUME UNCHANGED <<rec, open, session, mixed, cur, enb, prev, pc>> PROVE Unrecorded
  BY <1>u DEF Unrecorded, AtFlags
<1>v. ASSUME UNCHANGED <<rec, open, session, mixed, cur>>, NEW c \in Cameras, NEW p,
             enb'.trig = enb.trig, prev'.trig = prev.trig,
             pc' = [pc EXCEPT ![c] = p], p # "record", pc[c] # "record"
      PROVE  Unrecorded
  <2>1. \A d \in Cameras : AtFlags(d)' = AtFlags(d)
    BY <1>p, <1>v DEF AtFlags
  <2> QED
    BY <1>v, <2>1 DEF Unrecorded
<1>m. /\ enb \in Mode /\ prev \in Mode /\ trigActivate \in BOOLEAN /\ FALSE \in BOOLEAN
  BY DEF FlagTypes
<1>1. CASE Input \/ UNCHANGED vars
  BY <1>1, <1>u DEF Input, SubParse, SubEnqueue, FlowParse, FlowEnqueue, vars
<1>2. ASSUME NEW c \in Cameras, Take(c) PROVE Unrecorded
  <2> DEFINE t == Head(queue[c])
             p == IF t.kind \in TriggerCommands THEN "trigger" ELSE IF IsAuto(t) THEN "mode" ELSE "record"
  <2>1. /\ UNCHANGED <<rec, open, session, mixed, enb, prev>>
        /\ pc[c] = "idle" /\ pc' = [pc EXCEPT ![c] = p] /\ cur' = [cur EXCEPT ![c] = t]
    BY <1>2 DEF Take, Goto, Set
  <2>2. ~AtFlags(c) /\ ~AtFlags(c)'
    <3>1. pc'[c] = p /\ cur'[c] = t
      BY <1>p, <2>1
    <3> QED
      BY <2>1, <3>1 DEF AtFlags, IsAuto
  <2>3. \A d \in Cameras : d # c => pc'[d] = pc[d] /\ cur'[d] = cur[d]
    BY <1>p, <2>1
  <2>4. \A d \in Cameras : d # c => AtFlags(d)' = AtFlags(d)
    BY <2>3 DEF AtFlags
  <2> HIDE DEF t, p
  <2>5. ASSUME NEW d \in Cameras PROVE AtFlags(d)' = AtFlags(d) /\ (AtFlags(d) => cur'[d] = cur[d])
    <3>1. CASE d = c
      <4>1. AtFlags(d) <=> AtFlags(c)
        BY <3>1
      <4>2. AtFlags(d)' <=> AtFlags(c)'
        BY <3>1 DEF AtFlags
      <4> QED
        BY <2>2, <4>1, <4>2 DEF AtFlags
    <3>2. CASE d # c
      BY <2>3, <2>4, <3>2
    <3> QED
      BY <3>1, <3>2
  <2> QED
    BY <2>1, <2>5 DEF Unrecorded
<1>3. ASSUME NEW c \in Cameras, TrigAssign(c) \/ Convert(c) \/ RunOk(c) PROVE Unrecorded
  BY <1>3, <1>v DEF TrigAssign, Convert, RunOk, Goto, Set
<1>4. ASSUME NEW c \in Cameras, TrigTest(c) PROVE Unrecorded
  <2>1. enb'.trig = enb.trig /\ prev'.trig = prev.trig
    BY <1>4, <1>m DEF TrigTest, Mode
  <2> QED
    BY <1>4, <1>v, <2>1 DEF TrigTest, Goto, Set
<1>5. ASSUME NEW c \in Cameras, Begin(c) PROVE Unrecorded
  <2>1. enb'.trig = enb.trig /\ prev'.trig = prev.trig
    BY <1>5, <1>m DEF Begin, Mode
  <2> QED
    BY <1>5, <1>v, <2>1 DEF Begin, Goto, Set
<1>6. ASSUME NEW c \in Cameras, Prepare(c) PROVE Unrecorded
  <2>1. enb'.trig = enb.trig /\ prev'.trig = prev.trig
    BY <1>6, <1>m DEF Prepare, Mode
  <2> QED
    BY <1>6, <1>v, <2>1 DEF Prepare, Goto, Set
<1>7. ASSUME NEW c \in Cameras, RunFail(c) PROVE Unrecorded
  <2>1. enb'.trig = enb.trig /\ prev'.trig = prev.trig
    BY <1>7, <1>m DEF RunFail, Mode
  <2> QED
    BY <1>7, <1>v, <2>1 DEF RunFail, Goto, Set
<1>8. ASSUME NEW c \in Cameras, Answer(c) PROVE Unrecorded
  BY <1>8, <1>v DEF Answer, Goto, Set
<1> QED
  BY <1>1, <1>2, <1>3, <1>4, <1>5, <1>6, <1>7, <1>8 DEF Next, Worker

LEMMA FlagTypesInductive == ReplayInv /\ FlagTypes /\ [Next]_vars => FlagTypes'
<1> SUFFICES ASSUME ReplayInv, FlagTypes, [Next]_vars PROVE FlagTypes'
  OBVIOUS
<1> USE DEF inputVars, flagVars, runVars, ownVars
<1>m. enb \in Mode /\ prev \in Mode /\ trigActivate \in BOOLEAN
  BY DEF FlagTypes
<1>c. /\ cur \in [Cameras -> Task] /\ rec \in [Cameras -> Seq(Task)]
      /\ \A c \in Cameras : cur[c].mode \in Mode /\ cur[c].id \in Id
  BY DEF ReplayInv, ReplayType, Task
<1>h. open \in [Cameras -> BOOLEAN] /\ mixed \in [Cameras -> BOOLEAN] /\ session \in [Cameras -> Seq(Id)]
  BY DEF FlagTypes
<1>1. CASE Input \/ UNCHANGED vars
  BY <1>1 DEF Input, SubParse, SubEnqueue, FlowParse, FlowEnqueue, vars, FlagTypes
<1>2. ASSUME NEW c \in Cameras, Take(c) \/ RunOk(c) \/ Convert(c) \/ Answer(c) PROVE FlagTypes'
  BY <1>2 DEF Take, RunOk, Convert, Answer, FlagTypes
<1>3. ASSUME NEW c \in Cameras, TrigAssign(c) PROVE FlagTypes'
  <2>1. cur[c].mode.act \in BOOLEAN
    BY <1>c DEF Mode
  <2> QED
    BY <1>3, <2>1 DEF TrigAssign, FlagTypes
<1>4. ASSUME NEW c \in Cameras, TrigTest(c) \/ Begin(c) \/ Prepare(c) \/ RunFail(c) PROVE FlagTypes'
  <2>1. enb.act \in BOOLEAN
    BY <1>m DEF Mode
  <2>2. enb' \in {enb, [enb EXCEPT !.act = trigActivate], [enb EXCEPT !.act = FALSE], [enb EXCEPT !.auto = FALSE]}
    BY <1>4 DEF TrigTest, Begin, Prepare, RunFail
  <2>3. prev' \in {prev, [prev EXCEPT !.act = enb.act], [prev EXCEPT !.act = FALSE], [prev EXCEPT !.auto = FALSE]}
    BY <1>4 DEF TrigTest, Begin, Prepare, RunFail
  <2>4. \A m \in Mode, b \in BOOLEAN : [m EXCEPT !.act = b] \in Mode /\ [m EXCEPT !.auto = b] \in Mode
    BY DEF Mode
  <2>5. enb' \in Mode /\ prev' \in Mode
    BY <1>m, <2>1, <2>2, <2>3, <2>4
  <2>6. UNCHANGED <<open, mixed, session, trigActivate>>
    BY <1>4 DEF TrigTest, Begin, Prepare, RunFail
  <2> QED
    BY <2>5, <2>6 DEF FlagTypes
<1>5. ASSUME NEW c \in Cameras, ModeCommand(c) PROVE FlagTypes'
  <2>1. /\ enb' = [enb EXCEPT !.auto = cur[c].mode.auto, !.trig = cur[c].mode.trig]
        /\ prev' = [prev EXCEPT !.auto = cur[c].mode.auto]
        /\ UNCHANGED <<trigActivate, open, session>>
    BY <1>5 DEF ModeCommand
  <2>2. cur[c].mode.auto \in BOOLEAN /\ cur[c].mode.trig \in BOOLEAN
    BY <1>c DEF Mode
  <2>3. enb' \in Mode /\ prev' \in Mode
    BY <1>m, <2>1, <2>2 DEF Mode
  <2>4. (\E e \in Cameras \ {c} : open[e] \/ AtFlags(e)) \in BOOLEAN
    OBVIOUS
  <2>5. mixed' \in [Cameras -> BOOLEAN]
    BY <1>5, <1>h, <2>4 DEF ModeCommand
  <2> QED
    BY <1>h, <2>1, <2>3, <2>5, <1>m DEF FlagTypes
<1>6. ASSUME NEW c \in Cameras, Record(c) PROVE FlagTypes'
  <2>1. /\ prev' = [prev EXCEPT !.trig = enb.trig] /\ UNCHANGED <<enb, trigActivate>>
        /\ open' = [open EXCEPT ![c] = IF IsAuto(cur[c]) THEN cur[c].kind = "record" ELSE open[c]]
        /\ session' = [session EXCEPT ![c] = IF open[c] THEN Append(session[c], cur[c].id)
                                             ELSE IF Opens(c) THEN <<cur[c].id>> ELSE <<>>]
        /\ mixed' = [d \in Cameras |-> mixed[d] \/ (d # c /\ AtFlags(d))]
    BY <1>6 DEF Record, Set
  <2>2. prev' \in Mode
    BY <1>m, <2>1 DEF Mode
  <2>3. open' \in [Cameras -> BOOLEAN]
    BY <1>h, <2>1
  <2>4. mixed' \in [Cameras -> BOOLEAN]
    BY <1>h, <2>1
  <2>5. session' \in [Cameras -> Seq(Id)]
    <3>1. Append(session[c], cur[c].id) \in Seq(Id) /\ <<cur[c].id>> \in Seq(Id) /\ <<>> \in Seq(Id)
      BY <1>c, <1>h
    <3> QED
      BY <1>h, <2>1, <3>1
  <2> QED
    BY <1>m, <2>1, <2>2, <2>3, <2>4, <2>5 DEF FlagTypes
<1> QED
  BY <1>1, <1>2, <1>3, <1>4, <1>5, <1>6 DEF Next, Worker

LEMMA TakenInductive == ReplayInv /\ ModeInv /\ TakenCarries /\ [Next]_vars => TakenCarries'
<1> SUFFICES ASSUME ReplayInv, ModeInv, TakenCarries, [Next]_vars PROVE TakenCarries'
  OBVIOUS
<1>p. pc \in [Cameras -> PC] /\ cur \in [Cameras -> Task] /\ queue \in [Cameras -> Seq(Task)]
  BY DEF ReplayInv, ReplayType
<1>1. ASSUME NEW c \in Cameras, Take(c) PROVE TakenCarries'
  <2> DEFINE t == Head(queue[c])
  <2>1. /\ queue[c] # <<>> /\ cur' = [cur EXCEPT ![c] = t]
        /\ pc' = [pc EXCEPT ![c] = IF t.kind \in TriggerCommands THEN "trigger"
                                   ELSE IF IsAuto(t) THEN "mode" ELSE "record"]
    BY <1>1 DEF Take, Goto, Set
  <2>2. 1 \in DOMAIN queue[c] /\ queue[c][1] = t
    BY <1>p, <2>1
  <2>3. Carried(t)
    BY <2>2 DEF ModeInv
  <2>4. cur'[c] = t /\ (pc'[c] = "mode" => IsAuto(t))
    BY <1>p, <2>1
  <2>5. \A d \in Cameras : d # c => cur'[d] = cur[d] /\ pc'[d] = pc[d]
    BY <1>p, <2>1
  <2> HIDE DEF t
  <2> QED
    BY <2>3, <2>4, <2>5 DEF TakenCarries, Carried, IsAuto
<1>2. ASSUME UNCHANGED cur, \A c \in Cameras : pc'[c] = pc[c] \/ pc'[c] # "mode" PROVE TakenCarries'
  BY <1>2 DEF TakenCarries, IsAuto
<1>3. CASE Input \/ UNCHANGED vars
  BY <1>2, <1>3 DEF Input, SubParse, SubEnqueue, FlowParse, FlowEnqueue, vars
<1>4. ASSUME NEW c \in Cameras, Worker(c), ~Take(c) PROVE TakenCarries'
  <2>1. cur' = cur
    BY <1>4 DEF Worker, ModeCommand, Record, TrigAssign, TrigTest, Begin, Prepare, RunOk, RunFail,
                Convert, Answer
  <2>2. \A d \in Cameras : pc'[d] = pc[d] \/ pc'[d] # "mode"
    BY <1>4, <1>p DEF Worker, ModeCommand, Record, TrigAssign, TrigTest, Begin, Prepare, RunOk, RunFail,
                Convert, Answer, Goto, Set
  <2> QED
    BY <1>2, <2>1, <2>2
<1> QED
  BY <1>1, <1>3, <1>4 DEF Next

(* Another mode command: it mixes with every other camera's session, and   *)
(* its own begins unmixed only when no other is under way, with the flags  *)
(* of the closed ones.                                                     *)
LEMMA ModeCommandKeeps ==
  ASSUME ReplayInv, RecordingInv, NEW x \in Cameras, ModeCommand(x)
  PROVE  FlagsFollow' /\ (\A c \in Cameras : FlagsOwn(c))'
<1> USE DEF RecordingInv
<1>p. /\ pc \in [Cameras -> PC] /\ cur \in [Cameras -> Task] /\ enb \in Mode /\ prev \in Mode
      /\ \A c \in Cameras : open[c] \in BOOLEAN /\ cur[c].mode \in Mode
  BY DEF ReplayInv, ReplayType, FlagTypes, Task
<1>1. /\ pc[x] = "mode" /\ pc' = [pc EXCEPT ![x] = "record"] /\ UNCHANGED <<cur, rec, open, session>>
      /\ enb' = [enb EXCEPT !.auto = cur[x].mode.auto, !.trig = cur[x].mode.trig]
      /\ prev' = [prev EXCEPT !.auto = cur[x].mode.auto]
  BY DEF ModeCommand, Goto, Set
<1>2. \A c \in Cameras : mixed'[c] = IF c # x THEN TRUE
                                     ELSE IF Opens(x) THEN \E e \in Cameras \ {x} : open[e] \/ AtFlags(e)
                                     ELSE mixed[x]
  BY DEF ModeCommand
<1>3. enb'.trig = (cur[x].kind = "record") /\ prev'.trig = prev.trig
  BY <1>1, <1>p DEF Mode, TakenCarries
<1>4. ~AtFlags(x) /\ AtFlags(x)' /\ \A c \in Cameras : c # x => (AtFlags(c)' <=> AtFlags(c))
  BY <1>1, <1>p DEF AtFlags, TakenCarries
<1>5. Recording(x)' <=> cur[x].kind = "record"
  BY <1>1, <1>4 DEF Recording
<1>6. FlagsFollow'
  <2>1. enb'.trig => \E c \in Cameras : Recording(c)'
    BY <1>3, <1>5
  <2>2. \E c \in Cameras : AtFlags(c)'
    BY <1>4
  <2> QED
    BY <2>1, <2>2 DEF FlagsFollow
<1>7. ASSUME NEW c \in Cameras, ~mixed'[c] PROVE FlagsOwn(c)'
  <2>1. c = x
    BY <1>2, <1>7
  <2>2. ASSUME NEW d \in Cameras \ {x} PROVE ~open[d] /\ ~AtFlags(d)
    BY <1>2, <1>7, <2>1 DEF FlagsOwn
  <2>3. \A d \in Cameras \ {c} : ~open'[d] /\ ~AtFlags(d)'
    BY <1>1, <1>4, <2>1, <2>2
  <2>4. prev'.trig = open'[x]
    <3>1. CASE Opens(x)
      <4>1. ~open[x] /\ \A d \in Cameras : ~Recording(d) /\ ~AtFlags(d)
        BY <1>4, <2>2, <3>1 DEF Opens, Recording
      <4>2. ~enb.trig /\ prev.trig = enb.trig
        BY <4>1 DEF FlagsFollow
      <4>3. enb.trig \in BOOLEAN /\ open[x] \in BOOLEAN
        BY <1>p DEF Mode
      <4> QED
        BY <1>1, <1>3, <4>1, <4>2, <4>3
    <3>2. CASE ~Opens(x)
      BY <1>1, <1>2, <1>3, <1>7, <2>1, <3>2 DEF FlagsOwn
    <3> QED
      BY <3>1, <3>2
  <2>5. enb'.trig = Recording(x)'
    BY <1>3, <1>4, <1>1 DEF Recording
  <2>6. open'[x] => Ids(rec'[x]) = session'[x]
    BY <1>1, <1>2, <1>7, <2>1 DEF FlagsOwn, Opens
  <2> QED
    BY <1>4, <1>7, <2>1, <2>3, <2>4, <2>5, <2>6 DEF FlagsOwn
<1> QED
  BY <1>6, <1>7 DEF FlagsOwn

(* A look at the flags: it finds those of the camera's own last mode       *)
(* command, unless another worker's step came between.                     *)
LEMMA RecordKeeps ==
  ASSUME ReplayInv, RecordingInv, NEW x \in Cameras, Record(x)
  PROVE  FlagsFollow' /\ (\A c \in Cameras : FlagsOwn(c))'
<1> USE DEF RecordingInv
<1>p. /\ pc \in [Cameras -> PC] /\ cur \in [Cameras -> Task] /\ enb \in Mode /\ prev \in Mode
      /\ rec \in [Cameras -> Seq(Task)]
      /\ open \in [Cameras -> BOOLEAN] /\ mixed \in [Cameras -> BOOLEAN]
      /\ session \in [Cameras -> Seq(Id)]
  BY DEF ReplayInv, ReplayType, FlagTypes
<1>1. /\ pc[x] = "record" /\ pc'[x] # "record" /\ (\A c \in Cameras : c # x => pc'[c] = pc[c])
      /\ UNCHANGED <<cur, enb>> /\ prev' = [prev EXCEPT !.trig = enb.trig]
  BY <1>p DEF Record, Goto, Set
<1>2. /\ open'[x] = (IF IsAuto(cur[x]) THEN cur[x].kind = "record" ELSE open[x])
      /\ rec'[x] = Recorded(x)
      /\ session'[x] = (IF open[x] THEN Append(session[x], cur[x].id)
                        ELSE IF Opens(x) THEN <<cur[x].id>> ELSE <<>>)
  BY <1>p DEF Record, Set
<1>3. \A c \in Cameras : c # x => UNCHANGED <<open[c], rec[c], session[c]>>
  BY <1>p DEF Record, Set
<1>4. \A c \in Cameras : mixed'[c] <=> mixed[c] \/ (c # x /\ AtFlags(c))
  BY DEF Record
<1>5. prev'.trig = enb.trig /\ enb'.trig = enb.trig
  BY <1>1, <1>p DEF Mode
<1>6. ~AtFlags(x)' /\ \A c \in Cameras : c # x => (AtFlags(c)' <=> AtFlags(c))
  BY <1>1 DEF AtFlags
<1>7. open'[x] = Recording(x)
  BY <1>1, <1>2 DEF Recording, AtFlags
<1>8. \A c \in Cameras : Recording(c)' = Recording(c)
  <2>1. Recording(x)' = Recording(x)
    BY <1>6, <1>7 DEF Recording
  <2>2. ASSUME NEW c \in Cameras, c # x PROVE Recording(c)' = Recording(c)
    BY <1>1, <1>3, <1>6, <2>2 DEF Recording
  <2> QED
    BY <2>1, <2>2
<1>9. FlagsFollow'
  BY <1>5, <1>8 DEF FlagsFollow
<1>10. ASSUME NEW c \in Cameras, c # x, ~mixed'[c] PROVE FlagsOwn(c)'
  <2>1. ~mixed[c] /\ ~AtFlags(c)
    BY <1>4, <1>10
  <2>2. /\ \A d \in Cameras \ {c} : ~open[d] /\ ~AtFlags(d)
        /\ enb.trig = Recording(c) /\ Recording(c) = open[c] /\ Ids(rec[c]) = session[c]
    BY <2>1 DEF FlagsOwn, Recording
  <2>3. ~open'[x]
    BY <1>7, <1>10, <2>2 DEF Recording
  <2>4. \A d \in Cameras \ {c} : ~open'[d] /\ ~AtFlags(d)'
    BY <1>3, <1>6, <2>2, <2>3
  <2>5. prev'.trig = open'[c] /\ enb'.trig = Recording(c)' /\ Ids(rec'[c]) = session'[c]
    BY <1>3, <1>5, <1>8, <1>10, <2>2
  <2> QED
    BY <2>4, <2>5 DEF FlagsOwn
<1>11. ASSUME ~mixed'[x] PROVE FlagsOwn(x)'
  <2>1. ~mixed[x]
    BY <1>4, <1>11
  <2>2. /\ \A d \in Cameras \ {x} : ~open[d] /\ ~AtFlags(d)
        /\ prev.trig = open[x] /\ enb.trig = Recording(x)
        /\ open[x] \/ ~AtFlags(x) => Ids(rec[x]) = session[x]
    BY <2>1 DEF FlagsOwn
  <2>3. \A d \in Cameras \ {x} : ~open'[d] /\ ~AtFlags(d)'
    BY <1>3, <1>6, <2>2
  <2>4. prev'.trig = open'[x] /\ enb'.trig = Recording(x)'
    BY <1>5, <1>7, <1>8, <2>2
  <2>5. rec[x] \in Seq(Task) /\ cur[x] \in Task
    BY <1>p
  <2>6. Ids(rec'[x]) = session'[x]
    <3>1. (prev.trig <=> open[x]) /\ (enb.trig <=> Recording(x))
      BY <2>2
    <3>2. CASE open[x]
      BY <1>2, <2>2, <2>5, <3>1, <3>2, IdsFacts DEF Recorded
    <3>3. CASE ~open[x] /\ Opens(x)
      <4>1. AtFlags(x) /\ Recording(x)
        BY <1>1, <3>3 DEF AtFlags, Recording, Opens, IsAuto, AutoCommands
      <4>2. rec'[x] = <<cur[x]>> /\ session'[x] = <<cur[x].id>>
        BY <1>2, <3>1, <3>3, <4>1 DEF Recorded
      <4> QED
        BY <2>5, <4>2, IdsFacts
    <3>4. CASE ~open[x] /\ ~Opens(x)
      <4>1. ~Recording(x)
        BY <3>4 DEF Recording, Opens
      <4>2. rec'[x] = <<>> /\ session'[x] = <<>>
        BY <1>2, <3>1, <3>4, <4>1 DEF Recorded
      <4> QED
        BY <2>5, <4>2, IdsFacts
    <3> QED
      BY <3>2, <3>3, <3>4
  <2> QED
    BY <2>3, <2>4, <2>6 DEF FlagsOwn
<1>12. ASSUME NEW c \in Cameras PROVE FlagsOwn(c)'
  <2>1. CASE mixed'[c]
    BY <2>1 DEF FlagsOwn
  <2>2. CASE ~mixed'[c] /\ c = x
    BY <1>11, <2>2
  <2>3. CASE ~mixed'[c] /\ c # x
    BY <1>10, <2>3
  <2> QED
    BY <2>1, <2>2, <2>3
<1> QED
  BY <1>9, <1>12

LEMMA RecordingInductive == ReplayInv /\ ModeInv /\ RecordingInv /\ [Next]_vars => RecordingInv'
<1> SUFFICES ASSUME ReplayInv, ModeInv, RecordingInv, [Next]_vars PROVE RecordingInv'
  OBVIOUS
<1>1. FlagTypes' /\ TakenCarries'
  BY FlagTypesInductive, TakenInductive DEF RecordingInv
<1>2. FlagsFollow' /\ (\A c \in Cameras : FlagsOwn(c))'
  <2>1. CASE Unrecorded
    BY <2>1, UnrecordedKeeps DEF RecordingInv
  <2>2. CASE \E c \in Cameras : ModeCommand(c) \/ Record(c)
    BY <2>2, ModeCommandKeeps, RecordKeeps
  <2> QED
    BY <2>1, <2>2, Unrecordeds DEF ReplayInv, RecordingInv
<1> QED
  BY <1>1, <1>2 DEF RecordingInv

(* What is recorded for a camera are the messages of its own last session, *)
(* in order and all of them, as long as no step of the other worker came   *)
(* between, although the flags that say so are shared and what happened to *)
(* them before the session began is unknown.                               *)
THEOREM RecordingsAreOwn == Spec => []RecordingIsOwn
<1>1. RecordingInv => RecordingIsOwn
  BY DEF RecordingInv, FlagsOwn, RecordingIsOwn
<1> QED
  BY <1>1, ReplayAlways, ModeAlways, RecordingInitial, RecordingInductive, PTL DEF Spec
-----------------------------------------------------------------------------
(* The reports of triggers. *)

(* A worker is at a trigger, or in the replay it began, exactly when the   *)
(* task in its hands is one.                                               *)
ForTrigger(c) ==
  pc[c] # "idle" =>
    (cur[c].kind \in TriggerCommands <=> pc[c] \in {"trigger", "trigTest", "begin"} \/ at[c] > 0)

LEMMA ForTriggerKept ==
  ASSUME NEW c \in Cameras, ForTrigger(c), UNCHANGED <<pc[c], cur[c], at[c]>>
  PROVE  ForTrigger(c)'
BY DEF ForTrigger

LEMMA OthersTasks ==
  ASSUME ReplayType, NEW c \in Cameras, NEW d \in Cameras, d # c, Worker(d)
  PROVE  UNCHANGED <<cur[c], queue[c], sent[c]>>
BY DEF Worker, Take, ModeCommand, Record, TrigAssign, TrigTest, Begin, Prepare, RunOk, RunFail,
       Convert, Answer, Set, inputVars, ReplayType

LEMMA TriggerInductive ==
  ASSUME ReplayInv, [Next]_vars, NEW c \in Cameras, ForTrigger(c)
  PROVE  ForTrigger(c)'
<1> USE DEF ReplayInv
<1>p. pc \in [Cameras -> PC] /\ cur \in [Cameras -> Task] /\ at \in [Cameras -> Nat]
  BY DEF ReplayType
<1>1. CASE Input \/ UNCHANGED vars
  BY <1>1, ForTriggerKept
     DEF Input, SubParse, FlowParse, SubEnqueue, FlowEnqueue, vars, runVars
<1>2. ASSUME NEW d \in Cameras, d # c, Worker(d) PROVE ForTrigger(c)'
  BY <1>2, OthersKeep, OthersTasks, ForTriggerKept
<1>3. CASE Take(c)
  <2>1. /\ pc[c] = "idle" /\ at' = at /\ cur'[c] = Head(queue[c])
        /\ pc'[c] = IF Head(queue[c]).kind \in TriggerCommands THEN "trigger"
                    ELSE IF IsAuto(Head(queue[c])) THEN "mode" ELSE "record"
    BY <1>3, <1>p DEF Take, Goto, Set, runVars
  <2>2. ~(at[c] > 0) /\ ~(at'[c] > 0)
    BY <2>1 DEF InReplay
  <2>3. CASE cur'[c].kind \in TriggerCommands
    <3>1. pc'[c] = "trigger"
      BY <2>1, <2>3
    <3> QED
      BY <2>3, <3>1 DEF ForTrigger
  <2>4. CASE cur'[c].kind \notin TriggerCommands
    <3>1. pc'[c] \notin {"trigger", "trigTest", "begin"}
      BY <2>1, <2>4
    <3> QED
      BY <2>2, <2>4, <3>1 DEF ForTrigger
  <2> QED
    BY <2>3, <2>4
<1>4. CASE ModeCommand(c) \/ Record(c)
  <2>1. /\ pc[c] \in {"mode", "record"} /\ pc'[c] \in {"idle", "record", "prepare"}
        /\ at' = at /\ cur' = cur
    BY <1>4, <1>p DEF ModeCommand, Record, Goto, Set, runVars
  <2>2. ~(at[c] > 0)
    BY <2>1 DEF InReplay
  <2> QED
    BY <2>1, <2>2 DEF ForTrigger
<1>5. CASE TrigAssign(c) \/ TrigTest(c)
  <2>1. /\ pc[c] \in {"trigger", "trigTest"} /\ pc'[c] \in {"idle", "trigTest", "begin"}
        /\ at' = at /\ cur' = cur
    BY <1>5, <1>p DEF TrigAssign, TrigTest, Goto, Set, runVars
  <2> QED
    BY <2>1 DEF ForTrigger
<1>6. CASE Begin(c)
  <2>1. /\ pc[c] = "begin" /\ cur' = cur
        /\ \/ pc'[c] = "idle"
           \/ pc'[c] = "prepare" /\ at'[c] = 1
    BY <1>6, <1>p DEF Begin, Goto, Set
  <2> QED
    BY <2>1 DEF ForTrigger
<1>7. CASE Prepare(c) \/ RunOk(c) \/ Convert(c)
  <2>1. /\ pc[c] \in {"prepare", "run", "convert"} /\ pc'[c] \in {"run", "convert", "answer"}
        /\ at' = at /\ cur' = cur
    BY <1>7, <1>p DEF Prepare, RunOk, Convert, Goto, Set, runVars
  <2> QED
    BY <2>1 DEF ForTrigger
<1>8. CASE RunFail(c)
  BY <1>8, <1>p DEF RunFail, Goto, Set, ForTrigger
<1>9. CASE Answer(c)
  <2>1. /\ pc[c] = "answer" /\ cur' = cur
        /\ \/ pc'[c] = "idle"
           \/ pc'[c] = "prepare" /\ at[c] > 0 /\ at'[c] > 0
    BY <1>9, <1>p DEF Answer, Replaying, Goto, Set
  <2> QED
    BY <2>1 DEF ForTrigger
<1> QED
  BY <1>1, <1>2, <1>3, <1>4, <1>5, <1>6, <1>7, <1>8, <1>9 DEF Next, Worker

LEMMA TriggerAlways == Spec => []\A c \in Cameras : ForTrigger(c)
<1>1. Init => \A c \in Cameras : ForTrigger(c)
  BY DEF Init, ForTrigger
<1>2. ReplayInv /\ (\A c \in Cameras : ForTrigger(c)) /\ [Next]_vars
        => (\A c \in Cameras : ForTrigger(c))'
  BY TriggerInductive
<1> QED
  BY <1>1, <1>2, ReplayAlways, PTL DEF Spec

(* One report, and it is the only one, when a worker is done with a        *)
(* trigger.                                                                *)
LEMMA Reported ==
  ASSUME ReplayInv, NEW c \in Cameras, ForTrigger(c), Worker(c)
  PROVE  Len(reports'[c]) - Len(reports[c]) =
           IF pc[c] # "idle" /\ pc'[c] = "idle" /\ cur[c].kind \in TriggerCommands
           THEN 1 ELSE 0
<1> USE DEF ReplayInv
<1>p. /\ pc \in [Cameras -> PC] /\ at \in [Cameras -> Nat]
      /\ reports \in [Cameras -> Seq({"Done", "Fail"})]
  BY DEF ReplayType
<1>r. /\ Len(reports[c]) \in Nat
      /\ \A v \in {"Done", "Fail"} : Len(Append(reports[c], v)) = Len(reports[c]) + 1
  BY <1>p
<1> DEFINE n  == Len(reports[c])
           n1 == Len(reports'[c])
<1>n. reports'[c] = reports[c] => n1 = n
  OBVIOUS
<1>a. \A v \in {"Done", "Fail"} : reports'[c] = Append(reports[c], v) => n1 = n + 1
  BY <1>r
<1>z. n \in Nat
  BY <1>r
<1>0. ASSUME n1 = n, ~(pc[c] # "idle" /\ pc'[c] = "idle" /\ cur[c].kind \in TriggerCommands)
      PROVE  n1 - n = IF pc[c] # "idle" /\ pc'[c] = "idle" /\ cur[c].kind \in TriggerCommands
                      THEN 1 ELSE 0
  <2>1. n1 - n = 0
    BY <1>0, <1>z
  <2> QED
    BY <1>0, <2>1
<1>5. ASSUME n1 = n + 1, pc[c] # "idle", pc'[c] = "idle", cur[c].kind \in TriggerCommands
      PROVE  n1 - n = IF pc[c] # "idle" /\ pc'[c] = "idle" /\ cur[c].kind \in TriggerCommands
                      THEN 1 ELSE 0
  <2>1. n1 - n = 1
    BY <1>5, <1>z
  <2> QED
    BY <1>5, <2>1
<1>1. CASE Take(c) \/ ModeCommand(c) \/ TrigAssign(c) \/ Prepare(c) \/ RunOk(c) \/ Convert(c)
  <2>1. reports' = reports /\ pc'[c] # "idle"
    BY <1>1, <1>p
       DEF Take, ModeCommand, TrigAssign, Prepare, RunOk, Convert, Goto, Set, runVars
  <2> QED
    BY <1>0, <1>n, <2>1
<1>2. CASE Record(c)
  <2>1. reports' = reports /\ pc[c] = "record"
    BY <1>2 DEF Record, runVars
  <2>2. ~(at[c] > 0)
    BY <2>1 DEF InReplay
  <2>3. cur[c].kind \notin TriggerCommands
    BY <2>1, <2>2 DEF ForTrigger
  <2> QED
    BY <1>0, <1>n, <2>1, <2>3
<1>3. CASE TrigTest(c) \/ Begin(c)
  <2>1. cur[c].kind \in TriggerCommands /\ pc[c] # "idle"
    BY <1>3 DEF ForTrigger, TrigTest, Begin
  <2>2. \/ pc'[c] = "idle" /\ reports'[c] = Append(reports[c], "Fail")
        \/ pc'[c] # "idle" /\ reports'[c] = reports[c]
    BY <1>3, <1>p DEF TrigTest, Begin, Goto, Set, Report, Push
  <2> QED
    BY <1>0, <1>5, <1>n, <1>a, <2>1, <2>2
<1>4. CASE RunFail(c) \/ Answer(c)
  <2>1. pc[c] \in {"run", "answer"}
    BY <1>4 DEF RunFail, Answer
  <2>2. cur[c].kind \in TriggerCommands <=> at[c] > 0
    BY <2>1 DEF ForTrigger
  <2>3. CASE at[c] > 0
    <3>1. \/ pc'[c] = "idle" /\ reports'[c] = Append(reports[c], "Fail")
          \/ pc'[c] = "idle" /\ reports'[c] = Append(reports[c], "Done")
          \/ pc'[c] # "idle" /\ reports'[c] = reports[c]
      BY <1>4, <1>p, <2>3 DEF RunFail, Answer, Replaying, Goto, Set, Report, Push
    <3> QED
      BY <1>0, <1>5, <1>n, <1>a, <2>1, <2>2, <2>3, <3>1
  <2>4. CASE ~(at[c] > 0)
    <3>1. reports'[c] = reports[c]
      BY <1>4, <1>p, <2>4 DEF RunFail, Answer, Replaying, Goto, Set, Report, Push
    <3> QED
      BY <1>0, <1>n, <2>2, <2>4, <3>1
  <2> QED
    BY <2>3, <2>4
<1> QED
  BY <1>1, <1>2, <1>3, <1>4 DEF Worker

(* A worker reports exactly once for a trigger, when it is done with it,   *)
(* whether it is switched off, finds nothing recorded, fails or replays to *)
(* the end; and it reports nothing else.                                   *)
THEOREM TriggersReportedOnce == Spec => OneReportEach
<1>1. ReplayInv /\ (\A c \in Cameras : ForTrigger(c)) /\ [Next]_vars =>
        [\A c \in Cameras :
           Len(reports'[c]) - Len(reports[c]) =
             IF pc[c] # "idle" /\ pc'[c] = "idle" /\ cur[c].kind \in TriggerCommands
             THEN 1 ELSE 0]_vars
  <2> SUFFICES ASSUME ReplayInv, \A c \in Cameras : ForTrigger(c), Next, NEW c \in Cameras
               PROVE  Len(reports'[c]) - Len(reports[c]) =
                        IF pc[c] # "idle" /\ pc'[c] = "idle" /\ cur[c].kind \in TriggerCommands
                        THEN 1 ELSE 0
    OBVIOUS
  <2>1. CASE Worker(c)
    BY <2>1, Reported
  <2>2. CASE ~Worker(c)
    <3>1. reports'[c] = reports[c] /\ pc'[c] = pc[c]
      BY <2>2, OthersKeep
         DEF Next, Input, SubParse, FlowParse, SubEnqueue, FlowEnqueue, runVars, ReplayInv
    <3>2. Len(reports[c]) \in Nat
      BY DEF ReplayInv, ReplayType
    <3> QED
      BY <3>1, <3>2
  <2> QED
    BY <2>1, <2>2
<1> QED
  BY <1>1, ReplayAlways, TriggerAlways, PTL DEF Spec, OneReportEach
-----------------------------------------------------------------------------
(* The data of a replay, for a camera that is used alone. *)

(* What a camera is told before the backend has sent it anything are       *)
(* triggers of the inspection flow.                                        *)
FlowOnly(c) ==
  sent[c] = 0 =>
    /\ \A i \in DOMAIN queue[c] : queue[c][i].kind \in TriggerCommands
    /\ pc[c] # "idle" => cur[c].kind \in TriggerCommands

Outcome == [kind : {"capture", "measure"}, data : Result, quotes : Id]

DataType ==
  /\ img \in [Cameras -> Stamp] /\ table \in [Cameras -> Stamp] /\ arg \in [Cameras -> Stamp]
  /\ result \in [Algos -> Result] /\ argText \in [Commands -> Id]
  /\ nRun \in [Cameras -> Nat] /\ out \in [Cameras -> Seq(Outcome)]

MissedType == missed \in [Cameras -> BOOLEAN]

(* This replay's stamp, a mark and data that are its own as far as its     *)
(* matches have found their marks, and the step it is at.                  *)
Own(c) == <<c, nRun[c]>>
OwnMark(c, m) == missed[c] \/ m = Own(c)
OwnData(c, d) == d.img = Own(c) /\ OwnMark(c, d.mark)
Kind(c) == rec[c][at[c]].kind

(* The image is this replay's once it has captured one, the mark in the    *)
(* table once it has matched, and so are a method's argument and result.   *)
FreshAt(c) ==
  LET s == rec[c]
      a == at[c]
      seen == Shot(s, a - 1)
      found == Matched(s, a - 1)
  IN
  /\ pc[c] \in {"prepare", "run"} /\ seen /\ (pc[c] = "run" => Kind(c) # "capture")
       => img[c] = Own(c)
  /\ pc[c] \in {"convert", "answer"} /\ Shot(s, a) => img[c] = Own(c)
  /\ pc[c] = "prepare" /\ found => OwnMark(c, table[c])
  /\ pc[c] \in {"run", "convert"} /\ found /\ Kind(c) \notin AutoCommands
       => OwnMark(c, table[c])
  /\ pc[c] = "answer" /\ Matched(s, a) => OwnMark(c, table[c])
  /\ pc[c] = "run" /\ found /\ Kind(c) = "measure" => OwnMark(c, arg[c])
  /\ pc[c] = "convert" /\ seen /\ Kind(c) = "match" => OwnMark(c, result["match"].img)
  /\ pc[c] \in {"convert", "answer"} /\ found /\ Kind(c) = "measure"
       => OwnData(c, result["measure"])

(* The first n steps of the recording have been published, from fresh data *)
(* if the recording makes any.                                             *)
Told(c, n) ==
  LET steps == Shown(rec[c], n) IN
  /\ Len(out[c]) = Cardinality(steps)
  /\ \A i \in steps : out[c][Cardinality(Shown(rec[c], i))].kind = rec[c][i].kind
  /\ Measurable(rec[c]) => FreshData(c)

MeasuredInv(c) ==
  Alone(c) =>
    /\ pc[c] = "begin" => enb.act
    /\ at[c] > 0 => enb.act /\ FreshAt(c) /\ Told(c, at[c] - 1)
-----------------------------------------------------------------------------
(* The predicates on the first steps of a recording, one step on. *)

LEMMA NothingYet ==
  ASSUME NEW s
  PROVE  ~Shot(s, 0) /\ ~Matched(s, 0) /\ Shown(s, 0) = {}
BY DEF Shot, Matched, Shown

LEMMA ShotStep ==
  ASSUME NEW s, NEW n \in Nat \ {0}
  PROVE  Shot(s, n) <=> Shot(s, n - 1) \/ s[n].kind = "capture"
<1>1. \A h : h \in 1 .. n <=> h \in 1 .. n - 1 \/ h = n
  OBVIOUS
<1> QED
  BY <1>1 DEF Shot

LEMMA MatchedStep ==
  ASSUME NEW s, NEW n \in Nat \ {0}
  PROVE  /\ Matched(s, n) <=> \/ s[n].kind = "match" /\ Shot(s, n - 1)
                              \/ ~IsAuto(s[n]) /\ Matched(s, n - 1)
         /\ Matched(s, n) => Shot(s, n)
<1>1. \A i : i \in 1 .. n <=> i \in 1 .. n - 1 \/ i = n
  OBVIOUS
<1>2. \A i \in 1 .. n - 1 : \A m : m \in i + 1 .. n <=> m \in i + 1 .. n - 1 \/ m = n
  OBVIOUS
<1>3. n + 1 .. n = {}
  OBVIOUS
<1>4. ASSUME Matched(s, n)
      PROVE  /\ \/ s[n].kind = "match" /\ Shot(s, n - 1)
                \/ ~IsAuto(s[n]) /\ Matched(s, n - 1)
             /\ Shot(s, n)
  <2>1. PICK i \in 1 .. n : /\ s[i].kind = "match" /\ Shot(s, i - 1)
                            /\ \A m \in i + 1 .. n : ~IsAuto(s[m])
    BY <1>4 DEF Matched
  <2>2. Shot(s, n)
    BY <2>1 DEF Shot
  <2>3. CASE i = n
    BY <2>1, <2>2, <2>3
  <2>4. CASE i # n
    <3>1. i \in 1 .. n - 1 /\ n \in i + 1 .. n /\ \A m \in i + 1 .. n - 1 : m \in i + 1 .. n
      BY <2>4
    <3>2. Matched(s, n - 1)
      BY <2>1, <3>1 DEF Matched
    <3> QED
      BY <2>1, <2>2, <3>1, <3>2
  <2> QED
    BY <2>3, <2>4
<1>5. ASSUME s[n].kind = "match", Shot(s, n - 1)
      PROVE  Matched(s, n)
  BY <1>1, <1>3, <1>5 DEF Matched
<1>6. ASSUME ~IsAuto(s[n]), Matched(s, n - 1)
      PROVE  Matched(s, n)
  <2>1. PICK i \in 1 .. n - 1 : /\ s[i].kind = "match" /\ Shot(s, i - 1)
                                /\ \A m \in i + 1 .. n - 1 : ~IsAuto(s[m])
    BY <1>6 DEF Matched
  <2>2. i \in 1 .. n /\ \A m \in i + 1 .. n : ~IsAuto(s[m])
    BY <1>2, <1>6, <2>1
  <2> QED
    BY <2>1, <2>2 DEF Matched
<1> QED
  BY <1>4, <1>5, <1>6

LEMMA ShownStep ==
  ASSUME NEW s, NEW n \in Nat \ {0}
  PROVE  /\ IsFiniteSet(Shown(s, n)) /\ Cardinality(Shown(s, n - 1)) \in Nat
         /\ \A i \in Shown(s, n) : i \in Shown(s, n - 1) \/ i = n
         /\ s[n].kind \notin {"capture", "measure"} => Shown(s, n) = Shown(s, n - 1)
         /\ s[n].kind \in {"capture", "measure"} =>
              Cardinality(Shown(s, n)) = Cardinality(Shown(s, n - 1)) + 1
<1>1. \A i : i \in 1 .. n <=> i \in 1 .. n - 1 \/ i = n
  OBVIOUS
<1>2. IsFiniteSet(1 .. n) /\ IsFiniteSet(1 .. n - 1)
  BY FS_Interval
<1>3. IsFiniteSet(Shown(s, n)) /\ IsFiniteSet(Shown(s, n - 1))
  BY <1>2, FS_Subset DEF Shown
<1>4. n \notin Shown(s, n - 1)
  BY DEF Shown
<1>5. s[n].kind \in {"capture", "measure"} => Shown(s, n) = Shown(s, n - 1) \cup {n}
  BY <1>1 DEF Shown
<1>6. s[n].kind \notin {"capture", "measure"} => Shown(s, n) = Shown(s, n - 1)
  BY <1>1 DEF Shown
<1>7. Cardinality(Shown(s, n - 1)) \in Nat
  BY <1>3, FS_CardinalityType
<1>8. s[n].kind \in {"capture", "measure"} =>
        Cardinality(Shown(s, n)) = Cardinality(Shown(s, n - 1)) + 1
  BY <1>3, <1>4, <1>5, FS_AddElement
<1>9. \A i \in Shown(s, n) : i \in Shown(s, n - 1) \/ i = n
  BY <1>1 DEF Shown
<1> QED
  BY <1>3, <1>6, <1>7, <1>8, <1>9
-----------------------------------------------------------------------------
(* A camera whose triggers are never reported has had none. *)

LEMMA FlowOnlyInductive ==
  ASSUME ReplayInv, [Next]_vars, NEW c \in Cameras, FlowOnly(c)
  PROVE  FlowOnly(c)'
<1> USE DEF ReplayInv
<1>p. /\ pc \in [Cameras -> PC] /\ cur \in [Cameras -> Task] /\ queue \in [Cameras -> Seq(Task)]
      /\ sent \in [Cameras -> Nat] /\ NoCam \notin Cameras
  BY CameraNumbers DEF ReplayType
<1>1. CASE UNCHANGED <<sent[c], queue[c], pc[c], cur[c]>>
  BY <1>1 DEF FlowOnly
<1>2. CASE SubEnqueue \/ FlowEnqueue
  <2>1. /\ pc' = pc /\ cur' = cur
        /\ \/ queue'[c] = queue[c] /\ sent'[c] = sent[c]
           \/ sent'[c] # 0
           \/ sent'[c] = sent[c] /\ \E t : t.kind = "trigger" /\ queue'[c] = Append(queue[c], t)
    <3>1. CASE SubEnqueue
      <4>1. pc' = pc /\ cur' = cur /\ queue' = [queue EXCEPT ![subCam] = queue'[subCam]]
            /\ sent' = [sent EXCEPT ![subCam] = sent[subCam] + 1] /\ subCam \in Cameras
        BY <1>p, <3>1 DEF SubEnqueue, Enqueue, Push, Set, runVars, ReplayType
      <4>2. CASE subCam = c
        BY <1>p, <4>1, <4>2
      <4>3. CASE subCam # c
        BY <1>p, <4>1, <4>3
      <4> QED
        BY <4>2, <4>3
    <3>2. CASE FlowEnqueue
      <4> DEFINE t == [kind |-> "trigger", id |-> Nothing(flowCam),
                       mode |-> [Off EXCEPT !.act = trigFlag]]
      <4>1. pc' = pc /\ cur' = cur /\ sent' = sent
            /\ queue' = [queue EXCEPT ![flowCam] = Append(@, t)] /\ flowCam \in Cameras
        BY <1>p, <3>2 DEF FlowEnqueue, Enqueue, Push, runVars, ReplayType
      <4>2. t.kind = "trigger"
        OBVIOUS
      <4> HIDE DEF t
      <4>3. CASE flowCam = c
        <5>1. queue'[c] = Append(queue[c], t)
          BY <1>p, <4>1, <4>3
        <5> QED
          BY <4>1, <4>2, <5>1
      <4>4. CASE flowCam # c
        BY <1>p, <4>1, <4>4
      <4> QED
        BY <4>3, <4>4
    <3> QED
      BY <1>2, <3>1, <3>2
  <2>2. CASE sent'[c] # 0
    BY <2>2 DEF FlowOnly
  <2>3. CASE queue'[c] = queue[c] /\ sent'[c] = sent[c]
    BY <2>1, <2>3 DEF FlowOnly
  <2>4. ASSUME NEW t, t.kind = "trigger", queue'[c] = Append(queue[c], t), sent'[c] = sent[c]
        PROVE  FlowOnly(c)'
    <3>1. \A i \in DOMAIN queue'[c] : \/ i \in DOMAIN queue[c] /\ queue'[c][i] = queue[c][i]
                                      \/ queue'[c][i] = t
      BY <1>p, <2>4
    <3> QED
      BY <2>1, <2>4, <3>1 DEF FlowOnly, TriggerCommands
  <2> QED
    BY <2>1, <2>2, <2>3, <2>4
<1>3. CASE \E d \in Cameras : SubParse(d) \/ FlowParse(d)
  BY <1>1, <1>3 DEF SubParse, FlowParse, runVars
<1>4. ASSUME NEW d \in Cameras, d # c, Worker(d) PROVE FlowOnly(c)'
  BY <1>1, <1>4, OthersKeep, OthersTasks
<1>5. CASE Take(c)
  <2>1. /\ sent' = sent /\ cur'[c] = Head(queue[c]) /\ queue'[c] = Tail(queue[c])
        /\ queue[c] # <<>>
    BY <1>5, <1>p DEF Take, Set, inputVars
  <2>2. 1 \in DOMAIN queue[c] /\ cur'[c] = queue[c][1]
    BY <2>1, <1>p
  <2>3. \A i \in DOMAIN queue'[c] : i + 1 \in DOMAIN queue[c] /\ queue'[c][i] = queue[c][i + 1]
    BY <2>1, <1>p
  <2> QED
    BY <2>1, <2>2, <2>3 DEF FlowOnly
<1>6. CASE Worker(c) /\ ~Take(c)
  <2>1. sent' = sent /\ queue' = queue /\ cur' = cur /\ pc[c] # "idle"
    BY <1>6 DEF Worker, ModeCommand, Record, TrigAssign, TrigTest, Begin, Prepare, RunOk, RunFail,
                Convert, Answer, inputVars, runVars
  <2> QED
    BY <2>1 DEF FlowOnly
<1>7. CASE UNCHANGED vars
  BY <1>1, <1>7 DEF vars, inputVars
<1> QED
  BY <1>2, <1>3, <1>4, <1>5, <1>6, <1>7 DEF Next, Input

(* Who is alone after a step was alone before it, and only its own worker  *)
(* may have taken the step.                                                *)
LEMMA AloneBefore ==
  ASSUME ReplayInv, \A d \in Cameras : ForTrigger(d) /\ FlowOnly(d), [Next]_vars,
         NEW c \in Cameras, Alone(c)'
  PROVE  Alone(c) /\ (Worker(c) \/ Input \/ UNCHANGED vars)
<1> USE DEF ReplayInv
<1>p. /\ queue \in [Cameras -> Seq(Task)] /\ sent \in [Cameras -> Nat]
      /\ reports \in [Cameras -> Seq({"Done", "Fail"})] /\ NoCam \notin Cameras
  BY CameraNumbers DEF ReplayType
<1>1. ASSUME NEW d \in Cameras, Worker(d) PROVE ~Unused(d)'
  <2>1. CASE pc'[d] # "idle"
    BY <2>1 DEF Unused
  <2>2. CASE pc'[d] = "idle" /\ sent'[d] = 0
    <3>1. pc[d] # "idle" /\ sent' = sent
      <4>1. ~Take(d)
        BY <2>2 DEF Take, Goto, Set, ReplayType
      <4> QED
        BY <1>1, <4>1
           DEF Worker, ModeCommand, Record, TrigAssign, TrigTest, Begin, Prepare, RunOk, RunFail,
               Convert, Answer, inputVars
    <3>2. cur[d].kind \in TriggerCommands
      BY <2>2, <3>1 DEF FlowOnly
    <3>3. Len(reports'[d]) - Len(reports[d]) = 1
      BY <1>1, <2>2, <3>1, <3>2, Reported
    <3>4. Len(reports[d]) \in Nat
      BY <1>p
    <3>5. Len(<<>>) = 0
      OBVIOUS
    <3> QED
      BY <3>3, <3>4, <3>5 DEF Unused
  <2> QED
    BY <2>1, <2>2 DEF Unused
<1>2. ASSUME NEW d \in Cameras, d # c, Unused(d)' PROVE Unused(d)
  <2>1. CASE Input \/ UNCHANGED vars
    <3>1. pc'[d] = pc[d] /\ reports'[d] = reports[d]
      BY <2>1 DEF Input, SubParse, FlowParse, SubEnqueue, FlowEnqueue, runVars, vars
    <3>2. \/ sent'[d] = sent[d] /\ queue'[d] = queue[d]
          \/ sent'[d] # 0
          \/ queue'[d] # <<>>
      <4>1. CASE SubEnqueue
        BY <4>1, <1>p DEF SubEnqueue, Enqueue, Set, Push, ReplayType
      <4>2. CASE FlowEnqueue
        <5> DEFINE t == [kind |-> "trigger", id |-> Nothing(flowCam),
                         mode |-> [Off EXCEPT !.act = trigFlag]]
        <5>1. /\ flowCam \in Cameras /\ sent' = sent
              /\ queue' = [queue EXCEPT ![flowCam] = Append(@, t)]
          BY <4>2, <1>p DEF FlowEnqueue, Enqueue, Push, ReplayType
        <5>2. t \in Task
          BY <5>1, TaskTypes, CameraNumbers
             DEF ReplayType, Off, Mode, Nothing, Commands, TriggerCommands
        <5> HIDE DEF t
        <5>3. CASE flowCam = d
          <6>1. Len(queue'[d]) = Len(queue[d]) + 1
            BY <1>p, <5>1, <5>2, <5>3
          <6>2. Len(queue[d]) \in Nat /\ Len(<<>>) = 0
            BY <1>p
          <6> QED
            BY <6>1, <6>2
        <5>4. CASE flowCam # d
          BY <1>p, <5>1, <5>4
        <5> QED
          BY <5>3, <5>4
      <4> QED
        BY <2>1, <4>1, <4>2 DEF Input, SubParse, FlowParse, vars, inputVars
    <3> QED
      BY <1>2, <3>1, <3>2 DEF Unused
  <2>2. ASSUME NEW e \in Cameras, Worker(e) PROVE Unused(d)
    <3>1. e # d
      BY <1>1, <1>2, <2>2
    <3> QED
      BY <1>2, <2>2, <3>1, OthersKeep, OthersTasks DEF Unused
  <2> QED
    BY <2>1, <2>2 DEF Next
<1>3. \A d \in Cameras \ {c} : Unused(d)'
  BY DEF Alone
<1>4. Worker(c) \/ Input \/ UNCHANGED vars
  BY <1>1, <1>3 DEF Next
<1> QED
  BY <1>2, <1>3, <1>4 DEF Alone
-----------------------------------------------------------------------------
(* The types of the data. *)

LEMMA SetType ==
  ASSUME NEW D, NEW S, NEW f \in [D -> S], NEW x \in D, NEW v \in S
  PROVE  /\ Set(f, x, v) \in [D -> S] /\ Set(f, x, v)[x] = v
         /\ \A y \in D : y # x => Set(f, x, v)[y] = f[y]
BY DEF Set

(* The step a worker is at is a command, and so is the one it took.        *)
LEMMA StepTask ==
  ASSUME ReplayInv, NEW c \in Cameras
  PROVE  /\ Step(c) \in Task
         /\ at[c] > 0 => Step(c) = rec[c][at[c]] /\ Step(c).kind = Kind(c)
<1>1. at[c] > 0 => at[c] \in 1 .. Len(rec[c])
  BY DEF ReplayInv, ReplayType, InReplay
<1> QED
  BY <1>1 DEF ReplayInv, ReplayType, Step, Replaying, Kind

LEMMA StampTypes ==
  ASSUME NEW c \in Cameras, NEW n \in Nat
  PROVE  <<c, n>> \in Stamp /\ Nothing(c) \in Stamp
BY DEF Stamp, Nothing

LEMMA DataInitial == Init => DataType
<1> SUFFICES ASSUME Init PROVE DataType
  OBVIOUS
<1>1. PICK c0 : c0 = CHOOSE c \in Cameras : TRUE
  OBVIOUS
<1>2. c0 \in Cameras
  BY <1>1, CamerasAssumption
<1>3. Nothing(c0) \in Stamp /\ Nothing(c0) \in Id /\ \A c \in Cameras : Nothing(c) \in Stamp
  BY <1>2 DEF Stamp, Nothing, Id
<1>4. img \in [Cameras -> Stamp] /\ table \in [Cameras -> Stamp] /\ arg \in [Cameras -> Stamp]
  BY <1>3 DEF Init
<1>5. result \in [Algos -> Result]
  BY <1>1, <1>3 DEF Init, Result
<1>6. argText \in [Commands -> Id]
  BY <1>1, <1>3 DEF Init
<1>7. nRun \in [Cameras -> Nat]
  BY DEF Init
<1>8. out \in [Cameras -> Seq(Outcome)]
  BY EmptyType DEF Init
<1> QED
  BY <1>4, <1>5, <1>6, <1>7, <1>8 DEF DataType

LEMMA MissedInductive ==
  ASSUME MissedType, [Next]_vars
  PROVE  MissedType'
<1>1. CASE missed' = missed
  BY <1>1 DEF MissedType
<1>2. ASSUME NEW c \in Cameras, Begin(c) \/ RunOk(c) PROVE MissedType'
  <2>1. missed' = missed \/ \E b \in BOOLEAN : missed' = [missed EXCEPT ![c] = b]
    BY <1>2 DEF Begin, RunOk, Set
  <2> QED
    BY <2>1 DEF MissedType
<1> QED
  BY <1>1, <1>2 DEF Next, Input, SubParse, FlowParse, SubEnqueue, FlowEnqueue, Worker, Take,
       ModeCommand, Record, TrigAssign, TrigTest, Prepare, RunFail, Convert, Answer, ownVars, vars

LEMMA DataInductive ==
  ASSUME ReplayInv, DataType, [Next]_vars
  PROVE  DataType'
<1> USE DEF ReplayInv
<1>d. /\ img \in [Cameras -> Stamp] /\ table \in [Cameras -> Stamp] /\ arg \in [Cameras -> Stamp]
      /\ result \in [Algos -> Result] /\ argText \in [Commands -> Id]
      /\ nRun \in [Cameras -> Nat] /\ out \in [Cameras -> Seq(Outcome)]
  BY DEF DataType
<1>1. CASE UNCHANGED <<img, table, arg, result, argText, nRun, out>>
  BY <1>1 DEF DataType
<1>2. CASE SubEnqueue \/ FlowEnqueue
  <2>1. PICK d, k, id, m : d \in Cameras /\ k \in Commands /\ id \in Id /\ Enqueue(d, k, id, m)
    <3>1. CASE SubEnqueue
      <4>1. subCam \in Cameras /\ script[subCam] \in Seq(Commands)
            /\ sent[subCam] \in Nat /\ sent[subCam] < Len(script[subCam])
        BY <3>1 DEF SubEnqueue, ReplayType
      <4>2. sent[subCam] + 1 \in 1 .. Len(script[subCam])
        BY <4>1
      <4>3. NextCommand(subCam) \in Commands /\ <<subCam, sent[subCam] + 1>> \in Id
        BY <4>1, <4>2 DEF NextCommand, Id
      <4> QED
        BY <3>1, <4>1, <4>3 DEF SubEnqueue
    <3>2. CASE FlowEnqueue
      <4>1. flowCam \in Cameras
        BY <3>2 DEF FlowEnqueue, ReplayType
      <4>2. Nothing(flowCam) \in Id /\ "trigger" \in Commands
        BY <4>1 DEF Nothing, Id, Commands, TriggerCommands
      <4> QED
        BY <3>2, <4>1, <4>2 DEF FlowEnqueue
    <3> QED
      BY <1>2, <3>1, <3>2
  <2>2. argText' \in [Commands -> Id]
    BY <1>d, <2>1, SetType DEF Enqueue
  <2>3. UNCHANGED <<img, table, arg, result, nRun, out>>
    BY <1>2 DEF SubEnqueue, FlowEnqueue, runVars
  <2> QED
    BY <1>d, <2>2, <2>3 DEF DataType
<1>3. CASE Input /\ ~SubEnqueue /\ ~FlowEnqueue
  BY <1>1, <1>3 DEF Input, SubParse, FlowParse, runVars
<1>4. ASSUME NEW c \in Cameras, Worker(c) PROVE DataType'
  <2>0. Nothing(c) \in Stamp
    BY StampTypes
  <2>1. CASE Take(c) \/ Record(c) \/ TrigAssign(c) \/ TrigTest(c) \/ RunFail(c)
    BY <1>1, <2>1 DEF Take, Record, TrigAssign, TrigTest, RunFail, inputVars, runVars
  <2>2. CASE ModeCommand(c)
    <3>1. table' \in [Cameras -> Stamp]
      BY <1>d, <2>0, <2>2, SetType DEF ModeCommand
    <3> QED
      BY <1>d, <2>2, <3>1 DEF ModeCommand, DataType, inputVars, runVars
  <2>3. CASE Begin(c)
    <3>1. nRun' \in [Cameras -> Nat]
      <4>1. nRun' = nRun \/ nRun' = Set(nRun, c, nRun[c] + 1)
        BY <2>3 DEF Begin
      <4>2. nRun[c] + 1 \in Nat
        BY <1>d
      <4> QED
        BY <1>d, <4>1, <4>2 DEF Set
    <3>2. out' \in [Cameras -> Seq(Outcome)]
      BY <1>d, <2>3, EmptyType DEF Begin, Set
    <3> QED
      BY <1>d, <2>3, <3>1, <3>2 DEF Begin, DataType, inputVars
  <2>4. CASE Prepare(c)
    <3>1. PICK t \in Stamp : /\ table' = Set(table, c, t)
                             /\ arg' \in {Set(arg, c, t), Set(arg, c, Nothing(c))}
      BY <1>d, <2>0, <2>4 DEF Prepare
    <3>2. table' \in [Cameras -> Stamp] /\ arg' \in [Cameras -> Stamp]
      BY <1>d, <2>0, <3>1 DEF Set
    <3>3. img' \in [Cameras -> Stamp]
      BY <1>d, <2>0, <2>4, SetType DEF Prepare
    <3> QED
      BY <1>d, <2>4, <3>2, <3>3 DEF Prepare, DataType, inputVars
  <2>5. CASE RunOk(c)
    <3>1. PICK i \in Stamp : /\ img' \in {img, Set(img, c, i)}
                             /\ \/ result' = result
                                \/ \E k \in Algos :
                                     result' = Set(result, k, [img |-> i, mark |-> arg[c]])
      <4>1. <<c, nRun[c]>> \in Stamp /\ img[c] \in Stamp
        BY <1>d, StampTypes
      <4> QED
        BY <2>0, <2>5, <4>1 DEF RunOk
    <3>2. [img |-> i, mark |-> arg[c]] \in Result
      BY <1>d DEF Result
    <3>3. result' \in [Algos -> Result]
      BY <1>d, <3>1, <3>2 DEF Set
    <3>4. img' \in [Cameras -> Stamp]
      BY <1>d, <3>1 DEF Set
    <3> QED
      BY <1>d, <2>5, <3>3, <3>4 DEF RunOk, DataType, inputVars
  <2>6. CASE Convert(c)
    <3>1. result["match"].img \in Stamp
      BY <1>d DEF Result, Algos
    <3>2. table' \in [Cameras -> Stamp]
      BY <1>d, <2>6, <3>1 DEF Convert, Set
    <3> QED
      BY <1>d, <2>6, <3>2 DEF Convert, DataType, inputVars, runVars
  <2>7. CASE Answer(c)
    <3>1. Step(c).kind \in Commands
      BY StepTask DEF Task
    <3>2. Publishes(c) => Message(c) \in Outcome
      <4> SUFFICES ASSUME Publishes(c) PROVE Message(c) \in Outcome
        OBVIOUS
      <4>1. Step(c).kind \in {"capture", "measure"}
        BY DEF Publishes
      <4>2. result[Step(c).kind] \in Result
        BY <1>d, <4>1 DEF Algos
      <4>3. \A k \in Commands : argText[k] \in Id
        BY <1>d
      <4>4. "trigger" \in Commands
        BY DEF Commands, TriggerCommands
      <4> QED
        BY <3>1, <4>1, <4>2, <4>3, <4>4 DEF Message, Outcome
    <3>3. out' \in [Cameras -> Seq(Outcome)]
      BY <1>d, <2>7, <3>2, PushType DEF Answer
    <3> QED
      BY <1>d, <2>7, <3>3 DEF Answer, DataType, inputVars
  <2> QED
    BY <1>4, <2>1, <2>2, <2>3, <2>4, <2>5, <2>6, <2>7 DEF Worker
<1>5. CASE UNCHANGED vars
  BY <1>1, <1>5 DEF vars, inputVars, runVars
<1> QED
  BY <1>2, <1>3, <1>4, <1>5 DEF Next
-----------------------------------------------------------------------------
(* A step of its worker keeps a lonely camera's data fresh. *)

ReplayData(c) ==
  <<enb, rec[c], at[c], pc[c], img[c], table[c], arg[c], result, nRun[c], out[c], missed[c]>>

LEMMA MeasuredKept ==
  ASSUME NEW c \in Cameras, MeasuredInv(c), Alone(c), UNCHANGED ReplayData(c)
  PROVE  MeasuredInv(c)'
BY DEF MeasuredInv, ReplayData, FreshAt, Told, FreshData, Kind, Own, OwnMark, OwnData

(* Nothing of what has been told changes while nothing is published. *)
LEMMA ToldKept ==
  ASSUME NEW c \in Cameras, NEW n, Told(c, n), UNCHANGED <<rec[c], nRun[c], out[c]>>,
         missed[c] => missed'[c]
  PROVE  Told(c, n)'
BY DEF Told, FreshData

LEMMA ShownIndex ==
  ASSUME NEW s, NEW n \in Nat, NEW i \in Shown(s, n)
  PROVE  Cardinality(Shown(s, i)) \in 1 .. Cardinality(Shown(s, n))
<1>1. i \in 1 .. n /\ i \in Shown(s, i)
  BY DEF Shown
<1>2. IsFiniteSet(Shown(s, n)) /\ IsFiniteSet(Shown(s, i))
  <2>1. IsFiniteSet(1 .. n) /\ IsFiniteSet(1 .. i)
    BY <1>1, FS_Interval
  <2> QED
    BY <2>1, FS_Subset DEF Shown
<1>3. Shown(s, i) \subseteq Shown(s, n)
  BY <1>1 DEF Shown
<1>4. /\ Cardinality(Shown(s, i)) \in Nat /\ Cardinality(Shown(s, n)) \in Nat
      /\ Cardinality(Shown(s, i)) <= Cardinality(Shown(s, n))
  BY <1>2, <1>3, FS_Subset, FS_CardinalityType
<1>5. Cardinality(Shown(s, i)) # 0
  BY <1>1, <1>2, FS_EmptySet
<1> QED
  BY <1>4, <1>5

(* An answer publishes the step it is at, from fresh data.                 *)
LEMMA ToldGrows ==
  ASSUME ReplayInv, DataType, NEW c \in Cameras, NEW a \in Nat \ {0}, a = at[c], Answer(c),
         enb.act, FreshAt(c), Told(c, a - 1)
  PROVE  Told(c, a)'
<1> DEFINE s == rec[c]
           old == Shown(s, a - 1)
           new == Shown(s, a)
           outcome == Message(c)
<1>1. /\ pc[c] = "answer" /\ a \in 1 .. Len(s) /\ s \in Seq(Task)
      /\ rec' = rec /\ nRun' = nRun /\ missed' = missed /\ Step(c) = s[a]
  BY StepTask DEF Answer, ReplayInv, ReplayType, InReplay, ownVars
<1>2. /\ out[c] \in Seq(Outcome)
      /\ s[a].kind \in {"capture", "measure"} => out'[c] = Append(out[c], outcome)
      /\ s[a].kind \notin {"capture", "measure"} => out'[c] = out[c]
  <2>1. out \in [Cameras -> Seq(Outcome)]
    BY DEF DataType
  <2>2. out' = IF s[a].kind \in {"capture", "measure"} THEN Push(out, c, outcome) ELSE out
    BY <1>1 DEF Answer, Publishes, Replaying
  <2> HIDE DEF outcome
  <2> QED
    BY <2>1, <2>2 DEF Push
<1>3. /\ Len(out[c]) = Cardinality(old)
      /\ \A i \in old : out[c][Cardinality(Shown(s, i))].kind = s[i].kind
      /\ Measurable(s) => FreshData(c)
  BY DEF Told
<1>4. /\ Cardinality(old) \in Nat
      /\ \A i \in new : i \in old \/ i = a
      /\ s[a].kind \notin {"capture", "measure"} => new = old
      /\ s[a].kind \in {"capture", "measure"} => Cardinality(new) = Cardinality(old) + 1
  BY ShownStep
<1>5. CASE s[a].kind \notin {"capture", "measure"}
  <2>1. out'[c] = out[c] /\ new = old
    BY <1>2, <1>4, <1>5
  <2>2. Measurable(s) => FreshData(c)'
    BY <1>1, <1>3, <2>1 DEF FreshData
  <2> QED
    BY <1>1, <1>3, <2>1, <2>2 DEF Told
<1>6. CASE s[a].kind \in {"capture", "measure"}
  <2>1. out'[c] = Append(out[c], outcome) /\ Cardinality(new) = Cardinality(old) + 1
    BY <1>2, <1>4, <1>6
  <2>2. outcome.kind = s[a].kind /\ outcome.data = result[s[a].kind] /\ outcome \in Outcome
    <3>1. outcome.kind = s[a].kind /\ outcome.data = result[s[a].kind]
      BY <1>1 DEF Message
    <3>2. /\ result[s[a].kind] \in Result
          /\ \A k \in Commands : argText[k] \in Id
      BY <1>6 DEF DataType, Algos
    <3>3. "trigger" \in Commands /\ s[a].kind \in Commands
      BY <1>6 DEF Commands, TriggerCommands, Algos
    <3>4. outcome.quotes \in Id
      BY <1>1, <3>2, <3>3 DEF Message
    <3>5. outcome = [kind |-> s[a].kind, data |-> result[s[a].kind], quotes |-> outcome.quotes]
      BY <1>1 DEF Message
    <3> HIDE DEF outcome
    <3> QED
      BY <1>6, <3>1, <3>2, <3>4, <3>5 DEF Outcome
  <2> HIDE DEF outcome
  <2>3. /\ Len(out'[c]) = Cardinality(new) /\ DOMAIN out[c] = 1 .. Cardinality(old)
        /\ DOMAIN out'[c] = 1 .. Cardinality(old) + 1
        /\ \A i \in 1 .. Cardinality(old) : out'[c][i] = out[c][i]
        /\ out'[c][Cardinality(old) + 1] = outcome
    BY <1>2, <1>3, <1>4, <2>1, <2>2
  <2>4. \A i \in new : out'[c][Cardinality(Shown(s, i))].kind = s[i].kind
    <3>1. ASSUME NEW i \in old PROVE out'[c][Cardinality(Shown(s, i))].kind = s[i].kind
      <4>1. Cardinality(Shown(s, i)) \in 1 .. Cardinality(old)
        BY ShownIndex
      <4> QED
        BY <1>3, <2>3, <4>1
    <3>2. out'[c][Cardinality(new)].kind = s[a].kind
      BY <2>1, <2>2, <2>3
    <3> QED
      BY <1>4, <3>1, <3>2
  <2>5. ASSUME Measurable(s) PROVE FreshData(c)'
    <3>1. s[a].kind = "measure" => OwnData(c, outcome.data)
      <4> SUFFICES ASSUME s[a].kind = "measure" PROVE OwnData(c, outcome.data)
        OBVIOUS
      <4>1. Matched(s, a - 1)
        BY <1>1, <2>5 DEF Measurable
      <4>2. OwnData(c, result["measure"])
        BY <1>1, <4>1 DEF FreshAt, Kind
      <4> QED
        BY <2>2, <4>2
    <3>2. \A i \in 1 .. Cardinality(old) :
            out[c][i].kind = "measure" => OwnData(c, out[c][i].data)
      BY <1>3, <2>3, <2>5 DEF FreshData, OwnData, OwnMark, Own
    <3>3. ASSUME NEW i \in 1 .. Cardinality(old) + 1, out'[c][i].kind = "measure"
          PROVE  OwnData(c, out'[c][i].data)
      <4>1. CASE i \in 1 .. Cardinality(old)
        BY <2>3, <3>2, <3>3, <4>1
      <4>2. CASE i = Cardinality(old) + 1
        BY <2>2, <2>3, <3>1, <3>3, <4>2
      <4> QED
        BY <1>4, <4>1, <4>2
    <3> QED
      BY <1>1, <2>3, <3>3 DEF FreshData, OwnData, OwnMark, Own
  <2> QED
    BY <1>1, <2>3, <2>4, <2>5 DEF Told
<1> QED
  BY <1>5, <1>6
-----------------------------------------------------------------------------
(* The steps of a lonely worker, one by one. *)

LEMMA MatchedShot ==
  ASSUME NEW s, NEW n \in Nat, Matched(s, n)
  PROVE  Shot(s, n)
<1>1. CASE n = 0
  BY <1>1, NothingYet
<1>2. CASE n \in Nat \ {0}
  BY <1>2, MatchedStep
<1> QED
  BY <1>1, <1>2

LEMMA PrepareKeeps ==
  ASSUME ReplayInv, DataType, NEW c \in Cameras, Prepare(c), at[c] > 0, enb.act,
         FreshAt(c), Told(c, at[c] - 1)
  PROVE  at'[c] = at[c] /\ enb'.act /\ FreshAt(c)' /\ Told(c, at[c] - 1)'
<1>p. /\ pc[c] = "prepare" /\ pc'[c] = "run" /\ enb' = enb /\ rec' = rec /\ at' = at
      /\ nRun' = nRun /\ out' = out /\ missed' = missed
  BY DEF Prepare, Goto, Set, ReplayInv, ReplayType, ownVars
<1>k. Step(c).kind = Kind(c)
  BY StepTask
<1>d. img \in [Cameras -> Stamp] /\ table \in [Cameras -> Stamp] /\ arg \in [Cameras -> Stamp]
  BY DEF DataType
<1>1. Kind(c) # "capture" => img'[c] = img[c]
  BY <1>k DEF Prepare
<1>2. Kind(c) \notin AutoCommands => table'[c] = table[c] /\ arg'[c] = table[c]
  <2>1. Kind(c) \notin AutoCommands =>
          table' = Set(table, c, table[c]) /\ arg' = Set(arg, c, table[c])
    BY <1>k DEF Prepare, IsAuto, Carries, Replaying
  <2> QED
    BY <2>1, <1>d DEF Set
<1>3. "measure" \notin AutoCommands
  BY DEF AutoCommands
<1>4. FreshAt(c)'
  BY <1>p, <1>1, <1>2, <1>3 DEF FreshAt, Kind, Own, OwnMark, OwnData
<1>5. PICK n : n = at[c] - 1
  OBVIOUS
<1>6. Told(c, n)'
  BY <1>p, <1>5, ToldKept
<1> QED
  BY <1>p, <1>4, <1>5, <1>6 DEF Told, FreshData

LEMMA RunKeeps ==
  ASSUME ReplayInv, DataType, MissedType, NEW c \in Cameras, RunOk(c), at[c] > 0, enb.act,
         FreshAt(c), Told(c, at[c] - 1)
  PROVE  at'[c] = at[c] /\ enb'.act /\ FreshAt(c)' /\ Told(c, at[c] - 1)'
<1>p. /\ pc[c] = "run" /\ pc'[c] = "convert" /\ enb' = enb /\ rec' = rec /\ at' = at
      /\ nRun' = nRun /\ out' = out /\ table' = table
  BY DEF RunOk, Goto, Set, flagVars, ReplayInv, ReplayType
<1>k. Step(c).kind = Kind(c) /\ at[c] \in Nat \ {0}
  BY StepTask DEF ReplayInv, ReplayType
<1>d. /\ img \in [Cameras -> Stamp] /\ result \in [Algos -> Result]
  BY DEF DataType
<1>0. missed[c] => missed'[c]
  BY DEF RunOk, Set, MissedType
<1>1. img'[c] = IF Kind(c) = "capture" THEN Own(c) ELSE img[c]
  BY <1>k, <1>d DEF RunOk, Replaying, Set, Own
<1>2. /\ Kind(c) = "measure" => result'["measure"] = [img |-> img[c], mark |-> arg[c]]
      /\ Kind(c) = "match" => missed'[c] \/ result'["match"].img = img[c]
  <2>1. PICK found \in BOOLEAN :
          /\ ~found => Kind(c) = "match"
          /\ Kind(c) \in {"match", "measure"} =>
               result' = IF found THEN Set(result, Kind(c), [img |-> img[c], mark |-> arg[c]])
                         ELSE result
          /\ missed' = Set(missed, c, missed[c] \/ ~found)
    BY <1>k DEF RunOk, Replaying, Algos
  <2>2. CASE found
    BY <1>d, <2>1, <2>2 DEF Set, Algos
  <2>3. CASE ~found
    <3>1. missed'[c]
      BY <2>1, <2>3 DEF Set, MissedType
    <3> QED
      BY <2>1, <2>3, <3>1
  <2> QED
    BY <2>1, <2>2, <2>3
<1>3. Shot(rec[c], at[c]) <=> Shot(rec[c], at[c] - 1) \/ Kind(c) = "capture"
  BY <1>k, ShotStep DEF Kind
<1>4. Matched(rec[c], at[c] - 1) => Shot(rec[c], at[c] - 1)
  BY <1>k, MatchedShot
<1>5. FreshAt(c)'
  <2>1. "measure" \notin AutoCommands /\ "match" # "capture" /\ "measure" # "capture"
    BY DEF AutoCommands
  <2>2. Shot(rec[c], at[c]) => img'[c] = Own(c)
    BY <1>p, <1>1, <1>3 DEF FreshAt
  <2>3. Matched(rec[c], at[c] - 1) /\ Kind(c) \notin AutoCommands
          => missed'[c] \/ table'[c] = Own(c)
    BY <1>0, <1>p DEF FreshAt, OwnMark
  <2>4. Shot(rec[c], at[c] - 1) /\ Kind(c) = "match"
          => missed'[c] \/ result'["match"].img = Own(c)
    BY <1>p, <1>2 DEF FreshAt
  <2>5. Matched(rec[c], at[c] - 1) /\ Kind(c) = "measure" =>
          /\ result'["measure"].img = Own(c)
          /\ missed'[c] \/ result'["measure"].mark = Own(c)
    BY <1>0, <1>p, <1>2, <1>4 DEF FreshAt, OwnMark
  <2>6. Own(c)' = Own(c) /\ Kind(c)' = Kind(c)
    BY <1>p DEF Own, Kind
  <2> QED
    BY <1>p, <2>2, <2>3, <2>4, <2>5, <2>6 DEF FreshAt, OwnMark, OwnData
<1>6. PICK n : n = at[c] - 1
  OBVIOUS
<1>7. Told(c, n)'
  BY <1>0, <1>p, <1>6, ToldKept
<1> QED
  BY <1>p, <1>5, <1>6, <1>7 DEF Told, FreshData

LEMMA ConvertKeeps ==
  ASSUME ReplayInv, DataType, NEW c \in Cameras, Convert(c), at[c] > 0, enb.act,
         FreshAt(c), Told(c, at[c] - 1)
  PROVE  at'[c] = at[c] /\ enb'.act /\ FreshAt(c)' /\ Told(c, at[c] - 1)'
<1>p. /\ pc[c] = "convert" /\ pc'[c] = "answer" /\ enb' = enb /\ rec' = rec /\ at' = at
      /\ nRun' = nRun /\ out' = out /\ img' = img /\ result' = result /\ missed' = missed
  BY DEF Convert, Goto, Set, flagVars, runVars, ownVars, ReplayInv, ReplayType
<1>k. Step(c).kind = Kind(c) /\ at[c] \in Nat \ {0} /\ (IsAuto(rec[c][at[c]]) <=> Kind(c) \in AutoCommands)
  BY StepTask DEF ReplayInv, ReplayType, IsAuto, Kind
<1>1. table'[c] = IF Kind(c) = "match" THEN result["match"].img ELSE table[c]
  BY <1>k DEF Convert, Carries, Replaying, Set, DataType
<1>2. Matched(rec[c], at[c]) =>
        \/ Kind(c) = "match" /\ Shot(rec[c], at[c] - 1)
        \/ Kind(c) \notin AutoCommands /\ Matched(rec[c], at[c] - 1)
  BY <1>k, MatchedStep DEF Kind
<1>3. Matched(rec[c], at[c] - 1) => Shot(rec[c], at[c] - 1)
  BY <1>k, MatchedShot
<1>4. Matched(rec[c], at[c]) => OwnMark(c, table'[c])
  BY <1>p, <1>1, <1>2, <1>3 DEF FreshAt
<1>5. FreshAt(c)'
  BY <1>p, <1>4 DEF FreshAt, Kind, Own, OwnMark, OwnData
<1>6. PICK n : n = at[c] - 1
  OBVIOUS
<1>7. Told(c, n)'
  BY <1>p, <1>6, ToldKept
<1> QED
  BY <1>p, <1>5, <1>6, <1>7 DEF Told, FreshData

LEMMA AnswerKeeps ==
  ASSUME ReplayInv, DataType, NEW c \in Cameras, Answer(c), at[c] > 0, enb.act,
         FreshAt(c), Told(c, at[c] - 1), at'[c] > 0
  PROVE  enb'.act /\ FreshAt(c)' /\ Told(c, at[c] - 1)'
<1>p. /\ pc[c] = "answer" /\ pc'[c] = "prepare" /\ enb' = enb /\ rec' = rec
      /\ at'[c] = at[c] + 1 /\ nRun' = nRun /\ img' = img /\ table' = table
      /\ missed' = missed /\ at[c] \in Nat \ {0}
  BY DEF Answer, Goto, Set, flagVars, ownVars, ReplayInv, ReplayType
<1>1. PICK a \in Nat \ {0} : a = at[c]
  BY <1>p
<1>2. Told(c, a)'
  BY <1>1, ToldGrows
<1>3. at'[c] - 1 = a
  BY <1>p, <1>1
<1>4. FreshAt(c)'
  <2>1. Shot(rec[c], a) => img[c] = Own(c)
    BY <1>p, <1>1 DEF FreshAt
  <2>2. Matched(rec[c], a) => OwnMark(c, table[c])
    BY <1>p, <1>1 DEF FreshAt
  <2> QED
    BY <1>p, <1>3, <2>1, <2>2 DEF FreshAt, Own, OwnMark
<1> QED
  BY <1>p, <1>2, <1>3, <1>4 DEF Told, FreshData
-----------------------------------------------------------------------------
(* A replay begins with nothing published, and nothing captured yet.       *)
LEMMA BeginStarts ==
  ASSUME ReplayInv, DataType, NEW c \in Cameras, Begin(c), at'[c] > 0, enb.act
  PROVE  enb'.act /\ FreshAt(c)' /\ Told(c, at[c] - 1)'
<1>0. ~(at[c] > 0) /\ at \in [Cameras -> Nat] /\ pc \in [Cameras -> PC]
  BY DEF Begin, ReplayInv, ReplayType, InReplay
<1>1. rec[c] # <<>>
  BY <1>0 DEF Begin
<1>2. at'[c] = 1 /\ pc'[c] = "prepare" /\ enb' = enb /\ rec' = rec /\ out'[c] = <<>>
  BY <1>0, <1>1 DEF Begin, Goto, Set, DataType
<1>3. at'[c] - 1 = 0 /\ DOMAIN out'[c] = {} /\ Len(out'[c]) = 0
  BY <1>2
<1>4. FreshAt(c)'
  BY <1>2, <1>3, NothingYet DEF FreshAt
<1>5. Told(c, at[c] - 1)'
  BY <1>2, <1>3, NothingYet, FS_EmptySet DEF Told, FreshData
<1> QED
  BY <1>2, <1>4, <1>5

DataInv ==
  /\ ReplayInv /\ FlagTypes /\ DataType /\ MissedType
  /\ \A c \in Cameras : ForTrigger(c) /\ FlowOnly(c) /\ MeasuredInv(c)

LEMMA MeasuredInductive ==
  ASSUME DataInv, [Next]_vars, NEW c \in Cameras
  PROVE  MeasuredInv(c)'
<1> USE DEF DataInv
<1> SUFFICES ASSUME Alone(c)'
             PROVE  /\ pc'[c] = "begin" => enb'.act
                    /\ at'[c] > 0 => enb'.act /\ FreshAt(c)' /\ Told(c, at[c] - 1)'
  BY DEF MeasuredInv
<1>p. /\ pc \in [Cameras -> PC] /\ at \in [Cameras -> Nat] /\ enb \in Mode
      /\ trigActivate \in BOOLEAN /\ InReplay(c)
  BY DEF ReplayInv, ReplayType, FlagTypes
<1>a. Alone(c) /\ (Worker(c) \/ Input \/ UNCHANGED vars)
  BY AloneBefore
<1>m. /\ pc[c] = "begin" => enb.act
      /\ at[c] > 0 => enb.act /\ FreshAt(c) /\ Told(c, at[c] - 1)
  BY <1>a DEF MeasuredInv
<1>1. CASE Input \/ UNCHANGED vars
  <2>1. UNCHANGED ReplayData(c)
    BY <1>1 DEF Input, SubParse, FlowParse, SubEnqueue, FlowEnqueue, vars, flagVars, runVars,
                ownVars, ReplayData
  <2>2. MeasuredInv(c)'
    BY <1>a, <2>1, MeasuredKept
  <2> QED
    BY <2>2 DEF MeasuredInv
<1>2. CASE Take(c) \/ ModeCommand(c) \/ Record(c) \/ TrigAssign(c) \/ TrigTest(c)
  <2>1. at' = at /\ pc[c] \notin {"prepare", "run", "convert", "answer"}
    BY <1>2 DEF Take, ModeCommand, Record, TrigAssign, TrigTest, runVars
  <2>2. ~(at[c] > 0)
    BY <1>p, <2>1 DEF InReplay
  <2>3. pc'[c] = "begin" => enb'.act
    <3>1. CASE TrigTest(c)
      <4>1. enb'.act = trigActivate /\ (pc'[c] = "begin" => trigActivate)
        BY <1>p, <3>1 DEF TrigTest, Goto, Set, Mode
      <4> QED
        BY <4>1
    <3>2. CASE Take(c) \/ ModeCommand(c) \/ Record(c) \/ TrigAssign(c)
      BY <1>p, <3>2 DEF Take, ModeCommand, Record, TrigAssign, Goto, Set
    <3> QED
      BY <1>2, <3>1, <3>2
  <2> QED
    BY <2>1, <2>2, <2>3
<1>3. CASE Begin(c)
  <2>1. pc[c] = "begin" /\ pc'[c] # "begin"
    BY <1>3, <1>p DEF Begin, Goto, Set
  <2> QED
    BY <1>3, <1>m, <2>1, BeginStarts
<1>4. CASE RunFail(c)
  BY <1>4, <1>p DEF RunFail, Goto, Set
<1>5. CASE Prepare(c) \/ RunOk(c) \/ Convert(c) \/ Answer(c)
  <2>1. pc'[c] # "begin"
    BY <1>5, <1>p DEF Prepare, RunOk, Convert, Answer, Goto, Set
  <2>2. CASE at[c] > 0
    BY <1>5, <1>m, <2>1, <2>2, PrepareKeeps, RunKeeps, ConvertKeeps, AnswerKeeps
  <2>3. CASE ~(at[c] > 0)
    <3>1. ~(at'[c] > 0)
      BY <1>5, <1>p, <2>3 DEF Prepare, RunOk, Convert, Answer, Replaying, Set, runVars
    <3> QED
      BY <2>1, <3>1
  <2> QED
    BY <2>2, <2>3
<1> QED
  BY <1>a, <1>1, <1>2, <1>3, <1>4, <1>5 DEF Worker

LEMMA DataAlways == Spec => []DataInv
<1>1. Init => /\ DataType /\ FlagTypes /\ MissedType
              /\ \A c \in Cameras : ForTrigger(c) /\ FlowOnly(c) /\ MeasuredInv(c)
  <2> SUFFICES ASSUME Init
               PROVE  /\ DataType /\ FlagTypes /\ MissedType
                      /\ \A c \in Cameras : ForTrigger(c) /\ FlowOnly(c) /\ MeasuredInv(c)
    OBVIOUS
  <2>1. DataType
    BY DataInitial
  <2>2. FlagTypes /\ MissedType
    BY RecordingInitial DEF RecordingInv, Init, MissedType
  <2>3. \A c \in Cameras : pc[c] = "idle" /\ at[c] = 0 /\ queue[c] = <<>>
    BY DEF Init
  <2>4. \A c \in Cameras : ForTrigger(c) /\ FlowOnly(c) /\ MeasuredInv(c)
    BY <2>3 DEF ForTrigger, FlowOnly, MeasuredInv
  <2> QED
    BY <2>1, <2>2, <2>4
<1>2. ReplayInv' /\ DataInv /\ [Next]_vars => DataInv'
  <2> SUFFICES ASSUME ReplayInv', DataInv, [Next]_vars PROVE DataInv'
    OBVIOUS
  <2>1. FlagTypes' /\ DataType' /\ MissedType'
    BY FlagTypesInductive, DataInductive, MissedInductive DEF DataInv
  <2>2. ASSUME NEW c \in Cameras PROVE (ForTrigger(c) /\ FlowOnly(c) /\ MeasuredInv(c))'
    BY TriggerInductive, FlowOnlyInductive, MeasuredInductive DEF DataInv
  <2> QED
    BY <2>1, <2>2 DEF DataInv
<1>3. /\ ReplayInv /\ DataType /\ FlagTypes /\ MissedType
      /\ \A c \in Cameras : ForTrigger(c) /\ FlowOnly(c) /\ MeasuredInv(c)
      => DataInv
  BY DEF DataInv
<1> QED
  BY <1>1, <1>2, <1>3, ReplayAlways, PTL DEF Spec

(* A replay that reports Done while its camera is the only one used has    *)
(* published every capture and measurement of the recording, in order;     *)
(* and if the recording captures and matches before it measures, each      *)
(* measurement was made on this replay's image, and with this replay's     *)
(* mark when its matches found theirs, whatever the table, the image and   *)
(* the result buffers held before.                                         *)
THEOREM LoneReplaysMeasure == Spec => DoneMeansMeasured
<1>1. DataInv /\ [Next]_vars =>
        [\A c \in Cameras :
           reports'[c] = Append(reports[c], "Done") /\ Alone(c)
             => (Published(c) /\ (Measurable(rec[c]) => FreshData(c)))']_vars
  <2> SUFFICES ASSUME DataInv, Next, NEW c \in Cameras,
                      reports'[c] = Append(reports[c], "Done"), Alone(c)
               PROVE  (Published(c) /\ (Measurable(rec[c]) => FreshData(c)))'
    OBVIOUS
  <2> USE DEF DataInv, ReplayInv
  <2>1. Answer(c) /\ at[c] > 0 /\ ~(at[c] < Len(rec[c]))
    BY DoneIsAnswered DEF Replaying
  <2>2. at[c] = Len(rec[c]) /\ at[c] \in Nat \ {0} /\ rec' = rec
    BY <2>1 DEF InReplay, ReplayType, Answer
  <2>3. PICK a \in Nat \ {0} : a = at[c]
    BY <2>2
  <2>4. Told(c, a)'
    BY <2>1, <2>3, ToldGrows DEF MeasuredInv
  <2>5. Len(rec'[c]) = a
    BY <2>2, <2>3
  <2> QED
    BY <2>4, <2>5 DEF Told, Published
<1> QED
  BY <1>1, DataAlways, PTL DEF Spec, DoneMeansMeasured
=============================================================================
