--------------------------- MODULE AutoRunRecorder ---------------------------
(***************************************************************************)
(* Recording a recipe and replaying it: the body of ips_process_Dual, run  *)
(* by one worker thread per camera.                                        *)
(*                                                                         *)
(*   record   AUTORUNNING_SET_PARAM with both flags set: this command and  *)
(*            the ones that follow are put into the worker's vector        *)
(*            instead of being executed, up to                             *)
(*   end      AUTORUNNING_SET_PARAM with both flags clear; and             *)
(*   trigger  TRIGGERMODE_SET_PARAM runs the recorded steps, carrying each *)
(*            step's result to the next in the table seAllParam.           *)
(*                                                                         *)
(* The vector and the table belong to the worker.  What does not: the mode *)
(* flags are static, one set for both workers; the mode record iEnbExMode, *)
(* the argument text of a command (pJsonBuf) and the result of a method    *)
(* (pRes) are one global each, or one per kind of command.                 *)
(* An action makes at most one visit to what is shared, except that a      *)
(* command's parsed flag is read and its task queued in one.               *)
(***************************************************************************)
EXTENDS Integers, Sequences, FiniteSets

CONSTANTS
  Cameras,      \* {0, 1}, or the one that is in use
  Scripts,      \* what the backend may send: sets of one command sequence per camera
  FlowScripts,  \* those during which the inspection flow submits triggers
  MaxFlowRuns,  \* bound: triggers it submits in a behaviour
  MaxFaults     \* bound: failing methods in a behaviour

AutoCommands    == {"record", "chain", "end"}
TriggerCommands == {"trigger", "untrigger"}
Algos           == {"capture", "match", "measure"}
Commands        == AutoCommands \cup TriggerCommands \cup Algos

ASSUME CamerasAssumption == Cameras \subseteq {0, 1} /\ Cameras # {}
ASSUME ScriptsAssumption ==
  Scripts \subseteq [Cameras -> Seq(Commands)] /\ FlowScripts \subseteq Scripts
ASSUME BoundsAssumption  == MaxFlowRuns \in Nat /\ MaxFaults \in Nat

(* A command in the queue or in a recording: its kind, the message it came *)
(* with (number 0 for a trigger of the inspection flow), its mode record.  *)
Mode == [auto : BOOLEAN, trig : BOOLEAN, act : BOOLEAN]
Id   == Cameras \X Nat
Task == [kind : Commands, id : Id, mode : Mode]

(* Data is known by the replay it comes from: camera and number; number 0  *)
(* is an image file, or what was there before.                             *)
Stamp  == Cameras \X Nat
Result == [img : Stamp, mark : Stamp]

PC == {"idle", "trigger", "trigTest", "begin", "mode", "record",
       "prepare", "run", "convert", "answer"}

VARIABLES
  script, sent,   \* the backend's commands, how many it has sent (per camera)
  subCam,         \* camera whose command the subscriber has parsed, or NoCam
  flowCam, nFlow, \* the same for the inspection flow; runs it has submitted
  trigFlag,       \* bFlg_TriggerMode_Activate of the parameter record
  mode,           \* iEnbExMode
  argText,        \* pJsonBuf of each kind: the message it was filled from
  queue,          \* TasksQ_Dual with ExModeQ_Dual
  enb, prev,      \* bEnb_AutoRunningMode, bEnb_TriggerMode, bEnb_AutoRunningMode_Activate
                  \* and the bPrev_ of each: fields auto, trig, act
  trigActivate,   \* bEnb_TriggerMode_Activate
  result,         \* pRes of each method
  pc, cur,        \* each worker: where it is, the task it took
  rec, at,        \* vecMthParmTasksRespo; index of the step, 0 for a task by itself
  img, table, arg, \* imgBuf; the mark in seAllParam; the mark given to the method
  nRun, nFault,   \* replays begun; methods that failed
  out,            \* what the replay published: kind, data, message quoted
  reports,        \* innerQ_IPS_Dual, never emptied here
  ran,            \* messages of the steps that succeeded in the replay (history)
  open, session, mixed, \* history, per camera: it is between its own record and end;
                  \* the messages of its own last session; see ModeCommand
  missed          \* history, per camera: a match of its last replay found no mark

inputVars == <<script, sent, subCam, flowCam, nFlow, trigFlag, mode, argText>>
flagVars  == <<enb, prev, trigActivate>>
runVars   == <<at, img, nRun, nFault, out, reports, ran>>
ownVars   == <<open, session, mixed, missed>>
vars == <<inputVars, queue, flagVars, result, pc, cur, rec, table, arg, runVars, ownVars>>

NoCam == -1
Nothing(c) == <<c, 0>>
IsAuto(t) == t.kind \in AutoCommands
Off == [auto |-> FALSE, trig |-> FALSE, act |-> FALSE]

TypeOK ==
  /\ script \in Scripts /\ sent \in [Cameras -> Nat]
  /\ {subCam, flowCam} \subseteq Cameras \cup {NoCam}
  /\ {mode, enb, prev} \subseteq Mode /\ {trigActivate, trigFlag} \subseteq BOOLEAN
  /\ argText \in [Commands -> Id]
  /\ queue \in [Cameras -> Seq(Task)] /\ rec \in [Cameras -> Seq(Task)]
  /\ result \in [Algos -> Result]
  /\ pc \in [Cameras -> PC] /\ cur \in [Cameras -> Task]
  /\ at \in [Cameras -> Nat] /\ \A c \in Cameras : at[c] <= Len(rec[c])
  /\ \A f \in {img, table, arg} : f \in [Cameras -> Stamp]
  /\ nRun \in [Cameras -> Nat] /\ nFault \in 0 .. MaxFaults /\ nFlow \in 0 .. MaxFlowRuns
  /\ reports \in [Cameras -> Seq({"Done", "Fail"})]
  /\ \A h \in {open, mixed, missed} : h \in [Cameras -> BOOLEAN]
  /\ session \in [Cameras -> Seq(Id)]

Init ==
  LET c0 == CHOOSE c \in Cameras : TRUE
      empty == [c \in Cameras |-> <<>>]
      no    == [c \in Cameras |-> FALSE]
      old   == [c \in Cameras |-> Nothing(c)]
  IN
  /\ script \in Scripts
  /\ sent = [c \in Cameras |-> 0]
  /\ subCam = NoCam /\ flowCam = NoCam /\ nFlow = 0
  /\ mode = Off /\ enb = Off /\ prev = Off /\ trigActivate = FALSE /\ trigFlag = FALSE
  /\ argText = [k \in Commands |-> Nothing(c0)]
  /\ queue = empty /\ rec = empty
  /\ result = [k \in Algos |-> [img |-> Nothing(c0), mark |-> Nothing(c0)]]
  /\ pc = [c \in Cameras |-> "idle"]
  /\ cur = [c \in Cameras |-> [kind |-> "end", id |-> Nothing(c), mode |-> Off]]
  /\ at = [c \in Cameras |-> 0]
  /\ img = old /\ table = old /\ arg = old
  /\ nRun = [c \in Cameras |-> 0] /\ nFault = 0
  /\ out = empty /\ reports = empty /\ ran = empty
  /\ session = empty /\ open = no /\ mixed = no /\ missed = no

Set(f, x, v) == [f EXCEPT ![x] = v]
Push(f, x, v) == [f EXCEPT ![x] = Append(@, v)]
-----------------------------------------------------------------------------
(* The subscriber and the inspection flow put a command in: they parse its *)
(* parameters into the record of its kind (of which the trigger's flag     *)
(* matters here), then read the flags back, fill the argument text and     *)
(* append to the queues.                                                   *)

NextCommand(c) == script[c][sent[c] + 1]

SubParse(c) ==
  /\ subCam = NoCam /\ sent[c] < Len(script[c])
  /\ trigFlag' = IF NextCommand(c) \in TriggerCommands THEN NextCommand(c) = "trigger"
                 ELSE trigFlag
  /\ subCam' = c
  /\ UNCHANGED <<script, sent, flowCam, nFlow, mode, argText, queue, flagVars, result, pc, cur,
                 rec, table, arg, runVars, ownVars>>

Enqueue(c, k, id, m) ==
  /\ argText' = Set(argText, k, id)
  /\ queue' = Push(queue, c, [kind |-> k, id |-> id, mode |-> m])

(* Mutant: the recording flag of the message is ignored. *)
UpdatedAutoOnly(m, k) ==
  IF k \in AutoCommands THEN [m EXCEPT !.auto = k \in {"record", "chain"}]
  ELSE IF k \in TriggerCommands THEN [m EXCEPT !.act = trigFlag]
  ELSE m

(* Only the two mode commands write iEnbExMode, but every command queues a *)
(* copy of it.                                                             *)
Updated(m, k) ==
  IF k \in AutoCommands
    THEN [m EXCEPT !.auto = k \in {"record", "chain"}, !.trig = k = "record"]
  ELSE IF k \in TriggerCommands THEN [m EXCEPT !.act = trigFlag]
  ELSE m

SubEnqueue ==
  /\ subCam # NoCam
  /\ mode' = Updated(mode, NextCommand(subCam))
  /\ Enqueue(subCam, NextCommand(subCam), <<subCam, sent[subCam] + 1>>, mode')
  /\ sent' = Set(sent, subCam, sent[subCam] + 1)
  /\ subCam' = NoCam
  /\ UNCHANGED <<script, flowCam, nFlow, trigFlag, flagVars, result, pc, cur, rec, table, arg,
                 runVars, ownVars>>

(* Process_Flow_Handler(_Dual) in GI_EXCUTE_AUTO_GI.  Its mode record is a *)
(* local that hides the shared one; the parsed flag is the shared one.     *)
FlowParse(c) ==
  /\ flowCam = NoCam /\ script \in FlowScripts /\ nFlow < MaxFlowRuns
  /\ trigFlag' = TRUE
  /\ flowCam' = c /\ nFlow' = nFlow + 1
  /\ UNCHANGED <<script, sent, subCam, mode, argText, queue, flagVars, result, pc, cur, rec,
                 table, arg, runVars, ownVars>>

FlowEnqueue ==
  /\ flowCam # NoCam
  /\ Enqueue(flowCam, "trigger", Nothing(flowCam), [Off EXCEPT !.act = trigFlag])
  /\ flowCam' = NoCam
  /\ UNCHANGED <<script, sent, subCam, nFlow, trigFlag, mode, flagVars, result, pc, cur, rec,
                 table, arg, runVars, ownVars>>

Input == (\E c \in Cameras : SubParse(c) \/ FlowParse(c)) \/ SubEnqueue \/ FlowEnqueue
-----------------------------------------------------------------------------
(* A worker takes a task. *)

Goto(c, p) == pc' = Set(pc, c, p)

Take(c) ==
  /\ pc[c] = "idle" /\ queue[c] # <<>>
  /\ LET t == Head(queue[c]) IN
       /\ cur' = Set(cur, c, t)
       /\ Goto(c, IF t.kind \in TriggerCommands THEN "trigger"
                  ELSE IF IsAuto(t) THEN "mode" ELSE "record")
  /\ queue' = Set(queue, c, Tail(queue[c]))
  /\ UNCHANGED <<inputVars, flagVars, result, rec, table, arg, runVars, ownVars>>

(* Another worker's step mixes with c's session: it executes a mode        *)
(* command, or it looks at the flags between c's setting them and c's own  *)
(* look at them.  A session that opens while another camera's is under way *)
(* is mixed from the start.                                                *)
AtFlags(c) == pc[c] = "record" /\ IsAuto(cur[c])
Opens(c)   == cur[c].kind = "record" /\ ~open[c]

(* The flags of a mode command, and a fresh table when one changes. *)
ModeCommand(c) ==
  /\ pc[c] = "mode"
  /\ LET m == cur[c].mode IN
       /\ enb' = [enb EXCEPT !.auto = m.auto, !.trig = m.trig]
       /\ prev' = [prev EXCEPT !.auto = m.auto]
       /\ table' = IF prev.auto # m.auto THEN Set(table, c, Nothing(c)) ELSE table
  /\ mixed' = [d \in Cameras |->
                 IF d # c THEN TRUE
                 ELSE IF Opens(c) THEN \E e \in Cameras \ {c} : open[e] \/ AtFlags(e)
                 ELSE mixed[c]]
  /\ Goto(c, "record")
  /\ UNCHANGED <<inputVars, queue, trigActivate, result, cur, rec, arg, runVars, open, session,
                 missed>>

(* Mutant: a recording that begins keeps what was recorded before. *)
RecordedKeeps(c) ==
  IF prev.trig \/ enb.trig THEN Append(rec[c], cur[c]) ELSE <<>>

(* What the recording becomes, by the previous and the present flag. *)
Recorded(c) ==
  IF prev.trig THEN Append(rec[c], cur[c])
  ELSE IF enb.trig THEN <<cur[c]>>
  ELSE <<>>

(* Record the command, and execute it unless recording goes on.            *)
Record(c) ==
  /\ pc[c] = "record"
  /\ rec' = Set(rec, c, Recorded(c))
  /\ prev' = [prev EXCEPT !.trig = enb.trig]
  /\ Goto(c, IF enb.trig THEN "idle" ELSE "prepare")
  /\ open' = Set(open, c, IF IsAuto(cur[c]) THEN cur[c].kind = "record" ELSE open[c])
  /\ session' = Set(session, c, IF open[c] THEN Append(session[c], cur[c].id)
                                ELSE IF Opens(c) THEN <<cur[c].id>> ELSE <<>>)
  /\ mixed' = [d \in Cameras |-> mixed[d] \/ (d # c /\ AtFlags(d))]
  /\ UNCHANGED <<inputVars, queue, enb, trigActivate, result, cur, table, arg, runVars, missed>>
-----------------------------------------------------------------------------
(* A worker executes a trigger: the recording, step by step. *)

Report(c, verdict) == reports' = Push(reports, c, verdict)

TrigAssign(c) ==
  /\ pc[c] = "trigger"
  /\ trigActivate' = cur[c].mode.act
  /\ Goto(c, "trigTest")
  /\ UNCHANGED <<inputVars, queue, enb, prev, result, cur, rec, table, arg, runVars, ownVars>>

(* Mutant: a trigger that is switched off is not reported. *)
TrigTestSilent(c) ==
  /\ pc[c] = "trigTest"
  /\ enb' = [enb EXCEPT !.act = trigActivate]
  /\ Goto(c, IF trigActivate THEN "begin" ELSE "idle")
  /\ UNCHANGED <<inputVars, queue, prev, trigActivate, result, cur, rec, table, arg, runVars,
                 ownVars>>

TrigTest(c) ==
  /\ pc[c] = "trigTest"
  /\ enb' = [enb EXCEPT !.act = trigActivate]
  /\ IF trigActivate THEN Goto(c, "begin") /\ UNCHANGED reports
                     ELSE Goto(c, "idle") /\ Report(c, "Fail")
  /\ UNCHANGED <<inputVars, queue, prev, trigActivate, result, cur, rec, table, arg, at, img,
                 nRun, nFault, out, ran, ownVars>>

Begin(c) ==
  /\ pc[c] = "begin"
  /\ IF rec[c] = <<>>
       THEN /\ enb' = [enb EXCEPT !.act = FALSE]
            /\ Goto(c, "idle") /\ Report(c, "Fail")
            /\ UNCHANGED <<at, nRun, out, ran, missed>>
       ELSE /\ at' = Set(at, c, 1)
            /\ nRun' = Set(nRun, c, nRun[c] + 1)
            /\ out' = Set(out, c, <<>>) /\ ran' = Set(ran, c, <<>>)
            /\ missed' = Set(missed, c, FALSE)
            /\ Goto(c, "prepare")
            /\ UNCHANGED <<enb, reports>>
  /\ UNCHANGED <<inputVars, queue, prev, trigActivate, result, cur, rec, table, arg, img, nFault,
                 open, session, mixed>>
-----------------------------------------------------------------------------
(* Executing one command, by itself (at = 0) or as a step of a replay.     *)

Replaying(c) == at[c] > 0
Step(c) == IF Replaying(c) THEN rec[c][at[c]] ELSE cur[c]
Carries(c) == IF Replaying(c) THEN enb.act ELSE enb.auto  \* results are carried along

(* Before the method: in a replay a recorded mode command brings prev up   *)
(* to date with a fresh table, and a capture drops the old image; then the *)
(* step's argument comes from the table (AP to P).                         *)
Prepare(c) ==
  /\ pc[c] = "prepare"
  /\ LET s == Step(c)
         flips == Replaying(c) /\ IsAuto(s) /\ prev.act # enb.act
         t == IF flips THEN Nothing(c) ELSE table[c]
     IN /\ prev' = IF flips THEN [prev EXCEPT !.act = enb.act] ELSE prev
        /\ table' = Set(table, c, t)
        /\ img' = IF Replaying(c) /\ s.kind = "capture" THEN Set(img, c, Nothing(c)) ELSE img
        /\ arg' = Set(arg, c, IF Carries(c) THEN t ELSE Nothing(c))
  /\ Goto(c, "run")
  /\ UNCHANGED <<inputVars, queue, enb, trigActivate, result, cur, rec, at, nRun, nFault, out,
                 reports, ran, ownVars>>

(* The method succeeds: a result in the method's one buffer.  A replay     *)
(* works on the captured image, a command by itself on an image file.  A   *)
(* match that finds no mark in it succeeds too, with the last mark found.  *)
RunOk(c) ==
  /\ pc[c] = "run"
  /\ LET k == Step(c).kind
         i == IF ~Replaying(c) THEN Nothing(c)
              ELSE IF k = "capture" THEN <<c, nRun[c]>> ELSE img[c]
     IN \E found \in BOOLEAN :
        /\ ~found => k = "match"
        /\ img' = IF Replaying(c) THEN Set(img, c, i) ELSE img
        /\ result' = IF found /\ k \in Algos
                       THEN Set(result, k, [img |-> i, mark |-> arg[c]]) ELSE result
        /\ missed' = Set(missed, c, missed[c] \/ (Replaying(c) /\ ~found))
  /\ ran' = IF Replaying(c) THEN Push(ran, c, Step(c).id) ELSE ran
  /\ Goto(c, "convert")
  /\ UNCHANGED <<inputVars, queue, flagVars, cur, rec, table, arg, at, nRun, nFault, out, reports,
                 open, session, mixed>>

(* Mutant: a replay goes on after a step that failed. *)
RunFailGoesOn(c) ==
  /\ pc[c] = "run" /\ nFault < MaxFaults
  /\ nFault' = nFault + 1
  /\ Goto(c, "convert")
  /\ UNCHANGED <<inputVars, queue, flagVars, result, cur, rec, table, arg, at, img, nRun, out,
                 reports, ran, ownVars>>

(* It fails: the modes go off, a replay ends.  (The re-initialisation of a *)
(* failed camera is the subject of CameraHandles.)                         *)
RunFail(c) ==
  /\ pc[c] = "run" /\ nFault < MaxFaults
  /\ nFault' = nFault + 1
  /\ IF Replaying(c)
       THEN /\ enb' = [enb EXCEPT !.act = FALSE] /\ prev' = [prev EXCEPT !.act = FALSE]
            /\ Report(c, "Fail")
       ELSE /\ enb' = [enb EXCEPT !.auto = FALSE] /\ prev' = [prev EXCEPT !.auto = FALSE]
            /\ UNCHANGED reports
  /\ at' = Set(at, c, 0)
  /\ Goto(c, "idle")
  /\ UNCHANGED <<inputVars, queue, trigActivate, result, cur, rec, table, arg, img, nRun, out,
                 ran, ownVars>>

(* The result goes to the table (RetP to AP); of the three methods only    *)
(* the match has one that later steps use.                                 *)
Convert(c) ==
  /\ pc[c] = "convert"
  /\ table' = IF Carries(c) /\ Step(c).kind = "match"
                THEN Set(table, c, result["match"].img) ELSE table
  /\ Goto(c, "answer")
  /\ UNCHANGED <<inputVars, queue, flagVars, result, cur, rec, arg, runVars, ownVars>>

(* What JsonGenerator publishes: the data in the method's result buffer    *)
(* and the argument text it quotes, which for a measurement in a replay is *)
(* the trigger's.                                                          *)
Message(c) ==
  LET k == Step(c).kind IN
  [kind |-> k, data |-> result[k],
   quotes |-> argText[IF Replaying(c) /\ k = "measure" THEN "trigger" ELSE k]]

(* Mutant: a replay publishes its measurements only. *)
PublishesMeasure(c) == enb.act /\ Step(c).kind = "measure"

(* A replay publishes captures and measurements, if it is still enabled.   *)
Publishes(c) == enb.act /\ Step(c).kind \in {"capture", "measure"}

(* Answer, and on to the next step; after the last one the replay is done. *)
(* What a command by itself answers is read by nobody here.                *)
Answer(c) ==
  /\ pc[c] = "answer"
  /\ out' = IF Replaying(c) /\ Publishes(c) THEN Push(out, c, Message(c)) ELSE out
  /\ IF Replaying(c) /\ at[c] < Len(rec[c])
       THEN at' = Set(at, c, at[c] + 1) /\ Goto(c, "prepare") /\ UNCHANGED reports
       ELSE /\ at' = Set(at, c, 0) /\ Goto(c, "idle")
            /\ IF Replaying(c) THEN Report(c, "Done") ELSE UNCHANGED reports
  /\ UNCHANGED <<inputVars, queue, flagVars, result, cur, rec, table, arg, img, nRun, nFault, ran,
                 ownVars>>

Worker(c) == \/ Take(c) \/ ModeCommand(c) \/ Record(c)
             \/ TrigAssign(c) \/ TrigTest(c) \/ Begin(c)
             \/ Prepare(c) \/ RunOk(c) \/ RunFail(c) \/ Convert(c) \/ Answer(c)

Next == Input \/ \E c \in Cameras : Worker(c)

Spec == Init /\ [][Next]_vars

(* Both workers are scheduled again and again.  That a method returns is   *)
(* part of it; whether it succeeds is not.                                 *)
FairSpec == Spec /\ \A c \in Cameras : WF_vars(Worker(c))
-----------------------------------------------------------------------------
(* Properties. *)

(* A command is executed in the mode its own message asked for, although   *)
(* the mode record is a global that the commands of both cameras fill in   *)
(* by turns.  (A trigger of the inspection flow shares the parsed flag, so *)
(* one that meets a message switching triggers off can change it.)         *)
OwnMode ==
  \A c \in Cameras : \A i \in DOMAIN queue[c] :
    LET t == queue[c][i] IN
    IF IsAuto(t) THEN /\ t.mode.auto = (t.kind \in {"record", "chain"})
                      /\ t.mode.trig = (t.kind = "record")
    ELSE t.kind \in TriggerCommands /\ nFlow = 0 => t.mode.act = (t.kind = "trigger")

Ids(s) == [i \in DOMAIN s |-> s[i].id]

(* What is recorded for a camera is exactly the messages of its own last   *)
(* session, as long as no step of the other worker came between: the flags *)
(* that say so are shared.                                                 *)
RecordingIsOwn == \A c \in Cameras : ~mixed[c] /\ ~AtFlags(c) => Ids(rec[c]) = session[c]

(* A replay reports Done only after every recorded step, in order, and     *)
(* nothing else has succeeded in it, whatever the other worker does to the *)
(* flags it reads.                                                         *)
DoneRanRecording ==
  [][\A c \in Cameras : reports'[c] = Append(reports[c], "Done") => ran[c] = Ids(rec[c])]_vars

(* Of the first n recorded steps, those whose result a replay publishes.   *)
Shown(s, n) == {i \in 1 .. n : s[i].kind \in {"capture", "measure"}}

(* What the replay has published is every capture and every measurement of *)
(* the recording, in order...                                              *)
Published(c) ==
  LET steps == Shown(rec[c], Len(rec[c])) IN
  /\ Len(out[c]) = Cardinality(steps)
  /\ \A i \in steps : out[c][Cardinality(Shown(rec[c], i))].kind = rec[c][i].kind

(* ...and each measurement was made on this replay's image and, when every *)
(* match of the replay has found its mark, with this replay's mark, not on *)
(* those of an earlier part.                                               *)
FreshData(c) ==
  \A i \in DOMAIN out[c] :
    out[c][i].kind = "measure" =>
      /\ out[c][i].data.img = <<c, nRun[c]>>
      /\ missed[c] \/ out[c][i].data.mark = <<c, nRun[c]>>

(* ...which takes a recording that captures and matches before it measures *)
(* and in which no mode command, which clears the table, comes between.    *)
Shot(s, n) == \E h \in 1 .. n : s[h].kind = "capture"
Matched(s, n) ==
  \E i \in 1 .. n : /\ s[i].kind = "match" /\ Shot(s, i - 1)
                    /\ \A m \in i + 1 .. n : ~IsAuto(s[m])
Measurable(s) == \A j \in DOMAIN s : s[j].kind = "measure" => Matched(s, j - 1)

Unused(c) == sent[c] = 0 /\ queue[c] = <<>> /\ pc[c] = "idle" /\ reports[c] = <<>>
Alone(c)  == \A d \in Cameras \ {c} : Unused(d)

(* With one camera in use, a replay that reports Done has published all it *)
(* should, from fresh data, and with the table carried from the last part  *)
(* (it is cleared only when a flag changes) never showing through.  (When  *)
(* a match finds no mark, the mark of an earlier part does: the match has  *)
(* succeeded with it, as the comment at RunOk says.)                       *)
DoneMeansMeasured ==
  [][\A c \in Cameras :
       reports'[c] = Append(reports[c], "Done") /\ Alone(c)
         => (Published(c) /\ (Measurable(rec[c]) => FreshData(c)))']_vars

(* A trigger that a worker is done with is answered by exactly one report, *)
(* Done or Fail, refusals are reported too, and nothing else is...         *)
OneReportEach ==
  [][\A c \in Cameras :
       Len(reports'[c]) - Len(reports[c]) =
         IF pc[c] # "idle" /\ pc'[c] = "idle" /\ cur[c].kind \in TriggerCommands
         THEN 1 ELSE 0]_vars

(* ...and every trigger that is taken comes to an end.                     *)
TriggerAnswered ==
  OneReportEach /\ \A c \in Cameras : pc[c] = "trigger" ~> pc[c] = "idle"

(* "When the camera capture image was finished, send the result            *)
(* immediately to Back-end" (the comment in the replay loop): a capture    *)
(* that succeeded in a replay is published before the next step.           *)
CapturesAnnounced ==
  [][\A c \in Cameras :
       pc[c] = "answer" /\ Replaying(c) /\ Step(c).kind = "capture" /\ pc'[c] # "answer"
         => Len(out'[c]) > Len(out[c])]_vars

(* "pJsonBuf is TriggerMode_Activate and the Json context has important of *)
(* msgId info" (the comments at both measurements): a measurement quotes   *)
(* the trigger that started its replay.                                    *)
QuotesOwnTrigger ==
  \A c \in Cameras : \A i \in DOMAIN out[c] :
    Replaying(c) /\ out[c][i].kind = "measure" => out[c][i].quotes = cur[c].id
=============================================================================
