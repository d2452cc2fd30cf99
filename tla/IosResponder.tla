----------------------------- MODULE IosResponder -----------------------------
(***************************************************************************)
(* The data of the IO commands, between the MQTT callback and ios_process. *)
(* The callback parses a command into static structures, one per group of  *)
(* commands (ios_setpwm, ios_setled...), its text into ios_CmdInfo and the *)
(* camera of its topic into ios_cameraid, and queues the command's number  *)
(* only (IO_JsonQ).  The io thread performs a queued command with what the *)
(* structures hold by then, quotes ios_CmdInfo in the answer and publishes *)
(* the answer for ios_cameraid.  When the io thread is awake is the matter *)
(* of CommandHandoff.                                                      *)
(*                                                                         *)
(* A value is the number of the message it came with.  A message brings    *)
(* all the arguments its parser knows, as those of the test backend do.    *)
(* The two light numbers of TRIGGER_SET_MODE are replaced by pin numbers   *)
(* in place; no handler uses them, and that is left out.                   *)
(***************************************************************************)
EXTENDS Naturals, Sequences

CONSTANTS
    Kinds,        \* the commands that arrive
    MaxMessages   \* how many messages arrive

Cameras == {0, 1}
Messages == 1 .. MaxMessages

-----------------------------------------------------------------------------
(* The structures, split where two parsers assign different parts.         *)
Structures ==
    {"ios_trigger.inPin", "ios_trigger.inMode", "ios_di.inPin", "ios_di.inMode",
     "ios_setpwm.inLight", "ios_setpwm.value", "ios_setpwm.LightSwitch",
     "ios_setled.outPin", "ios_setled.outStatus", "ios_setLedMode", "ios_setDinMode",
     "ios_doutMode", "ios_dout", "main_process", "ios_modbusSetParams",
     "Process_Node", "ios_rtc", "ios_sfc"}
Globals == Structures \cup {"ios_CmdInfo", "ios_cameraid"}

Trigger == {"ios_trigger.inPin", "ios_trigger.inMode"}
Light == {"ios_setpwm.inLight", "ios_setpwm.value"}
Lamp == Light \cup {"ios_setpwm.LightSwitch"}
Led == {"ios_setled.outPin", "ios_setled.outStatus"}
Quote == {"ios_CmdInfo"}
Topic == {"ios_cameraid"}
Untold == {}

(* Per command: what its parser assigns; what the io thread reads when it  *)
(* performs it, makes the answer and publishes it; and what performing it  *)
(* assigns, from which structure.                                          *)
Row(parse, perform, answer, publish) ==
    [parse |-> parse, perform |-> perform, answer |-> answer, publish |-> publish,
     assigns |-> {}, from |-> "none"]
Assigning(row, globals, from) == [row EXCEPT !.assigns = globals, !.from = from]

gIO_AlgoParamReg ==
    [TRIGGER_SET_PROCESS |-> Row(Trigger, Trigger, {}, Topic),
     TRIGGER_GET_PROCESS |-> Row({"ios_trigger.inPin"}, {"ios_trigger.inPin"}, {}, Topic),
     DIN_SET_PROCESS |-> Row({"ios_di.inPin", "ios_di.inMode"}, {}, Quote, Topic),
     DIN_GET_PROCESS |-> Row({"ios_di.inPin"}, {}, {}, Topic),
     IOS_GET_STATUS |-> Row({}, {}, {}, Topic),
     LIGHT_SET_PWM |-> Row(Light, Light, {}, Topic),
     LIGHT_GET_PWM |-> Row({"ios_setpwm.inLight"}, {}, Quote, Topic),
     LED_SET_PROCESS |-> Row(Led, Led, Led, Topic),
     LED_GET_PROCESS |-> Row({"ios_setled.outPin"}, {}, {}, Topic),
     LED_SET_MODE |-> Assigning(Row({"ios_setLedMode"}, {"ios_setLedMode"}, Quote, Topic),
                                Led, "ios_setLedMode"),
     DIN_SET_MODE |-> Assigning(Row({"ios_setDinMode"}, {"ios_setDinMode"}, Quote, Topic),
                                {"ios_di.inPin", "ios_di.inMode"}, "ios_setDinMode"),
     DOUT_SET_MODE |-> Row({"ios_doutMode"}, {"ios_doutMode"}, Quote, {"ios_doutMode"}),
     DOUT_MANUAL_CONTROL |-> Row({"ios_dout"}, {"ios_dout"}, Quote, Untold),
     DIO_GET_STATUS |-> Row({}, {}, Quote, Topic),
     LIGHT_SET_BRIGHTNESS |-> Row(Lamp, Lamp, Quote, Untold),
     LIGHT_GET_BRIGHTNESS |-> Row({}, {}, Quote, Topic),
     CAMERA_STREAMING_CONTROL |-> Row({"main_process"}, {}, Quote, Topic),
     MODBUS_SET_PARAMS |-> Row({"ios_modbusSetParams"}, {"ios_modbusSetParams"}, Quote, Untold),
     MODBUS_GET_PARAMS |-> Row({}, {}, {"ios_modbusSetParams"}, Untold),
     TRIGGER_SET_MODE |-> Row(Trigger, Trigger, Quote, Untold),
     REPORT_TEST_RESULT |-> Row({"Process_Node"}, {}, Quote, Untold),
     AUTO_TEST_SET_MODE |-> Row({"Process_Node"}, Topic, Quote, Topic),
     IO_RTC_SET_MODE |-> Row({"ios_rtc"}, {"ios_rtc"}, {}, Topic),
     IO_SYS_GET_PARAMS |-> Row({}, {}, Quote, Topic),
     IO_SHOP_FLOOR_CONTROL |-> Row({"ios_sfc"}, {"ios_sfc"}, Quote \cup {"ios_sfc"}, Topic)]

(* A command of the cameras, which is not for the io thread, sets the      *)
(* camera of the topic all the same.                                       *)
AllKinds == DOMAIN gIO_AlgoParamReg \cup {"camera"}

(* What is assumed of the constants; MCSharedData asserts it. *)
KindsAssumption == Kinds \subseteq AllKinds
MessagesAssumption == MaxMessages \in Nat

-----------------------------------------------------------------------------
VARIABLES
    n,        \* messages arrived
    kind,     \* per message: its command
    topic,    \* per message: the camera of its topic
    cb,       \* the callback: where it stands with message n
    global,   \* per global: the message its value came with, 0 initially
    queue,    \* IO_JsonQ
    io,       \* the io thread: where it stands
    cur,      \* the message it has taken
    alone     \* history: messages with no other between their arrival and their end

vars == <<n, kind, topic, cb, global, queue, io, cur, alone>>

TypeOK ==
    /\ n \in 0 .. MaxMessages
    /\ kind \in [1 .. n -> AllKinds] /\ topic \in [1 .. n -> Cameras]
    /\ cb \in {"ready", "parse", "quote", "enqueue"}
    /\ global \in [Globals -> 0 .. n]
    /\ queue \in Seq(1 .. n)
    /\ io \in {"drain", "perform", "answer", "publish"}
    /\ cur \in 0 .. n
    /\ alone \subseteq 1 .. n

Init ==
    /\ n = 0
    /\ kind = << >> /\ topic = << >>
    /\ cb = "ready"
    /\ global = [g \in Globals |-> 0]
    /\ queue = << >>
    /\ io = "drain"
    /\ cur = 0
    /\ alone = {}

Command(m) == gIO_AlgoParamReg[kind[m]]
Quiet == cb = "ready" /\ queue = << >> /\ io = "drain"

-----------------------------------------------------------------------------
(* Mutant: the camera is set for the commands of the cameras only. *)
ArriveSilent(k, t) ==
    /\ cb = "ready" /\ n < MaxMessages
    /\ n' = n + 1
    /\ kind' = Append(kind, k) /\ topic' = Append(topic, t)
    /\ global' = IF k = "camera" THEN [global EXCEPT !["ios_cameraid"] = n + 1] ELSE global
    /\ cb' = IF k = "camera" THEN "ready" ELSE "parse"
    /\ alone' = IF Quiet THEN alone \cup {n + 1} ELSE alone \ ({cur} \cup {n})
    /\ UNCHANGED <<queue, io, cur>>

(* A message arrives: its topic gives the camera.                          *)
Arrive(k, t) ==
    /\ cb = "ready" /\ n < MaxMessages
    /\ n' = n + 1
    /\ kind' = Append(kind, k) /\ topic' = Append(topic, t)
    /\ global' = [global EXCEPT !["ios_cameraid"] = n + 1]
    /\ cb' = IF k = "camera" THEN "ready" ELSE "parse"
    /\ alone' = IF Quiet THEN alone \cup {n + 1} ELSE alone \ ({cur} \cup {n})
    /\ UNCHANGED <<queue, io, cur>>

(* Its parser assigns the arguments...                                     *)
Parse ==
    /\ cb = "parse"
    /\ global' = [g \in Globals |-> IF g \in Command(n).parse THEN n ELSE global[g]]
    /\ cb' = "quote"
    /\ UNCHANGED <<n, kind, topic, queue, io, cur, alone>>

(* ...and keeps their text.                                                *)
KeepText ==
    /\ cb = "quote"
    /\ global' = [global EXCEPT !["ios_CmdInfo"] = n]
    /\ cb' = "enqueue"
    /\ UNCHANGED <<n, kind, topic, queue, io, cur, alone>>

(* The command is queued.                                                  *)
EnQ ==
    /\ cb = "enqueue"
    /\ queue' = Append(queue, n)
    /\ cb' = "ready"
    /\ UNCHANGED <<n, kind, topic, global, io, cur, alone>>

(* The io thread takes the oldest command.                                 *)
DeQ ==
    /\ io = "drain" /\ queue # << >>
    /\ cur' = Head(queue)
    /\ queue' = Tail(queue)
    /\ io' = "perform"
    /\ UNCHANGED <<n, kind, topic, cb, global, alone>>

(* It performs it, with the structures as they are.                        *)
Perform ==
    /\ io = "perform"
    /\ global' = [g \in Globals |-> IF g \in Command(cur).assigns
                                    THEN global[Command(cur).from] ELSE global[g]]
    /\ io' = "answer"
    /\ UNCHANGED <<n, kind, topic, cb, queue, cur, alone>>

(* It writes the answer...                                                 *)
Answer ==
    /\ io = "answer"
    /\ io' = "publish"
    /\ UNCHANGED <<n, kind, topic, cb, global, queue, cur, alone>>

(* ...and publishes it, unless the command's answer is not told.           *)
Publish ==
    /\ io = "publish"
    /\ io' = "drain"
    /\ UNCHANGED <<n, kind, topic, cb, global, queue, cur, alone>>

Callback == (\E k \in Kinds, t \in Cameras : Arrive(k, t)) \/ Parse \/ KeepText \/ EnQ
ios_process == DeQ \/ Perform \/ Answer \/ Publish

Next == Callback \/ ios_process
Spec == Init /\ [][Next]_vars

-----------------------------------------------------------------------------
(* What the io thread is about to read.                                    *)
Reads ==
    CASE io = "drain" -> {}
      [] io = "perform" -> Command(cur).perform
      [] io = "answer" -> Command(cur).answer
      [] io = "publish" -> Command(cur).publish

(* A value of the message itself, or a camera that is its own.  What was   *)
(* stored by an earlier command (MODBUS_GET_PARAMS asks for it) is not an  *)
(* argument.                                                               *)
IsOwn(g) ==
    IF g = "ios_cameraid"
    THEN global[g] > 0 /\ topic[global[g]] = topic[cur]
    ELSE global[g] = cur \/ kind[cur] = "MODBUS_GET_PARAMS"

(* A command that no other message met is performed with its own values,   *)
(* its answer quotes its own text and goes to its own camera.              *)
AloneIsOwn == cur \in alone => \A g \in Reads : IsOwn(g)

(* A structure read for a command never holds less recent values than the  *)
(* command's: later messages may overwrite them, nothing brings back       *)
(* earlier ones.                                                           *)
NotOlder == \A g \in Reads : IsOwn(g) \/ global[g] > cur

(* A command is performed with the arguments of its own message.           *)
PerformedAsAsked == io = "perform" => \A g \in Reads : IsOwn(g)

(* An answer quotes the text of the command it answers.                    *)
AnswerQuotes == (io = "answer" /\ "ios_CmdInfo" \in Reads) => IsOwn("ios_CmdInfo")
=============================================================================
