--------------------------- MODULE SharedData_proofs ---------------------------
(***************************************************************************)
(* What holds of the values that follow their ways through shared          *)
(* structures, for any number of threads, cameras, runs and messages: of   *)
(* the image-processing library, of an io command, of an ordinary command  *)
(* and of a replayed recipe.                                               *)
(***************************************************************************)
EXTENDS MCSharedData, TLAPS

-----------------------------------------------------------------------------
(* The image-processing library, for any vbs_ function but the calibration:*)
(* MeasureLibrary.                                                         *)

(* Which tool a function drives, and that "none" names no function.        *)
LEMMA ToolsOfFunctions ==
  ASSUME NEW m \in DOMAIN Vbs
  PROVE  /\ Tool(m) \in Tools
         /\ m # "none"
         /\ Tool(m) = "calibration" => m = "calibration"
BY DEF Tool, Tools, Vbs, Row, vbs_Align_ImageCalibration, vbs_Align_PatternMatch,
       vbs_Align_FindProfile, vbs_Align_DetectCircle, vbs_InspectBox_Annulus, vbs_InspectBox_Rect,
       vbs_InspectBox_Circle, vbs_InspectBox_CoordCalculate, vbs_InspectBox_CropImg_Annulus,
       vbs_InspectBox_CropImg_Rect, vbs_InspectBox_CropImg_Circle, vbs_Histogram_Annulus,
       vbs_Histogram_Rect, vbs_Histogram_Circle, vbs_Threshold, vbs_Morphology, vbs_NoiseRemoval,
       vbs_DataAugmentation, vbs_GlueWidth_Measure_Annulus, vbs_GlueWidth_Measure_Rect

(* The parts of the type invariant that are needed, and the kept call and  *)
(* function of every call in progress.                                     *)
LibraryType ==
  /\ kept \in [Tools -> Nat] /\ form \in [Tools -> Methods \cup {"none"}]
  /\ found \in [Tools -> [args : Nat, image : Nat]] /\ match \in [args : Nat, image : Nat]
  /\ calls \in Nat
  /\ at \in [Workers -> {"idle", "set", "test", "get"}]
  /\ call \in [Workers -> [no : Nat, method : Methods \cup {"none"},
                            input : Inputs \cup {"none"}]]
  /\ alone \in [Workers -> BOOLEAN]
  /\ back \in [Workers -> [ok : BOOLEAN, from : [args : Nat, image : Nat], no : Nat,
                           input : Inputs \cup {"none"}, alone : BOOLEAN]]
  /\ \A w \in Workers : at[w] # "idle" => call[w].method \in Methods /\ call[w].no # None

(* A call with good arguments that has its tool for itself finds its own   *)
(* arguments in the members when it computes, and its own result there     *)
(* when it copies it out.                                                  *)
Good(w) == alone[w] /\ call[w].input = "good"
Holds(w) ==
  LET t == Tool(call[w].method) IN
  /\ at[w] = "test" /\ Good(w) => kept[t] = call[w].no /\ form[t] = call[w].method
  /\ at[w] = "get" /\ Good(w) => found[t] = OwnOrigin(call[w].no)

LibraryInv == LibraryType /\ (\A w \in Workers : Holds(w)) /\ UndisturbedIsOwn

LEMMA LibraryInitial == Init => LibraryInv
BY DEF Init, LibraryInv, LibraryType, Holds, UndisturbedIsOwn, Cleared, NoReturn, None

LEMMA LibraryTypeInductive == LibraryType /\ [Next]_vars => LibraryType'
<1> SUFFICES ASSUME LibraryType, [Next]_vars PROVE LibraryType'
  OBVIOUS
<1> USE MethodsAssumption DEF LibraryType
<1>1. ASSUME NEW w \in Workers, Enter(w) PROVE LibraryType'
  <2>1. PICK m \in Methods, i \in Inputs :
           /\ call' = [call EXCEPT ![w] = [no |-> calls + 1, method |-> m, input |-> i]]
           /\ \/ back' = [back EXCEPT ![w] = [ok |-> FALSE, from |-> Cleared, no |-> calls + 1,
                                             input |-> i, alone |-> TRUE]] /\ UNCHANGED at
              \/ at' = [at EXCEPT ![w] = "set"] /\ UNCHANGED back
    BY <1>1 DEF Enter
  <2>2. Cleared \in [args : Nat, image : Nat] /\ calls + 1 \in Nat /\ at[w] = "idle"
    BY <1>1 DEF Enter, Cleared, None
  <2>3. call' \in [Workers -> [no : Nat, method : Methods \cup {"none"},
                               input : Inputs \cup {"none"}]]
    BY <2>1, <2>2
  <2>4. back' \in [Workers -> [ok : BOOLEAN, from : [args : Nat, image : Nat], no : Nat,
                               input : Inputs \cup {"none"}, alone : BOOLEAN]]
    <3>1. [ok |-> FALSE, from |-> Cleared, no |-> calls + 1, input |-> i, alone |-> TRUE]
            \in [ok : BOOLEAN, from : [args : Nat, image : Nat], no : Nat,
                 input : Inputs \cup {"none"}, alone : BOOLEAN]
      BY <2>2
    <3> QED
      BY <2>1, <3>1
  <2>5. at' \in [Workers -> {"idle", "set", "test", "get"}]
    BY <2>1
  <2>6. \A v \in Workers :
          at'[v] # "idle" => call'[v].method \in Methods /\ call'[v].no # None
    BY <2>1, <2>2 DEF None
  <2>7. /\ kept' = kept /\ form' = form /\ found' = found /\ match' = match /\ calls' \in Nat
        /\ alone' \in [Workers -> BOOLEAN]
    BY <1>1 DEF Enter
  <2> QED
    BY <2>3, <2>4, <2>5, <2>6, <2>7
<1>2. ASSUME NEW w \in Workers, SetParameter(w) PROVE LibraryType'
  <2> DEFINE m == call[w].method
             i == call[w].input
             t == Tool(m)
  <2>1. m \in Methods /\ t \in Tools /\ call[w].no \in Nat
    BY <1>2, ToolsOfFunctions DEF SetParameter
  <2>2. /\ Stored(m, i, call[w].no).args \in Nat
        /\ Stored(m, i, call[w].no).form \in Methods \cup {"none"}
    BY <2>1 DEF Stored, None
  <2>3. /\ kept' \in [Tools -> Nat] /\ form' \in [Tools -> Methods \cup {"none"}]
        /\ found' \in [Tools -> [args : Nat, image : Nat]]
    <3>1. CASE KeepsOld(m, i)
      BY <1>2, <3>1 DEF SetParameter
    <3>2. CASE ~KeepsOld(m, i)
      <4>1. /\ kept' = [kept EXCEPT ![t] = Stored(m, i, call[w].no).args]
            /\ form' = [form EXCEPT ![t] = Stored(m, i, call[w].no).form]
            /\ found' = found \/ found' = [found EXCEPT ![t] = Cleared]
        BY <1>2, <3>2 DEF SetParameter
      <4>2. Cleared \in [args : Nat, image : Nat]
        BY DEF Cleared, None
      <4> QED
        <5>1. kept' \in [Tools -> Nat] /\ form' \in [Tools -> Methods \cup {"none"}]
          BY <2>1, <2>2, <4>1
        <5>2. found' \in [Tools -> [args : Nat, image : Nat]]
          BY <2>1, <4>1, <4>2
        <5> QED
          BY <5>1, <5>2
    <3> QED
      BY <3>1, <3>2
  <2> QED
    BY <1>2, <2>1, <2>3 DEF SetParameter, Disturb
<1>3. ASSUME NEW w \in Workers, TestIt(w) PROVE LibraryType'
  <2> DEFINE t == Tool(call[w].method)
  <2>1. t \in Tools /\ call[w].no \in Nat
    BY <1>3, ToolsOfFunctions DEF TestIt
  <2>2. Tested(w, t) \in [args : Nat, image : Nat]
    BY <2>1 DEF Tested, Computed, Cleared, None
  <2>3. found' \in [Tools -> [args : Nat, image : Nat]]
    BY <1>3, <2>1, <2>2 DEF TestIt
  <2> QED
    BY <1>3, <2>1, <2>3 DEF TestIt, Disturb
<1>4. ASSUME NEW w \in Workers, GetResult(w) PROVE LibraryType'
  <2> DEFINE m == call[w].method
             t == Tool(m)
             b == [ok |-> Succeeds(m), from |-> Held(t), no |-> call[w].no,
                   input |-> call[w].input, alone |-> alone[w]]
  <2>1. t \in Tools
    BY <1>4, ToolsOfFunctions DEF GetResult
  <2>2. Held(t) \in [args : Nat, image : Nat]
    BY <2>1 DEF Held
  <2>3. match' \in [args : Nat, image : Nat] /\ back' = [back EXCEPT ![w] = b]
        /\ at' = [at EXCEPT ![w] = "idle"]
        /\ UNCHANGED <<kept, form, found, calls, call, alone>>
    BY <1>4, <2>2 DEF GetResult
  <2>4. b \in [ok : BOOLEAN, from : [args : Nat, image : Nat], no : Nat,
                input : Inputs \cup {"none"}, alone : BOOLEAN]
    BY <2>2 DEF Succeeds
  <2> HIDE DEF b
  <2> QED
    BY <2>3, <2>4
<1>5. CASE UNCHANGED vars
  BY <1>5 DEF vars
<1> QED
  BY <1>1, <1>2, <1>3, <1>4, <1>5 DEF Next

(* The members of a tool are set for a call, and its result is computed,   *)
(* by that call alone.                                                     *)
LEMMA LibraryInductive ==
  ASSUME "calibration" \notin Methods, LibraryInv, [Next]_vars
  PROVE  (\A w \in Workers : Holds(w))' /\ UndisturbedIsOwn'
<1> USE MethodsAssumption DEF LibraryInv
<1>t. LibraryType /\ LibraryType'
  BY LibraryTypeInductive
<1>g. ASSUME NEW w \in Workers, Enter(w)
      PROVE  (\A v \in Workers : Holds(v))' /\ UndisturbedIsOwn'
  <2>1. ASSUME NEW v \in Workers PROVE Holds(v)'
    <3>1. CASE v = w
      <4>1. at[w] = "idle" /\ at'[w] \in {"idle", "set"}
        BY <1>g, <1>t DEF Enter, LibraryType
      <4> QED
        BY <3>1, <4>1 DEF Holds
    <3>2. CASE v # w
      <4>1. UNCHANGED <<at[v], call[v], alone[v], kept, form, found>>
        BY <1>g, <3>2, <1>t DEF Enter, LibraryType
      <4> QED
        BY <4>1 DEF Holds, Good
    <3> QED
      BY <3>1, <3>2
  <2>2. UndisturbedIsOwn'
    <3>1. ASSUME NEW v \in Workers PROVE back'[v] = back[v] \/ ~back'[v].ok
      BY <1>g, <1>t DEF Enter, LibraryType
    <3> QED
      BY <3>1 DEF UndisturbedIsOwn
  <2> QED
    BY <2>1, <2>2
<1>s. ASSUME NEW w \in Workers, SetParameter(w)
      PROVE  (\A v \in Workers : Holds(v))' /\ UndisturbedIsOwn'
  <2> DEFINE m == call[w].method
             t == Tool(m)
  <2>0. m \in Methods /\ t \in Tools
    BY <1>s, <1>t, ToolsOfFunctions DEF SetParameter, LibraryType
  <2>1. ASSUME NEW v \in Workers PROVE Holds(v)'
    <3>1. CASE v = w
      <4>1. at'[w] = "test" /\ alone'[w] = alone[w] /\ call' = call
        BY <1>s, <1>t DEF SetParameter, Disturb, LibraryType
      <4>2. ASSUME call[w].input = "good"
            PROVE  kept'[t] = call[w].no /\ form'[t] = m
        BY <1>s, <1>t, <2>0, <4>2 DEF SetParameter, KeepsOld, ClearsOnly, Stored, LibraryType
      <4> QED
        BY <3>1, <4>1, <4>2 DEF Holds, Good
    <3>2. CASE v # w
      <4>1. UNCHANGED <<at[v], call>> /\ (alone'[v] => alone[v])
        BY <1>s, <1>t, <3>2 DEF SetParameter, Disturb, LibraryType
      <4>2. CASE at[v] \notin {"test", "get"}
        BY <4>1, <4>2 DEF Holds
      <4>3. CASE at[v] \in {"test", "get"} /\ Tool(call[v].method) = t
        <5>1. ~alone'[v]
          BY <1>s, <3>2, <4>3 DEF SetParameter, Disturb
        <5> QED
          BY <5>1 DEF Holds, Good
      <4>4. CASE at[v] \in {"test", "get"} /\ Tool(call[v].method) # t
        <5> DEFINE u == Tool(call[v].method)
        <5>1. u \in Tools
          BY <1>t, <4>4, ToolsOfFunctions DEF LibraryType
        <5>2. kept'[u] = kept[u] /\ form'[u] = form[u] /\ found'[u] = found[u]
          BY <1>s, <1>t, <4>4, <5>1 DEF SetParameter, LibraryType
        <5> QED
          BY <4>1, <5>2 DEF Holds, Good
      <4> QED
        BY <4>2, <4>3, <4>4
    <3> QED
      BY <3>1, <3>2
  <2>2. UndisturbedIsOwn'
    BY <1>s DEF SetParameter, UndisturbedIsOwn
  <2> QED
    BY <2>1, <2>2
<1>e. ASSUME NEW w \in Workers, TestIt(w)
      PROVE  (\A v \in Workers : Holds(v))' /\ UndisturbedIsOwn'
  <2> DEFINE m == call[w].method
             t == Tool(m)
  <2>0. m \in Methods /\ m # "none" /\ t \in Tools /\ t # "calibration"
    BY <1>e, <1>t, ToolsOfFunctions DEF TestIt, LibraryType
  <2>1. ASSUME NEW v \in Workers PROVE Holds(v)'
    <3>1. CASE v = w
      <4>1. at'[w] = "get" /\ alone'[w] = alone[w] /\ call' = call
        BY <1>e, <1>t DEF TestIt, Disturb, LibraryType
      <4>2. ASSUME Good(w)
            PROVE  found'[t] = OwnOrigin(call[w].no)
        <5>1. kept[t] = call[w].no /\ form[t] = m
          BY <1>e, <4>2 DEF TestIt, Holds
        <5>2. ~TestFails(w, t)
          BY <2>0, <4>2, <5>1 DEF TestFails, Good
        <5>3. Tested(w, t) = OwnOrigin(call[w].no)
          BY <4>2, <5>1 DEF Tested, Computed, OwnOrigin, Good
        <5> QED
          BY <1>e, <1>t, <2>0, <5>2, <5>3 DEF TestIt, LibraryType
      <4> QED
        BY <3>1, <4>1, <4>2 DEF Holds, Good
    <3>2. CASE v # w
      <4>1. UNCHANGED <<at[v], call, kept, form>> /\ (alone'[v] => alone[v])
        BY <1>e, <1>t, <3>2 DEF TestIt, Disturb, LibraryType
      <4>2. CASE at[v] # "get"
        BY <4>1, <4>2 DEF Holds, Good
      <4>3. CASE at[v] = "get" /\ Tool(call[v].method) = t
        <5>1. ~alone'[v]
          BY <1>e, <3>2, <4>3 DEF TestIt, Disturb
        <5> QED
          BY <5>1 DEF Holds, Good
      <4>4. CASE at[v] = "get" /\ Tool(call[v].method) # t
        <5> DEFINE u == Tool(call[v].method)
        <5>1. u \in Tools
          BY <1>t, <4>4, ToolsOfFunctions DEF LibraryType
        <5>2. found'[u] = found[u]
          BY <1>e, <1>t, <4>4, <5>1 DEF TestIt, LibraryType
        <5> QED
          BY <4>1, <4>4, <5>2 DEF Holds, Good
      <4> QED
        BY <4>2, <4>3, <4>4
    <3> QED
      BY <3>1, <3>2
  <2>2. UndisturbedIsOwn'
    BY <1>e DEF TestIt, UndisturbedIsOwn
  <2> QED
    BY <2>1, <2>2
<1>r. ASSUME NEW w \in Workers, GetResult(w)
      PROVE  (\A v \in Workers : Holds(v))' /\ UndisturbedIsOwn'
  <2>1. \A v \in Workers : Holds(v)'
    BY <1>r, <1>t DEF GetResult, Holds, Good, LibraryType
  <2>2. UndisturbedIsOwn'
    <3>1. call[w].no # 0
      BY <1>r, <1>t DEF GetResult, LibraryType, None
    <3>2. OwnOrigin(call[w].no) # Cleared
      BY <3>1 DEF OwnOrigin, Cleared, None
    <3>3. Good(w) => Held(Tool(call[w].method)) = OwnOrigin(call[w].no)
      BY <1>r, <3>2 DEF GetResult, Holds, Held
    <3> QED
      BY <1>r, <1>t, <3>3 DEF GetResult, Good, UndisturbedIsOwn, LibraryType
  <2> QED
    BY <2>1, <2>2
<1>u. CASE UNCHANGED vars
  BY <1>u DEF vars, Holds, Good, UndisturbedIsOwn
<1> QED
  BY <1>g, <1>s, <1>e, <1>r, <1>u DEF Next

(* However the calls of the camera threads interleave, one that nobody     *)
(* disturbed, with good arguments and the mark it looks for in its image,  *)
(* returns its own result: members that an earlier or a refused call left  *)
(* in the tools do not reach its answer.                                   *)
THEOREM UndisturbedCallsAreOwn ==
  ASSUME "calibration" \notin Methods
  PROVE  Spec => []UndisturbedIsOwn
<1>1. LibraryInv /\ [Next]_vars => LibraryInv'
  BY LibraryTypeInductive, LibraryInductive DEF LibraryInv
<1>2. LibraryInv => UndisturbedIsOwn
  BY DEF LibraryInv
<1> QED
  BY <1>1, <1>2, LibraryInitial, PTL DEF Spec
-----------------------------------------------------------------------------
(* The io commands: IosResponder. *)

(* Everything that is read for the last message is that message's.         *)
Filled ==
  /\ ioKind[ioN] \in DOMAIN Ios!gIO_AlgoParamReg
  /\ ioGlobal["ios_cameraid"] = ioN /\ ioGlobal["ios_CmdInfo"] = ioN
  /\ \A g \in Ios!Command(ioN).parse : ioGlobal[g] = ioN

(* A message that no other has met is the last one, is in one place only,  *)
(* and its structures are filled step by step.                             *)
InCallback ==
  ioCb # "ready" /\ ioN \in ioAlone =>
    /\ ioQueue = <<>> /\ ioAt = "drain"
    /\ ioKind[ioN] \in DOMAIN Ios!gIO_AlgoParamReg /\ ioGlobal["ios_cameraid"] = ioN
    /\ ioCb # "parse" => \A g \in Ios!Command(ioN).parse : ioGlobal[g] = ioN
    /\ ioCb = "enqueue" => Filled
InQueue ==
  \A i \in DOMAIN ioQueue : ioQueue[i] \in ioAlone =>
    ioQueue[i] = ioN /\ Len(ioQueue) = 1 /\ ioCb = "ready" /\ ioAt = "drain" /\ Filled
InHand ==
  ioAt # "drain" /\ ioCur \in ioAlone =>
    ioCur = ioN /\ ioQueue = <<>> /\ ioCb = "ready" /\ Filled

IoType ==
  /\ ioN \in Nat /\ ioKind \in Seq(Ios!AllKinds) /\ Len(ioKind) = ioN
  /\ ioTopic \in Seq(Ios!Cameras) /\ Len(ioTopic) = ioN
  /\ ioGlobal = [g \in Ios!Globals |-> ioGlobal[g]] /\ ioQueue \in Seq(Nat)
  /\ ioAlone \subseteq 1 .. ioN
  /\ ioCb \in {"ready", "parse", "quote", "enqueue"}
  /\ ioAt \in {"drain", "perform", "answer", "publish"}

IoInv == IoType /\ InCallback /\ InQueue /\ InHand

(* What is read for a command is what its parser assigns, its text and its *)
(* camera; MODBUS_GET_PARAMS, which tells what an earlier one has stored,  *)
(* is the exception.                                                       *)
LEMMA IoRows ==
  ASSUME NEW k \in DOMAIN Ios!gIO_AlgoParamReg
  PROVE  LET r == Ios!gIO_AlgoParamReg[k] IN
         /\ k # "camera"
         /\ r.parse \subseteq Ios!Structures
         /\ r.perform \subseteq r.parse \cup {"ios_cameraid"}
         /\ r.publish \subseteq r.parse \cup {"ios_cameraid"}
         /\ k # "MODBUS_GET_PARAMS" => r.answer \subseteq r.parse \cup {"ios_CmdInfo"}
         /\ "ios_cameraid" \notin r.answer
         /\ r.assigns # {} => r.from \in r.parse
<1>a. ASSUME NEW p, NEW q, NEW a, NEW b, NEW g, NEW f
      PROVE  LET r == Ios!Assigning(Ios!Row(p, q, a, b), g, f) IN
             /\ r.parse = p /\ r.perform = q /\ r.answer = a /\ r.publish = b
             /\ r.assigns = g /\ r.from = f
  BY DEF Ios!Row, Ios!Assigning
<1> USE DEF Ios!gIO_AlgoParamReg, Ios!Row, Ios!Trigger, Ios!Light, Ios!Lamp, Ios!Led,
            Ios!Quote, Ios!Topic, Ios!Untold, Ios!Structures
<1>1. CASE k = "TRIGGER_SET_PROCESS"
  BY <1>1
<1>2. CASE k = "TRIGGER_GET_PROCESS"
  BY <1>2
<1>3. CASE k = "DIN_SET_PROCESS"
  BY <1>3
<1>4. CASE k = "DIN_GET_PROCESS"
  BY <1>4
<1>5. CASE k = "IOS_GET_STATUS"
  BY <1>5
<1>6. CASE k = "LIGHT_SET_PWM"
  BY <1>6
<1>7. CASE k = "LIGHT_GET_PWM"
  BY <1>7
<1>8. CASE k = "LED_SET_PROCESS"
  BY <1>8
<1>9. CASE k = "LED_GET_PROCESS"
  BY <1>9
<1>10. CASE k = "LED_SET_MODE"
  <2> HIDE DEF Ios!Row
  <2>1. Ios!gIO_AlgoParamReg[k] =
          Ios!Assigning(Ios!Row({"ios_setLedMode"}, {"ios_setLedMode"}, Ios!Quote, Ios!Topic),
                        Ios!Led, "ios_setLedMode")
    BY <1>10
  <2> HIDE DEF Ios!gIO_AlgoParamReg
  <2> QED
    BY <1>10, <1>a, <2>1
<1>11. CASE k = "DIN_SET_MODE"
  <2> HIDE DEF Ios!Row
  <2>1. Ios!gIO_AlgoParamReg[k] =
          Ios!Assigning(Ios!Row({"ios_setDinMode"}, {"ios_setDinMode"}, Ios!Quote, Ios!Topic),
                        {"ios_di.inPin", "ios_di.inMode"}, "ios_setDinMode")
    BY <1>11
  <2> HIDE DEF Ios!gIO_AlgoParamReg
  <2> QED
    BY <1>11, <1>a, <2>1
<1>12. CASE k = "DOUT_SET_MODE"
  BY <1>12
<1>13. CASE k = "DOUT_MANUAL_CONTROL"
  BY <1>13
<1>14. CASE k = "DIO_GET_STATUS"
  BY <1>14
<1>15. CASE k = "LIGHT_SET_BRIGHTNESS"
  BY <1>15
<1>16. CASE k = "LIGHT_GET_BRIGHTNESS"
  BY <1>16
<1>17. CASE k = "CAMERA_STREAMING_CONTROL"
  BY <1>17
<1>18. CASE k = "MODBUS_SET_PARAMS"
  BY <1>18
<1>19. CASE k = "MODBUS_GET_PARAMS"
  BY <1>19
<1>20. CASE k = "TRIGGER_SET_MODE"
  BY <1>20
<1>21. CASE k = "REPORT_TEST_RESULT"
  BY <1>21
<1>22. CASE k = "AUTO_TEST_SET_MODE"
  BY <1>22
<1>23. CASE k = "IO_RTC_SET_MODE"
  BY <1>23
<1>24. CASE k = "IO_SYS_GET_PARAMS"
  BY <1>24
<1>25. CASE k = "IO_SHOP_FLOOR_CONTROL"
  BY <1>25
<1> QED
  BY <1>1, <1>2, <1>3, <1>4, <1>5, <1>6, <1>7, <1>8, <1>9, <1>10, <1>11, <1>12, <1>13,
     <1>14, <1>15, <1>16, <1>17, <1>18, <1>19, <1>20, <1>21, <1>22, <1>23, <1>24,
     <1>25 DEF Ios!gIO_AlgoParamReg

LEMMA IoInitial == AllInit => IoInv
BY DEF AllInit, Ios!Init, IoInv, IoType, InCallback, InQueue, InHand

LEMMA IoSteps ==
  [AllNext]_<<machine, vars, replayVars, commandVars, ioVars>> => [Ios!Next]_ioVars
BY DEF AllNext, L, R, C, I, Ios!Next, Ios!Callback, Ios!ios_process

LEMMA IoTypeInductive == IoType /\ [Ios!Next]_ioVars => IoType'
<1> SUFFICES ASSUME IoType, [Ios!Next]_ioVars PROVE IoType'
  OBVIOUS
<1> USE DEF IoType
<1>k. IoKinds \subseteq Ios!AllKinds
  BY IoAssumption DEF Ios!KindsAssumption
<1>1. ASSUME NEW k \in IoKinds, NEW t \in Ios!Cameras, Ios!Arrive(k, t) PROVE IoType'
  <2>1. /\ ioN' = ioN + 1 /\ ioKind' = Append(ioKind, k) /\ ioTopic' = Append(ioTopic, t)
        /\ ioGlobal' = [ioGlobal EXCEPT !["ios_cameraid"] = ioN + 1]
        /\ ioCb' \in {"ready", "parse"} /\ UNCHANGED <<ioQueue, ioAt, ioCur>>
    BY <1>1 DEF Ios!Arrive
  <2>2. ioAlone' \subseteq 1 .. ioN + 1
    BY <1>1 DEF Ios!Arrive
  <2>3. ioKind' \in Seq(Ios!AllKinds) /\ Len(ioKind') = ioN + 1
    BY <1>k, <2>1
  <2>4. ioTopic' \in Seq(Ios!Cameras) /\ Len(ioTopic') = ioN + 1
    BY <2>1
  <2>5. ioGlobal' = [g \in Ios!Globals |-> ioGlobal'[g]]
    BY <2>1
  <2> QED
    BY <2>1, <2>2, <2>3, <2>4, <2>5
<1>2. CASE Ios!Parse
  BY <1>2 DEF Ios!Parse
<1>3. CASE Ios!KeepText
  BY <1>3 DEF Ios!KeepText
<1>4. CASE Ios!EnQ
  BY <1>4 DEF Ios!EnQ
<1>5. CASE Ios!DeQ
  BY <1>5 DEF Ios!DeQ
<1>6. CASE Ios!Perform
  <2>1. /\ ioGlobal' = [g \in Ios!Globals |-> IF g \in Ios!Command(ioCur).assigns
                                              THEN ioGlobal[Ios!Command(ioCur).from] ELSE ioGlobal[g]]
        /\ ioAt' = "answer" /\ UNCHANGED <<ioN, ioKind, ioTopic, ioCb, ioQueue, ioCur, ioAlone>>
    BY <1>6 DEF Ios!Perform
  <2> QED
    BY <2>1
<1>7. CASE Ios!Answer \/ Ios!Publish
  BY <1>7 DEF Ios!Answer, Ios!Publish
<1>8. CASE UNCHANGED ioVars
  BY <1>8 DEF ioVars
<1> QED
  BY <1>1, <1>2, <1>3, <1>4, <1>5, <1>6, <1>7, <1>8 DEF Ios!Next, Ios!Callback, Ios!ios_process

(* Where one message stands matters to the next one that arrives only in   *)
(* that it has left; until then every step keeps it by itself.             *)
LEMMA IoAloneInductive == IoInv /\ [Ios!Next]_ioVars => (InCallback /\ InQueue /\ InHand)'
<1> SUFFICES ASSUME IoInv, [Ios!Next]_ioVars PROVE (InCallback /\ InQueue /\ InHand)'
  OBVIOUS
<1> USE DEF IoInv
<1>t. /\ ioN \in Nat /\ ioKind \in Seq(Ios!AllKinds) /\ Len(ioKind) = ioN
      /\ ioGlobal = [g \in Ios!Globals |-> ioGlobal[g]] /\ ioQueue \in Seq(Nat)
      /\ ioAlone \subseteq 1 .. ioN
  BY DEF IoType
<1>g. /\ "ios_cameraid" \in Ios!Globals /\ "ios_CmdInfo" \in Ios!Globals
      /\ "ios_cameraid" \notin Ios!Structures /\ "ios_CmdInfo" \notin Ios!Structures
      /\ Ios!Structures \subseteq Ios!Globals
  BY DEF Ios!Globals, Ios!Structures
<1>p. ASSUME ioKind[ioN] \in DOMAIN Ios!gIO_AlgoParamReg
      PROVE  Ios!Command(ioN).parse \subseteq Ios!Structures
  BY <1>p, IoRows DEF Ios!Command
<1>1. ASSUME NEW k \in IoKinds, NEW c \in Ios!Cameras, Ios!Arrive(k, c)
      PROVE  (InCallback /\ InQueue /\ InHand)'
  <2>1. /\ ioCb = "ready" /\ ioN' = ioN + 1 /\ ioKind' = Append(ioKind, k)
        /\ ioGlobal' = [ioGlobal EXCEPT !["ios_cameraid"] = ioN + 1]
        /\ ioCb' = (IF k = "camera" THEN "ready" ELSE "parse")
        /\ ioAlone' = (IF Ios!Quiet THEN ioAlone \cup {ioN + 1} ELSE ioAlone \ ({ioCur} \cup {ioN}))
        /\ UNCHANGED <<ioQueue, ioAt, ioCur>>
    BY <1>1 DEF Ios!Arrive
  <2>2. ioKind'[ioN + 1] = k /\ ioGlobal'["ios_cameraid"] = ioN + 1
    BY <1>t, <1>g, <2>1
  <2>3. k # "camera" => k \in DOMAIN Ios!gIO_AlgoParamReg
    BY IoAssumption DEF Ios!KindsAssumption, Ios!AllKinds
  <2>4. ioN + 1 \in ioAlone' => ioQueue = <<>> /\ ioAt = "drain"
    <3>1. ioN + 1 \notin ioAlone
      BY <1>t
    <3> QED
      BY <2>1, <3>1 DEF Ios!Quiet
  <2>5. InCallback'
    BY <2>1, <2>2, <2>3, <2>4 DEF InCallback
  <2>6. InQueue'
    <3>1. ASSUME NEW i \in DOMAIN ioQueue, ioQueue[i] \in ioAlone' PROVE FALSE
      <4>1. ioQueue # <<>>
        BY <3>1
      <4>2. ioQueue[i] \in ioAlone /\ ioQueue[i] # ioN
        BY <2>1, <3>1, <4>1 DEF Ios!Quiet
      <4> QED
        BY <4>2 DEF InQueue
    <3> QED
      BY <2>1, <3>1 DEF InQueue
  <2>7. InHand'
    BY <2>1 DEF InHand, Ios!Quiet
  <2> QED
    BY <2>5, <2>6, <2>7
<1>2. CASE Ios!Parse
  <2>1. /\ ioCb = "parse" /\ ioCb' = "quote" /\ UNCHANGED <<ioN, ioKind, ioQueue, ioAt, ioCur, ioAlone>>
        /\ ioGlobal' = [g \in Ios!Globals |-> IF g \in Ios!Command(ioN).parse THEN ioN ELSE ioGlobal[g]]
    BY <1>2 DEF Ios!Parse
  <2>2. Ios!Command(ioN)' = Ios!Command(ioN)
    BY <2>1 DEF Ios!Command
  <2>3. InCallback'
    <3> SUFFICES ASSUME ioN \in ioAlone PROVE InCallback'
      BY <2>1 DEF InCallback
    <3>1. /\ ioQueue = <<>> /\ ioAt = "drain" /\ ioGlobal["ios_cameraid"] = ioN
          /\ ioKind[ioN] \in DOMAIN Ios!gIO_AlgoParamReg
      BY <2>1 DEF InCallback
    <3>2. ioGlobal'["ios_cameraid"] = ioN
      BY <1>g, <2>1, <3>1
    <3>3. \A g \in Ios!Command(ioN).parse : ioGlobal'[g] = ioN
      BY <1>g, <1>p, <2>1, <3>1
    <3> QED
      BY <2>1, <2>2, <3>1, <3>2, <3>3 DEF InCallback
  <2>4. InQueue' /\ InHand'
    BY <2>1 DEF InQueue, InHand
  <2> QED
    BY <2>3, <2>4
<1>3. CASE Ios!KeepText
  <2>1. /\ ioCb = "quote" /\ ioCb' = "enqueue" /\ UNCHANGED <<ioN, ioKind, ioQueue, ioAt, ioCur, ioAlone>>
        /\ ioGlobal' = [ioGlobal EXCEPT !["ios_CmdInfo"] = ioN]
    BY <1>3 DEF Ios!KeepText
  <2>2. Ios!Command(ioN)' = Ios!Command(ioN)
    BY <2>1 DEF Ios!Command
  <2>3. InCallback'
    <3> SUFFICES ASSUME ioN \in ioAlone PROVE InCallback'
      BY <2>1 DEF InCallback
    <3>1. /\ ioQueue = <<>> /\ ioAt = "drain" /\ ioGlobal["ios_cameraid"] = ioN
          /\ ioKind[ioN] \in DOMAIN Ios!gIO_AlgoParamReg
          /\ \A g \in Ios!Command(ioN).parse : ioGlobal[g] = ioN
      BY <2>1 DEF InCallback
    <3>2. \A g \in Ios!Globals : ioGlobal'[g] = IF g = "ios_CmdInfo" THEN ioN ELSE ioGlobal[g]
      BY <1>t, <2>1
    <3>3. ioGlobal'["ios_cameraid"] = ioN /\ ioGlobal'["ios_CmdInfo"] = ioN
      BY <1>g, <3>1, <3>2
    <3>4. \A g \in Ios!Command(ioN).parse : ioGlobal'[g] = ioN
      BY <1>g, <1>p, <3>1, <3>2
    <3> QED
      BY <2>1, <2>2, <3>1, <3>3, <3>4 DEF InCallback, Filled
  <2>4. InQueue' /\ InHand'
    BY <2>1 DEF InQueue, InHand
  <2> QED
    BY <2>3, <2>4
<1>4. CASE Ios!EnQ
  <2>1. /\ ioCb = "enqueue" /\ ioCb' = "ready" /\ ioQueue' = Append(ioQueue, ioN)
        /\ UNCHANGED <<ioN, ioKind, ioGlobal, ioAt, ioCur, ioAlone>>
    BY <1>4 DEF Ios!EnQ
  <2>2. Filled' <=> Filled
    BY <2>1 DEF Filled, Ios!Command
  <2>3. InCallback' /\ InHand'
    BY <2>1 DEF InCallback, InHand
  <2>4. InQueue'
    <3>1. \A i \in DOMAIN ioQueue : ioQueue[i] \notin ioAlone
      BY <2>1 DEF InQueue
    <3>2. ioN \in ioAlone => ioQueue = <<>> /\ ioAt = "drain" /\ Filled
      BY <2>1 DEF InCallback
    <3>3. /\ Len(ioQueue) \in Nat /\ DOMAIN ioQueue' = 1 .. Len(ioQueue) + 1
          /\ Len(ioQueue') = Len(ioQueue) + 1
          /\ \A i \in DOMAIN ioQueue : ioQueue'[i] = ioQueue[i]
          /\ ioQueue'[Len(ioQueue) + 1] = ioN
      BY <1>t, <2>1
    <3>4. ASSUME NEW i \in DOMAIN ioQueue', ioQueue'[i] \in ioAlone'
          PROVE  ioQueue'[i] = ioN' /\ Len(ioQueue') = 1 /\ ioCb' = "ready" /\ ioAt' = "drain" /\ Filled'
      <4>1. i = Len(ioQueue) + 1
        BY <1>t, <2>1, <3>1, <3>3, <3>4
      <4>2. ioN \in ioAlone
        BY <2>1, <3>3, <3>4, <4>1
      <4> QED
        BY <2>1, <2>2, <3>2, <3>3, <4>1, <4>2
    <3> QED
      BY <3>4 DEF InQueue
  <2> QED
    BY <2>3, <2>4
<1>5. CASE Ios!DeQ
  <2>1. /\ ioAt = "drain" /\ ioAt' = "perform" /\ ioQueue # <<>>
        /\ ioCur' = Head(ioQueue) /\ ioQueue' = Tail(ioQueue)
        /\ UNCHANGED <<ioN, ioKind, ioCb, ioGlobal, ioAlone>>
    BY <1>5 DEF Ios!DeQ
  <2>2. Filled' <=> Filled
    BY <2>1 DEF Filled, Ios!Command
  <2>3. 1 \in DOMAIN ioQueue /\ ioCur' = ioQueue[1]
    BY <1>t, <2>1
  <2>4. InCallback'
    BY <2>1 DEF InCallback
  <2>5. InHand'
    <3>1. ioCur' \in ioAlone => ioCur' = ioN /\ Len(ioQueue) = 1 /\ ioCb = "ready" /\ Filled
      BY <2>3 DEF InQueue
    <3>2. Len(ioQueue) = 1 => ioQueue' = <<>>
      BY <1>t, <2>1
    <3> QED
      BY <2>1, <2>2, <3>1, <3>2 DEF InHand
  <2>6. InQueue'
    <3>1. ASSUME NEW i \in DOMAIN ioQueue', ioQueue'[i] \in ioAlone PROVE FALSE
      <4>1. i + 1 \in DOMAIN ioQueue /\ ioQueue[i + 1] = ioQueue'[i] /\ Len(ioQueue) # 1
        BY <1>t, <2>1, <3>1
      <4> QED
        BY <3>1, <4>1 DEF InQueue
    <3> QED
      BY <2>1, <3>1 DEF InQueue
  <2> QED
    BY <2>4, <2>5, <2>6
<1>6. CASE Ios!Perform
  <2>1. /\ ioAt = "perform" /\ ioAt' = "answer"
        /\ ioGlobal' = [g \in Ios!Globals |-> IF g \in Ios!Command(ioCur).assigns
                                              THEN ioGlobal[Ios!Command(ioCur).from] ELSE ioGlobal[g]]
        /\ UNCHANGED <<ioN, ioKind, ioCb, ioQueue, ioCur, ioAlone>>
    BY <1>6 DEF Ios!Perform
  <2>2. InCallback' /\ InQueue'
    BY <2>1 DEF InCallback, InQueue
  <2>3. InHand'
    <3> SUFFICES ASSUME ioCur \in ioAlone PROVE InHand'
      BY <2>1 DEF InHand
    <3>1. ioCur = ioN /\ ioQueue = <<>> /\ ioCb = "ready" /\ Filled
      BY <2>1 DEF InHand
    <3>2. Ios!Command(ioN).assigns # {} => ioGlobal[Ios!Command(ioN).from] = ioN
      BY <3>1, IoRows DEF Filled, Ios!Command
    <3>3. \A g \in Ios!Globals : ioGlobal'[g] = ioGlobal[g] \/ ioGlobal'[g] = ioN
      BY <2>1, <3>1, <3>2
    <3>4. Ios!Command(ioN).parse \subseteq Ios!Globals
      BY <1>g, <1>p, <3>1 DEF Filled
    <3>5. Filled'
      <4>1. ioGlobal'["ios_cameraid"] = ioN /\ ioGlobal'["ios_CmdInfo"] = ioN
        BY <1>g, <3>1, <3>3 DEF Filled
      <4>2. \A g \in Ios!Command(ioN).parse : ioGlobal'[g] = ioN
        BY <3>1, <3>3, <3>4 DEF Filled
      <4> QED
        BY <2>1, <3>1, <4>1, <4>2 DEF Filled, Ios!Command
    <3> QED
      BY <2>1, <3>1, <3>5 DEF InHand
  <2> QED
    BY <2>2, <2>3
<1>7. CASE Ios!Answer \/ Ios!Publish
  <2>1. /\ ioAt # "drain" /\ UNCHANGED <<ioN, ioKind, ioCb, ioGlobal, ioQueue, ioCur, ioAlone>>
    BY <1>7 DEF Ios!Answer, Ios!Publish
  <2>2. Filled' <=> Filled
    BY <2>1 DEF Filled, Ios!Command
  <2> QED
    BY <2>1, <2>2 DEF InCallback, InQueue, InHand
<1>8. CASE UNCHANGED ioVars
  <2>1. Filled' <=> Filled
    BY <1>8 DEF Filled, Ios!Command, ioVars
  <2> QED
    BY <1>8, <2>1 DEF ioVars, InCallback, InQueue, InHand, Ios!Command
<1> QED
  BY <1>1, <1>2, <1>3, <1>4, <1>5, <1>6, <1>7, <1>8 DEF Ios!Next, Ios!Callback, Ios!ios_process

(* An io command that no other message meets on its way is performed with  *)
(* its own values, quotes its own text and goes to its own camera, for any *)
(* commands and any number of messages, although only its number is queued *)
(* and the structures are shared by all.                                   *)
THEOREM IoCommandsAreOwn == AllSpec => []IoAloneIsOwn
<1>1. IoInv => IoAloneIsOwn
  <2> SUFFICES ASSUME IoInv, ioCur \in ioAlone, NEW g \in Ios!Reads PROVE Ios!IsOwn(g)
    BY DEF IoAloneIsOwn, Ios!AloneIsOwn
  <2> USE DEF IoInv
  <2> DEFINE r == Ios!gIO_AlgoParamReg[ioKind[ioCur]]
  <2>1. ioAt \in {"perform", "answer", "publish"}
    BY DEF IoType, Ios!Reads
  <2>2. ioCur = ioN /\ Filled /\ ioN \in 1 .. ioN
    BY <2>1 DEF InHand, IoType
  <2>3. ioKind[ioCur] \in DOMAIN Ios!gIO_AlgoParamReg /\ r = Ios!Command(ioCur)
    BY <2>2 DEF Filled, Ios!Command
  <2>4. g \in r.perform \cup r.answer \cup r.publish
    BY <2>1, <2>3 DEF Ios!Reads
  <2>5. /\ r.perform \subseteq r.parse \cup {"ios_cameraid"}
        /\ r.publish \subseteq r.parse \cup {"ios_cameraid"}
        /\ ioKind[ioCur] # "MODBUS_GET_PARAMS" => r.answer \subseteq r.parse \cup {"ios_CmdInfo"}
        /\ "ios_cameraid" \notin r.answer
    BY <2>3, IoRows
  <2>6. ioGlobal["ios_cameraid"] = ioN /\ ioGlobal["ios_CmdInfo"] = ioN /\ \A h \in r.parse : ioGlobal[h] = ioN
    BY <2>2, <2>3 DEF Filled
  <2> HIDE DEF r
  <2>7. CASE g = "ios_cameraid"
    <3>1. ioN > 0
      BY <2>2 DEF IoType
    <3> QED
      BY <2>2, <2>6, <2>7, <3>1 DEF Ios!IsOwn
  <2>8. CASE g # "ios_cameraid"
    BY <2>2, <2>4, <2>5, <2>6, <2>8 DEF Ios!IsOwn
  <2> QED
    BY <2>7, <2>8
<1>2. IoInv /\ [AllNext]_<<machine, vars, replayVars, commandVars, ioVars>> => IoInv'
  BY IoSteps, IoTypeInductive, IoAloneInductive DEF IoInv
<1> QED
  BY <1>1, <1>2, IoInitial, PTL DEF AllSpec
-----------------------------------------------------------------------------
(* The ordinary commands: AlgorithmCommands. *)

(* A method but that of cropCircle reads only arguments that the parser    *)
(* fills in and the converter copies, and a generator tells only results   *)
(* that the method writes.                                                 *)
LEMMA CommandRows ==
  ASSUME NEW k \in DOMAIN Algo!Commands
  PROVE  LET r == Algo!Commands[k] IN
         /\ k # "none"
         /\ k # "cropCircle" => r.method.reads \subseteq r.copies \cap r.parses
         /\ r.tells \subseteq r.method.writes
<1> USE DEF Algo!Commands, Algo!Row, Algo!Method, Algo!InOut, Algo!InSaveOut
<1>1. CASE k = "initialize"
  BY <1>1
     DEF Algo!MqttParse_GigECameraInit, Algo!cvtJP2P_GigECam_Initialize,
         Algo!Method_GigECameraCtl_Initialize, Algo!JsonEditor_GigECam_Initialize
<1>2. CASE k = "inquiry"
  BY <1>2
     DEF Algo!MqttParse_GigECameraInq, Algo!cvtJP2P_GigECam_Inquiry,
         Algo!Method_GigECameraCtl_Inquiry, Algo!JsonEditor_GigECam_Inquiry
<1>3. CASE k = "config"
  BY <1>3
     DEF Algo!MqttParse_GigECameraCfg, Algo!cvtJP2P_GigECam_Config,
         Algo!Method_GigECameraCtl_Config, Algo!JsonEditor_GigECam_Config
<1>4. CASE k = "capture"
  BY <1>4
     DEF Algo!MqttParse_GigECameraParam, Algo!cvtJP2P_GigECam_Capture,
         Algo!Method_GigECameraCtl_Capture, Algo!JsonEditor_GigECam_Parameter
<1>5. CASE k = "release"
  BY <1>5
     DEF Algo!MqttParse_GigECameraRelease, Algo!cvtJP2P_GigECam_Release,
         Algo!Method_GigECameraCtl_Release, Algo!JsonEditor_GigECam_Release
<1>6. CASE k = "streamInitialize"
  BY <1>6
     DEF Algo!MqttParse_GigECameraStrmInit, Algo!cvtJP2P_GigECamStrm_Initialize,
         Algo!Method_GigECameraStrm_Initialize, Algo!JsonEditor_GigECamStrm_Initialize
<1>7. CASE k = "streamInquiry"
  BY <1>7
     DEF Algo!MqttParse_GigECameraStrmInq, Algo!cvtJP2P_GigECamStrm_Inquiry,
         Algo!Method_GigECameraStrm_Inquiry, Algo!JsonEditor_GigECamStrm_Inquiry
<1>8. CASE k = "streamStart"
  BY <1>8
     DEF Algo!MqttParse_GigECameraStrmStart, Algo!cvtJP2P_GigECamStrm_Start,
         Algo!Method_GigECameraStrm_Start, Algo!JsonEditor_GigECamStrm_Start
<1>9. CASE k = "streamCapture"
  BY <1>9
     DEF Algo!MqttParse_GigECameraStrmCapture, Algo!cvtJP2P_GigECamStrm_Capture,
         Algo!Method_GigECameraStrm_Capture, Algo!JsonEditor_GigECamStrm_Capture
<1>10. CASE k = "streamStop"
  BY <1>10
     DEF Algo!MqttParse_GigECameraStrmStop, Algo!cvtJP2P_GigECamStrm_Stop,
         Algo!Method_GigECameraStrm_Stop, Algo!JsonEditor_GigECamStrm_Stop
<1>11. CASE k = "streamRelease"
  BY <1>11
     DEF Algo!MqttParse_GigECameraStrmRelease, Algo!cvtJP2P_GigECamStrm_Release,
         Algo!Method_GigECameraStrm_Release, Algo!JsonEditor_GigECamStrm_Release
<1>12. CASE k = "imageCalibration"
  BY <1>12
     DEF Algo!MqttParse_IMG_Calibration, Algo!cvtJP2P_Image_Calibration,
         Algo!Method_ImageCalibration, Algo!JsonEditor_ImageCalibrations
<1>13. CASE k = "cropGoldenTemplate"
  BY <1>13
     DEF Algo!MqttParse_CropROI_GTemplate, Algo!cvtJP2P_Crop_GoldenTemplate,
         Algo!Method_Crop_GoldenTemplate, Algo!JsonEditor_Crop_GoldenTemplate
<1>14. CASE k = "patternMatch"
  BY <1>14
     DEF Algo!MqttParse_ALGO_PatternMatch, Algo!cvtJP2P_PatternMatch,
         Algo!Method_PatternMatch, Algo!JsonEditor_PatternMatch
<1>15. CASE k = "findProfile"
  BY <1>15
     DEF Algo!MqttParse_ALGO_FindProfile, Algo!cvtJP2P_FindProfile,
         Algo!Method_FindProfile, Algo!JsonEditor_FindProfile
<1>16. CASE k = "detectCircle"
  BY <1>16
     DEF Algo!MqttParse_ALGO_DetectCircle, Algo!cvtJP2P_DetectCircle,
         Algo!Method_DetectCircle, Algo!JsonEditor_DetectCircle
<1>17. CASE k = "boxAnnulus"
  BY <1>17
     DEF Algo!MqttParse_ALGO_IBOX_Annulus, Algo!cvtJP2P_IBOX_Annulus,
         Algo!Method_IBOX_Annulus, Algo!JsonEditor_IBOX_Annulus
<1>18. CASE k = "boxRect"
  BY <1>18
     DEF Algo!MqttParse_ALGO_IBOX_Rect, Algo!cvtJP2P_IBOX_Rect,
         Algo!Method_IBOX_Rect, Algo!JsonEditor_IBOX_Rect
<1>19. CASE k = "boxCircle"
  BY <1>19
     DEF Algo!MqttParse_ALGO_IBOX_Circle, Algo!cvtJP2P_IBOX_Circle,
         Algo!Method_IBOX_Circle, Algo!JsonEditor_IBOX_Circle
<1>20. CASE k = "calcCoord"
  BY <1>20
     DEF Algo!MqttParse_ALGO_CalcCoord, Algo!cvtJP2P_CalcCoord,
         Algo!Method_CalcCoord, Algo!JsonEditor_CalcCoord
<1>21. CASE k = "cropAnnulus"
  BY <1>21
     DEF Algo!MqttParse_ALGO_Crop_Annulus, Algo!cvtJP2P_Crop_Annulus,
         Algo!Method_CropImg_Annulus, Algo!JsonEditor_CropImg_Annulus
<1>22. CASE k = "cropRect"
  BY <1>22
     DEF Algo!MqttParse_ALGO_Crop_Rect, Algo!cvtJP2P_Crop_Rect,
         Algo!Method_CropImg_Rect, Algo!JsonEditor_CropImg_Rect
<1>23. CASE k = "cropCircle"
  BY <1>23
     DEF Algo!MqttParse_ALGO_Crop_Circle, Algo!cvtJP2P_Crop_Circle,
         Algo!Method_CropImg_Circle, Algo!JsonEditor_CropImg_Circle
<1>24. CASE k = "histogramAnnulus"
  BY <1>24
     DEF Algo!MqttParse_ALGO_Hisg_Annulus, Algo!cvtJP2P_Histogram_Annulus,
         Algo!Method_Histogram_Annulus, Algo!JsonEditor_Histogram_Annulus
<1>25. CASE k = "histogramRect"
  BY <1>25
     DEF Algo!MqttParse_ALGO_Hisg_Rect, Algo!cvtJP2P_Histogram_Rect,
         Algo!Method_Histogram_Rect, Algo!JsonEditor_Histogram_Rect
<1>26. CASE k = "histogramCircle"
  BY <1>26
     DEF Algo!MqttParse_ALGO_Hisg_Circle, Algo!cvtJP2P_Histogram_Circle,
         Algo!Method_Histogram_Circle, Algo!JsonEditor_Histogram_Circle
<1>27. CASE k = "threshold"
  BY <1>27
     DEF Algo!MqttParse_ALGO_IP_Threshold, Algo!cvtJP2P_Threshold,
         Algo!Method_Threshold, Algo!JsonEditor_Threshold
<1>28. CASE k = "morphology"
  BY <1>28
     DEF Algo!MqttParse_ALGO_IP_Morphology, Algo!cvtJP2P_Mrophology,
         Algo!Method_Morphology, Algo!JsonEditor_Morphology
<1>29. CASE k = "noiseRemoval"
  BY <1>29
     DEF Algo!MqttParse_ALGO_IP_NoiseRemoval, Algo!cvtJP2P_NoiseRemoval,
         Algo!Method_NoiseRemoval, Algo!JsonEditor_NoiseRemoval
<1>30. CASE k = "dataAugmentation"
  BY <1>30
     DEF Algo!MqttParse_ALGO_IP_DataAugmentation, Algo!cvtJP2P_DataAugmentation,
         Algo!Method_DataAugmentation, Algo!JsonEditor_DataAugmentation
<1>31. CASE k = "measureAnnulus"
  BY <1>31
     DEF Algo!MqttParse_ALGO_MeasGW_Annulus, Algo!cvtJP2P_MeasGW_Annulus,
         Algo!Method_GlueWidthMeasure_Annulus, Algo!JsonEditor_GlueWidthMeasure_Annulus
<1>32. CASE k = "measureRect"
  BY <1>32
     DEF Algo!MqttParse_ALGO_MeasGW_Rect, Algo!cvtJP2P_MeasGW_Rect,
         Algo!Method_GlueWidthMeasure_Rect, Algo!JsonEditor_GlueWidthMeasure_Rect
<1> HIDE DEF Algo!Row, Algo!Method, Algo!InOut, Algo!InSaveOut
<1>k. k \in {"initialize", "inquiry", "config", "capture", "release",
         "streamInitialize", "streamInquiry", "streamStart", "streamCapture", "streamStop",
         "streamRelease", "imageCalibration", "cropGoldenTemplate", "patternMatch", "findProfile",
         "detectCircle", "boxAnnulus", "boxRect", "boxCircle", "calcCoord",
         "cropAnnulus", "cropRect", "cropCircle", "histogramAnnulus", "histogramRect",
         "histogramCircle", "threshold", "morphology", "noiseRemoval", "dataAugmentation",
         "measureAnnulus", "measureRect"}
  OBVIOUS
<1> HIDE DEF Algo!Commands
<1> QED
  BY <1>1, <1>2, <1>3, <1>4, <1>5, <1>6, <1>7, <1>8, <1>9, <1>10, <1>11, <1>12, <1>13,
     <1>14, <1>15, <1>16,
     <1>17, <1>18, <1>19, <1>20, <1>21, <1>22, <1>23, <1>24, <1>25, <1>26, <1>27, <1>28,
     <1>29, <1>30, <1>31, <1>32, <1>k

(* The tasks on their way: in the hands of camera c's worker (place 0), or *)
(* at a place of its queue.                                                *)
InPlace(c, i) == IF i = 0 THEN acAt[c] # "idle" ELSE i \in DOMAIN acQueue[c]
TaskAt(c, i) == IF i = 0 THEN acNow[c] ELSE acQueue[c][i]

ArgumentSets == {Algo!Copied(k, n) : k \in CommandKinds, n \in Nat}
CommandTask ==
  [no : Nat \ {0}, kind : CommandKinds, args : ArgumentSets, paths : BOOLEAN, lone : BOOLEAN]

CommandType ==
  /\ acSent \in Nat /\ acText \in [CommandKinds -> Nat]
  /\ acResults = [k \in CommandKinds |-> acResults[k]]
  /\ acQueue \in [CommandCameras -> Seq(CommandTask)]
  /\ acNow = [c \in CommandCameras |-> acNow[c]]
  /\ acAt \in [CommandCameras -> {"idle", "run", "answer"}]
  /\ acOutcome = [c \in CommandCameras |-> acOutcome[c]]
  /\ acAnswer = [c \in CommandCameras |-> acAnswer[c]]

(* A task carries the arguments of its own message, and while it is lone   *)
(* the text buffer of its command holds its text, unless that buffer is    *)
(* also the result structure.                                              *)
Carries(c, i) ==
  InPlace(c, i) =>
    LET t == TaskAt(c, i) IN
    /\ t \in CommandTask /\ t.args = Algo!Copied(t.kind, t.no)
    /\ t.lone /\ t.kind \notin Algo!TextIsResult => acText[t.kind] = t.no

(* A lone task is the only one of its command.                             *)
Lonely(c, i, d, j) ==
  InPlace(c, i) /\ InPlace(d, j) /\ (c # d \/ i # j) /\ TaskAt(c, i).kind = TaskAt(d, j).kind
    => ~TaskAt(c, i).lone
CommandPlaces ==
  \A c, d \in CommandCameras : \A i, j \in Nat : Carries(c, i) /\ Lonely(c, i, d, j)

(* What the method of task t has left in result structure r when it ended  *)
(* so.                                                                     *)
Kept(r, t, ended) ==
  /\ r.ok <=> ended \in {"ok", "missed"}
  /\ \A f \in Algo!Commands[t.kind].method.writes :
       ended # "missed" \/ f = "retState" => r.from[f] = {t.no}

(* For a lone command it is still there when the command is answered.      *)
ResultKept(c) ==
  acAt[c] = "answer" /\ acNow[c].lone /\ acOutcome[c] # "refused" =>
    Kept(acResults[acNow[c].kind], acNow[c], acOutcome[c])
ResultsKept == \A c \in CommandCameras : ResultKept(c)

LEMMA CommandInitial == AllInit => CommandType /\ CommandPlaces
<1> SUFFICES ASSUME AllInit PROVE CommandType /\ CommandPlaces
  OBVIOUS
<1>1. Algo!Init
  BY DEF AllInit
<1>2. CommandType
  BY <1>1 DEF CommandType, Algo!Init, Algo!None
<1>3. \A c \in CommandCameras : \A i \in Nat : ~InPlace(c, i)
  BY <1>1 DEF InPlace, Algo!Init
<1> QED
  BY <1>2, <1>3 DEF CommandPlaces, Carries, Lonely

(* A task that another message joins keeps everything but its being lone.  *)
LEMMA JoinedTask ==
  ASSUME NEW t \in CommandTask, NEW k \in CommandKinds
  PROVE  LET u == Algo!Joined(t, k) IN
         /\ u \in CommandTask /\ u.no = t.no /\ u.kind = t.kind /\ u.args = t.args
         /\ u.lone <=> t.lone /\ t.kind # k
BY DEF CommandTask, Algo!Joined

(* What a message does to the tasks on their way: it joins them all, and   *)
(* its own is lone when it found none of its command.                      *)
LEMMA Arrival ==
  ASSUME CommandType, CommandPlaces, NEW c \in CommandCameras, Algo!Receive(c)
  PROVE  \E k \in CommandKinds : \E paths \in BOOLEAN : \E m \in Nat :
           LET n == acSent + 1
               t == [no |-> n, kind |-> k, args |-> Algo!Copied(k, n), paths |-> paths,
                     lone |-> ~Algo!InFlight(k)]
           IN /\ t \in CommandTask
              /\ m # 0 /\ InPlace(c, m)' /\ TaskAt(c, m)' = t
              /\ acSent' = n /\ acText' = [acText EXCEPT ![k] = n]
              /\ \A e \in CommandKinds : e # k => acResults'[e] = acResults[e]
              /\ acResults' = [e \in CommandKinds |-> acResults'[e]]
              /\ acQueue' \in [CommandCameras -> Seq(CommandTask)]
              /\ acNow' = [d \in CommandCameras |-> acNow'[d]]
              /\ UNCHANGED <<acAt, acOutcome, acAnswer>>
              /\ \A d \in CommandCameras : \A i \in Nat : d # c \/ i # m =>
                   /\ InPlace(d, i)' <=> InPlace(d, i)
                   /\ InPlace(d, i) => TaskAt(d, i)' = Algo!Joined(TaskAt(d, i), k)
<1> USE DEF CommandType
<1> DEFINE n == acSent + 1
           T(k, paths) == [no |-> n, kind |-> k, args |-> Algo!Copied(k, n), paths |-> paths,
                           lone |-> ~Algo!InFlight(k)]
           Q(d, k) == [i \in DOMAIN acQueue[d] |-> Algo!Joined(acQueue[d][i], k)]
<1>1. PICK k \in CommandKinds, paths \in BOOLEAN :
        /\ acText' = [acText EXCEPT ![k] = n]
        /\ acResults' = IF k \in Algo!TextIsResult THEN [acResults EXCEPT ![k] = Algo!TextRead(k)]
                        ELSE acResults
        /\ acQueue' = [d \in CommandCameras |->
                         IF d = c THEN Append(Q(d, k), T(k, paths)) ELSE Q(d, k)]
        /\ acNow' = [d \in CommandCameras |-> Algo!Joined(acNow[d], k)]
        /\ acSent' = n
  BY DEF Algo!Receive
<1>2. UNCHANGED <<acAt, acOutcome, acAnswer>>
  BY DEF Algo!Receive
<1>m. PICK m \in Nat : m = Len(acQueue[c]) + 1
  OBVIOUS
<1> DEFINE t == T(k, paths)
<1>3. n \in Nat \ {0} /\ Algo!Copied(k, n) \in ArgumentSets /\ Algo!InFlight(k) \in BOOLEAN
  BY DEF ArgumentSets, Algo!InFlight
<1>4. t \in CommandTask
  BY <1>3 DEF CommandTask
<1>5. \A d \in CommandCameras :
        /\ Q(d, k) \in Seq(CommandTask) /\ Len(Q(d, k)) = Len(acQueue[d])
        /\ DOMAIN Q(d, k) = DOMAIN acQueue[d]
  <2> SUFFICES ASSUME NEW d \in CommandCameras
               PROVE  /\ Q(d, k) \in Seq(CommandTask) /\ Len(Q(d, k)) = Len(acQueue[d])
                      /\ DOMAIN Q(d, k) = DOMAIN acQueue[d]
    OBVIOUS
  <2>1. acQueue[d] \in Seq(CommandTask) /\ Len(acQueue[d]) \in Nat
        /\ DOMAIN acQueue[d] = 1 .. Len(acQueue[d])
    OBVIOUS
  <2>2. \A i \in 1 .. Len(acQueue[d]) : Algo!Joined(acQueue[d][i], k) \in CommandTask
    BY <2>1, JoinedTask
  <2> QED
    BY <2>1, <2>2
<1>6. acQueue' \in [CommandCameras -> Seq(CommandTask)]
  <2> HIDE DEF t, Q
  <2> QED
    BY <1>1, <1>4, <1>5 DEF t
<1>7. /\ m \in Nat /\ m # 0 /\ m \in DOMAIN acQueue'[c] /\ acQueue'[c][m] = t
      /\ \A i \in DOMAIN acQueue[c] : i # m /\ i \in DOMAIN acQueue'[c] /\ acQueue'[c][i] = Q(c, k)[i]
      /\ \A i \in DOMAIN acQueue'[c] : i # m => i \in DOMAIN acQueue[c]
  <2>1. acQueue'[c] = Append(Q(c, k), t)
    BY <1>1
  <2>2. Len(acQueue[c]) \in Nat /\ DOMAIN acQueue[c] = 1 .. Len(acQueue[c])
    OBVIOUS
  <2> HIDE DEF t, Q
  <2> QED
    BY <1>m, <1>4, <1>5, <2>1, <2>2
<1>8. \A d \in CommandCameras : \A i \in Nat : d # c \/ i # m =>
        /\ InPlace(d, i)' <=> InPlace(d, i)
        /\ InPlace(d, i) => TaskAt(d, i)' = Algo!Joined(TaskAt(d, i), k)
  <2> SUFFICES ASSUME NEW d \in CommandCameras, NEW i \in Nat, d # c \/ i # m
               PROVE  /\ InPlace(d, i)' <=> InPlace(d, i)
                      /\ InPlace(d, i) => TaskAt(d, i)' = Algo!Joined(TaskAt(d, i), k)
    OBVIOUS
  <2>1. CASE i = 0
    BY <1>1, <1>2, <2>1 DEF InPlace, TaskAt
  <2>2. CASE i # 0 /\ d = c
    <3>1. i \in DOMAIN acQueue'[c] <=> i \in DOMAIN acQueue[c]
      BY <1>7, <2>2
    <3>2. i \in DOMAIN acQueue[c] => acQueue'[c][i] = Algo!Joined(acQueue[c][i], k)
      BY <1>7
    <3> HIDE DEF t, Q
    <3> QED
      BY <2>2, <3>1, <3>2 DEF InPlace, TaskAt
  <2>3. CASE i # 0 /\ d # c
    <3>1. acQueue'[d] = Q(d, k)
      BY <1>1, <2>3
    <3> QED
      BY <2>3, <3>1 DEF InPlace, TaskAt
  <2> QED
    BY <2>1, <2>2, <2>3
<1>9. InPlace(c, m)' /\ TaskAt(c, m)' = t
  BY <1>7 DEF InPlace, TaskAt
<1>10. acResults' = [e \in CommandKinds |-> acResults'[e]]
       /\ \A e \in CommandKinds : e # k => acResults'[e] = acResults[e]
  BY <1>1
<1>11. acNow' = [d \in CommandCameras |-> acNow'[d]]
  BY <1>1
<1> QED
  BY <1>1, <1>2, <1>4, <1>6, <1>7, <1>8, <1>9, <1>10, <1>11

(* The places after a message.                                             *)
LEMMA ArrivalKeeps ==
  ASSUME CommandType, CommandPlaces, ResultsKept,
         NEW c \in CommandCameras, Algo!Receive(c)
  PROVE  CommandType' /\ CommandPlaces' /\ ResultsKept'
<1>1. PICK k \in CommandKinds, paths \in BOOLEAN, m \in Nat :
           LET n == acSent + 1
               t == [no |-> n, kind |-> k, args |-> Algo!Copied(k, n), paths |-> paths,
                     lone |-> ~Algo!InFlight(k)]
           IN /\ t \in CommandTask
              /\ m # 0 /\ InPlace(c, m)' /\ TaskAt(c, m)' = t
              /\ acSent' = n /\ acText' = [acText EXCEPT ![k] = n]
              /\ \A e \in CommandKinds : e # k => acResults'[e] = acResults[e]
              /\ acResults' = [e \in CommandKinds |-> acResults'[e]]
              /\ acQueue' \in [CommandCameras -> Seq(CommandTask)]
              /\ acNow' = [d \in CommandCameras |-> acNow'[d]]
              /\ UNCHANGED <<acAt, acOutcome, acAnswer>>
              /\ \A d \in CommandCameras : \A i \in Nat : d # c \/ i # m =>
                   /\ InPlace(d, i)' <=> InPlace(d, i)
                   /\ InPlace(d, i) => TaskAt(d, i)' = Algo!Joined(TaskAt(d, i), k)
  BY Arrival
<1> DEFINE n == acSent + 1
           t == [no |-> n, kind |-> k, args |-> Algo!Copied(k, n), paths |-> paths,
                 lone |-> ~Algo!InFlight(k)]
           New(d, i) == d = c /\ i = m
<1>2. CommandType'
  <2>1. acSent' \in Nat /\ acText' \in [CommandKinds -> Nat]
    BY <1>1 DEF CommandType
  <2>2. UNCHANGED <<acAt, acOutcome, acAnswer>>
    BY <1>1
  <2>3. /\ acResults' = [e \in CommandKinds |-> acResults'[e]]
        /\ acQueue' \in [CommandCameras -> Seq(CommandTask)]
        /\ acNow' = [d \in CommandCameras |-> acNow'[d]]
    BY <1>1
  <2> QED
    BY <2>1, <2>2, <2>3 DEF CommandType
<1>3. /\ t.no = n /\ t.kind = k /\ t.args = Algo!Copied(k, n)
      /\ t.lone <=> ~Algo!InFlight(k)
  OBVIOUS
<1>4. t \in CommandTask /\ TaskAt(c, m)' = t
  BY <1>1
<1> HIDE DEF t
<1>5. \A d \in CommandCameras : \A i \in Nat :
        ~New(d, i) /\ InPlace(d, i)' =>
          /\ InPlace(d, i) /\ TaskAt(d, i) \in CommandTask
          /\ TaskAt(d, i)' = Algo!Joined(TaskAt(d, i), k)
  BY <1>1 DEF CommandPlaces, Carries
<1>6. \A e \in CommandKinds : acText'[e] = IF e = k THEN n ELSE acText[e]
  BY <1>1 DEF CommandType
<1>7. \A d \in CommandCameras : \A i \in Nat : Carries(d, i)'
  <2> SUFFICES ASSUME NEW d \in CommandCameras, NEW i \in Nat, InPlace(d, i)'
               PROVE  LET u == TaskAt(d, i)' IN
                      /\ u \in CommandTask /\ u.args = Algo!Copied(u.kind, u.no)
                      /\ u.lone /\ u.kind \notin Algo!TextIsResult => acText'[u.kind] = u.no
    BY DEF Carries, Algo!Copied, Algo!TextIsResult
  <2>1. CASE New(d, i)
    BY <1>3, <1>4, <1>6, <2>1
  <2>2. CASE ~New(d, i)
    <3> DEFINE v == TaskAt(d, i)
               u == TaskAt(d, i)'
    <3>1. InPlace(d, i) /\ v \in CommandTask /\ u = Algo!Joined(v, k)
      BY <1>5, <2>2
    <3>2. v.args = Algo!Copied(v.kind, v.no)
          /\ (v.lone /\ v.kind \notin Algo!TextIsResult => acText[v.kind] = v.no)
      BY <3>1 DEF CommandPlaces, Carries
    <3>3. /\ u \in CommandTask /\ u.no = v.no /\ u.kind = v.kind /\ u.args = v.args
          /\ u.lone <=> v.lone /\ v.kind # k
      BY <3>1, JoinedTask
    <3>4. u.kind \in CommandKinds
      BY <3>3 DEF CommandTask
    <3> HIDE DEF u, v
    <3>5. /\ u \in CommandTask /\ u.args = Algo!Copied(u.kind, u.no)
          /\ u.lone /\ u.kind \notin Algo!TextIsResult => acText'[u.kind] = u.no
      BY <1>6, <3>2, <3>3, <3>4
    <3> QED
      BY <3>5 DEF u
  <2> QED
    BY <2>1, <2>2
<1>8. \A d, e \in CommandCameras : \A i, j \in Nat : Lonely(d, i, e, j)'
  <2> SUFFICES ASSUME NEW d \in CommandCameras, NEW e \in CommandCameras,
                      NEW i \in Nat, NEW j \in Nat, InPlace(d, i)', InPlace(e, j)',
                      d # e \/ i # j, TaskAt(d, i)'.kind = TaskAt(e, j)'.kind
               PROVE  ~TaskAt(d, i)'.lone
    BY DEF Lonely
  <2>1. CASE New(d, i)
    <3>1. InPlace(e, j) /\ TaskAt(e, j) \in CommandTask /\ TaskAt(e, j)' = Algo!Joined(TaskAt(e, j), k)
      BY <1>5, <2>1
    <3>2. TaskAt(e, j).kind = k
      <4>1. TaskAt(e, j)'.kind = TaskAt(e, j).kind
        BY <3>1, JoinedTask
      <4>2. TaskAt(d, i)'.kind = k
        BY <1>3, <1>4, <2>1
      <4> QED
        BY <4>1, <4>2
    <3>3. Algo!InFlight(k)
      BY <3>1, <3>2 DEF InPlace, TaskAt, Algo!InFlight
    <3> QED
      BY <1>3, <1>4, <2>1, <3>3
  <2>2. CASE ~New(d, i)
    <3>1. InPlace(d, i) /\ TaskAt(d, i) \in CommandTask /\ TaskAt(d, i)' = Algo!Joined(TaskAt(d, i), k)
      BY <1>5, <2>2
    <3>2. /\ TaskAt(d, i)'.kind = TaskAt(d, i).kind
          /\ TaskAt(d, i)'.lone <=> TaskAt(d, i).lone /\ TaskAt(d, i).kind # k
      BY <3>1, JoinedTask
    <3>3. CASE New(e, j)
      <4>1. TaskAt(e, j)'.kind = k
        BY <1>3, <1>4, <3>3
      <4> QED
        BY <3>2, <4>1
    <3>4. CASE ~New(e, j)
      <4>1. InPlace(e, j) /\ TaskAt(e, j) \in CommandTask /\ TaskAt(e, j)' = Algo!Joined(TaskAt(e, j), k)
        BY <1>5, <3>4
      <4>2. TaskAt(e, j)'.kind = TaskAt(e, j).kind
        BY <4>1, JoinedTask
      <4>3. Lonely(d, i, e, j)
        BY DEF CommandPlaces
      <4>4. ~TaskAt(d, i).lone
        BY <3>1, <3>2, <4>1, <4>2, <4>3 DEF Lonely
      <4> QED
        BY <3>2, <4>4
    <3> QED
      BY <3>3, <3>4
  <2> QED
    BY <2>1, <2>2
<1>9. ResultsKept'
  <2> SUFFICES ASSUME NEW d \in CommandCameras, acAt'[d] = "answer", acNow'[d].lone,
                      acOutcome'[d] # "refused"
               PROVE  Kept(acResults'[acNow'[d].kind], acNow'[d], acOutcome'[d])
    BY DEF ResultsKept, ResultKept, Kept, Algo!Commands
  <2>1. acAt[d] = "answer" /\ acOutcome'[d] = acOutcome[d]
    BY <1>1
  <2>2. InPlace(d, 0)' /\ ~New(d, 0) /\ TaskAt(d, 0) = acNow[d] /\ TaskAt(d, 0)' = acNow'[d]
    BY <1>1 DEF InPlace, TaskAt
  <2>3. acNow[d] \in CommandTask /\ acNow'[d] = Algo!Joined(acNow[d], k)
    BY <1>5, <2>2
  <2>4. acNow'[d].kind = acNow[d].kind /\ acNow'[d].no = acNow[d].no /\ acNow[d].lone
        /\ acNow[d].kind # k
    BY <2>3, JoinedTask
  <2>5. acResults'[acNow[d].kind] = acResults[acNow[d].kind]
    BY <1>1, <2>3, <2>4 DEF CommandTask
  <2>6. Kept(acResults[acNow[d].kind], acNow[d], acOutcome[d])
    BY <2>1, <2>4 DEF ResultsKept, ResultKept
  <2> QED
    BY <2>1, <2>4, <2>5, <2>6 DEF Kept
<1> QED
  BY <1>2, <1>7, <1>8, <1>9 DEF CommandPlaces

(* A worker's steps only move tasks to the front or drop them, and leave   *)
(* the texts alone: a place is filled from the same place or the next one. *)
LEMMA MovesKeep ==
  ASSUME CommandPlaces,
         \A k \in CommandKinds \ Algo!TextIsResult : acText'[k] = acText[k],
         NEW s \in [CommandCameras -> {0, 1}],
         \A d \in CommandCameras : \A i \in Nat :
           InPlace(d, i)' => InPlace(d, i + s[d]) /\ TaskAt(d, i)' = TaskAt(d, i + s[d])
  PROVE  CommandPlaces'
<1>1. \A d \in CommandCameras : \A i \in Nat : i + s[d] \in Nat
  OBVIOUS
<1>2. \A d \in CommandCameras : \A i \in Nat : Carries(d, i)'
  <2> SUFFICES ASSUME NEW d \in CommandCameras, NEW i \in Nat, InPlace(d, i)'
               PROVE  LET u == TaskAt(d, i)' IN
                      /\ u \in CommandTask /\ u.args = Algo!Copied(u.kind, u.no)
                      /\ u.lone /\ u.kind \notin Algo!TextIsResult => acText'[u.kind] = u.no
    BY DEF Carries, Algo!Copied, Algo!TextIsResult
  <2>1. Carries(d, i + s[d])
    BY <1>1 DEF CommandPlaces
  <2>2. TaskAt(d, i)' \in CommandTask => TaskAt(d, i)'.kind \in CommandKinds
    BY DEF CommandTask
  <2> QED
    BY <2>1, <2>2 DEF Carries
<1>3. ASSUME NEW d \in CommandCameras, NEW e \in CommandCameras, NEW i \in Nat, NEW j \in Nat
      PROVE  Lonely(d, i, e, j)'
  <2>1. Lonely(d, i + s[d], e, j + s[e])
    BY <1>1 DEF CommandPlaces
  <2>2. d # e \/ i # j => d # e \/ i + s[d] # j + s[e]
    OBVIOUS
  <2> QED
    BY <1>1, <2>1, <2>2 DEF Lonely
<1> QED
  BY <1>2, <1>3 DEF CommandPlaces

LEMMA TakeKeeps ==
  ASSUME CommandType, CommandPlaces, ResultsKept,
         NEW c \in CommandCameras, Algo!Take(c)
  PROVE  CommandType' /\ CommandPlaces' /\ ResultsKept'
<1> USE DEF CommandType
<1>1. /\ acAt[c] = "idle" /\ acQueue[c] # << >>
      /\ acNow' = [acNow EXCEPT ![c] = Head(acQueue[c])]
      /\ acQueue' = [acQueue EXCEPT ![c] = Tail(@)]
      /\ acAt' = [acAt EXCEPT ![c] = "run"]
      /\ acOutcome' = [acOutcome EXCEPT ![c] = "none"]
      /\ UNCHANGED <<acText, acResults, acAnswer, acSent>>
  BY DEF Algo!Take
<1>2. acQueue[c] \in Seq(CommandTask) /\ Tail(acQueue[c]) \in Seq(CommandTask)
  BY <1>1
<1>3. CommandType'
  BY <1>1, <1>2
<1>4. /\ Len(acQueue[c]) \in Nat /\ Len(acQueue[c]) # 0
      /\ acNow'[c] = acQueue[c][1] /\ 1 \in DOMAIN acQueue[c]
  BY <1>1, <1>2
<1>5. \A i \in Nat : i # 0 /\ i \in DOMAIN acQueue'[c] =>
        i + 1 \in DOMAIN acQueue[c] /\ acQueue'[c][i] = acQueue[c][i + 1]
  BY <1>1, <1>2
<1> DEFINE s == [d \in CommandCameras |-> IF d = c THEN 1 ELSE 0]
<1>6. \A d \in CommandCameras : \A i \in Nat :
        InPlace(d, i)' => InPlace(d, i + s[d]) /\ TaskAt(d, i)' = TaskAt(d, i + s[d])
  <2> SUFFICES ASSUME NEW d \in CommandCameras, NEW i \in Nat, InPlace(d, i)'
               PROVE  InPlace(d, i + s[d]) /\ TaskAt(d, i)' = TaskAt(d, i + s[d])
    OBVIOUS
  <2>1. CASE d # c
    <3>1. /\ acAt'[d] = acAt[d] /\ acNow'[d] = acNow[d] /\ acQueue'[d] = acQueue[d]
          /\ i + s[d] = i
      BY <1>1, <2>1
    <3> QED
      BY <3>1 DEF InPlace, TaskAt
  <2>2. CASE d = c /\ i = 0
    <3>1. s[d] = 1
      BY <2>2
    <3> QED
      BY <1>4, <2>2, <3>1 DEF InPlace, TaskAt
  <2>3. CASE d = c /\ i # 0
    <3>1. s[d] = 1 /\ i + 1 # 0
      BY <2>3
    <3> QED
      BY <1>5, <2>3, <3>1 DEF InPlace, TaskAt
  <2> QED
    BY <2>1, <2>2, <2>3
<1>7. s \in [CommandCameras -> {0, 1}]
      /\ \A k \in CommandKinds \ Algo!TextIsResult : acText'[k] = acText[k]
  BY <1>1
<1> HIDE DEF s
<1>8. CommandPlaces'
  BY <1>6, <1>7, MovesKeep
<1>9. ResultsKept'
  <2> SUFFICES ASSUME NEW d \in CommandCameras, acAt'[d] = "answer", acNow'[d].lone,
                      acOutcome'[d] # "refused"
               PROVE  Kept(acResults'[acNow'[d].kind], acNow'[d], acOutcome'[d])
    BY DEF ResultsKept, ResultKept, Kept, Algo!Commands
  <2>1. acAt'[d] = "answer" => d # c
    BY <1>1
  <2>2. d # c => /\ acAt'[d] = acAt[d] /\ acNow'[d] = acNow[d] /\ acOutcome'[d] = acOutcome[d]
                 /\ acResults' = acResults
    BY <1>1
  <2>3. ResultKept(d)
    BY DEF ResultsKept
  <2> QED
    BY <2>1, <2>2, <2>3 DEF ResultKept
<1> QED
  BY <1>3, <1>8, <1>9

(* The arguments a method other than the crop of a circle reads are its    *)
(* task's own.                                                             *)
LEMMA OwnReads ==
  ASSUME CommandPlaces, "cropCircle" \notin CommandKinds,
         NEW c \in CommandCameras, acAt[c] # "idle"
  PROVE  /\ acNow[c] \in CommandTask
         /\ \A a \in Algo!Commands[acNow[c].kind].method.reads :
              Algo!Argument(acNow[c], a) = acNow[c].no
         /\ Algo!Sources(acNow[c]) = {acNow[c].no}
<1> DEFINE t == acNow[c]
<1>1. t \in CommandTask /\ t.args = Algo!Copied(t.kind, t.no)
  <2>1. Carries(c, 0)
    BY DEF CommandPlaces
  <2> QED
    BY <2>1 DEF Carries, InPlace, TaskAt
<1>2. t.kind \in DOMAIN Algo!Commands /\ t.kind # "cropCircle"
  BY <1>1, CommandAssumption DEF CommandTask, Algo!KindsAssumption
<1> HIDE DEF t
<1>3. Algo!Commands[t.kind].method.reads
        \subseteq Algo!Commands[t.kind].copies \cap Algo!Commands[t.kind].parses
  BY <1>2, CommandRows
<1>4. \A a \in Algo!Commands[t.kind].method.reads : Algo!Argument(t, a) = t.no
  BY <1>1, <1>3 DEF Algo!Argument, Algo!Copied
<1>5. Algo!Sources(t) = {t.no}
  BY <1>4 DEF Algo!Sources
<1> QED
  BY <1>1, <1>4, <1>5 DEF t

LEMMA RunKeeps ==
  ASSUME CommandType, CommandPlaces, ResultsKept,
         "cropCircle" \notin CommandKinds,
         NEW c \in CommandCameras, Algo!Run(c)
  PROVE  CommandType' /\ CommandPlaces' /\ ResultsKept'
<1> USE DEF CommandType
<1> DEFINE t == acNow[c]
<1>1. /\ acAt[c] = "run" /\ acAt' = [acAt EXCEPT ![c] = "answer"]
      /\ UNCHANGED <<acParsed, acQueue, acNow, acAnswer, acSent>>
  BY DEF Algo!Run
<1>2. t \in CommandTask /\ t.kind \in CommandKinds /\ Algo!Sources(t) = {t.no}
  BY <1>1, OwnReads DEF CommandTask
<1>3. PICK ended \in {"ok", "missed", "error"} :
        \/ acOutcome' = [acOutcome EXCEPT ![c] = "refused"] /\ UNCHANGED <<acResults, acText>>
        \/ /\ acOutcome' = [acOutcome EXCEPT ![c] = ended]
           /\ acResults' = [acResults EXCEPT ![t.kind] = Algo!Written(t, ended)]
           /\ acText' = IF t.kind \in Algo!TextIsResult THEN [acText EXCEPT ![t.kind] = 0] ELSE acText
  BY DEF Algo!Run, Algo!None
<1> HIDE DEF t
<1>4. /\ acText' \in [CommandKinds -> Nat]
      /\ \A k \in CommandKinds \ Algo!TextIsResult : acText'[k] = acText[k]
  BY <1>2, <1>3
<1>5. CommandType'
  BY <1>1, <1>3, <1>4
<1> DEFINE s == [d \in CommandCameras |-> 0]
<1>6. \A d \in CommandCameras : \A i \in Nat :
        InPlace(d, i)' => InPlace(d, i + s[d]) /\ TaskAt(d, i)' = TaskAt(d, i + s[d])
  <2> SUFFICES ASSUME NEW d \in CommandCameras, NEW i \in Nat, InPlace(d, i)'
               PROVE  InPlace(d, i) /\ TaskAt(d, i)' = TaskAt(d, i)
    OBVIOUS
  <2>1. acAt[d] = "idle" => acAt'[d] = "idle"
    BY <1>1
  <2> QED
    BY <1>1, <2>1 DEF InPlace, TaskAt
<1>7. s \in [CommandCameras -> {0, 1}]
  OBVIOUS
<1> HIDE DEF s
<1>8. CommandPlaces'
  BY <1>4, <1>6, <1>7, MovesKeep
<1>9. ResultsKept'
  <2> SUFFICES ASSUME NEW d \in CommandCameras, acAt'[d] = "answer", acNow'[d].lone,
                      acOutcome'[d] # "refused"
               PROVE  Kept(acResults'[acNow'[d].kind], acNow'[d], acOutcome'[d])
    BY DEF ResultsKept, ResultKept, Kept, Algo!Commands
  <2>1. CASE d = c
    <3>1. acOutcome'[c] = ended /\ acResults'[t.kind] = Algo!Written(t, ended)
      BY <1>2, <1>3, <2>1
    <3>2. acNow'[d] = t
      BY <1>1, <2>1 DEF t
    <3>3. \A f \in Algo!Commands[t.kind].method.writes :
            ended # "missed" \/ f = "retState" => Algo!Value(t, ended, f) = {t.no}
      BY <1>2 DEF Algo!Value, Algo!Leftover
    <3>4. Kept(Algo!Written(t, ended), t, ended)
      BY <3>3 DEF Kept, Algo!Written
    <3> QED
      BY <2>1, <3>1, <3>2, <3>4
  <2>2. CASE d # c
    <3>1. acAt[d] = "answer" /\ acNow'[d] = acNow[d] /\ acOutcome'[d] = acOutcome[d]
      BY <1>1, <1>3, <2>2
    <3>2. acNow[d].kind # t.kind
      <4>1. Lonely(d, 0, c, 0)
        BY DEF CommandPlaces
      <4> QED
        BY <1>1, <2>2, <3>1, <4>1 DEF Lonely, InPlace, TaskAt, t
    <3>3. acNow[d].kind \in CommandKinds
      BY <3>1, OwnReads DEF CommandTask
    <3>4. acResults'[acNow[d].kind] = acResults[acNow[d].kind]
      BY <1>2, <1>3, <3>2, <3>3
    <3>5. ResultKept(d)
      BY DEF ResultsKept
    <3>6. acNow[d].lone /\ acOutcome[d] # "refused"
      BY <3>1
    <3>7. Kept(acResults[acNow[d].kind], acNow[d], acOutcome[d])
      BY <3>1, <3>5, <3>6 DEF ResultKept
    <3>8. acNow'[d].kind = acNow[d].kind /\ acNow'[d].no = acNow[d].no
      BY <3>1
    <3>9. acResults'[acNow'[d].kind] = acResults[acNow[d].kind]
      BY <3>4, <3>8
    <3> QED
      BY <3>1, <3>7, <3>8, <3>9, Zenon
  <2> QED
    BY <2>1, <2>2
<1> QED
  BY <1>5, <1>8, <1>9

LEMMA AnswerKeeps ==
  ASSUME CommandType, CommandPlaces, ResultsKept,
         NEW c \in CommandCameras, Algo!Answer(c)
  PROVE  /\ CommandType' /\ CommandPlaces' /\ ResultsKept'
         /\ "streamCapture" \notin CommandKinds /\ CommandSerialAnswered
              => CommandSerialAnswered'
<1> USE DEF CommandType
<1> DEFINE t == acNow[c]
           r == acResults[t.kind]
           a == [no |-> t.no, kind |-> t.kind, quotes |-> acText[t.kind], ok |-> r.ok,
                 values |-> [f \in Algo!Commands[t.kind].tells |-> r.from[f]],
                 ended |-> acOutcome[c], lone |-> t.lone]
<1>1. /\ acAt[c] = "answer" /\ acAt' = [acAt EXCEPT ![c] = "idle"]
      /\ acNow' = [acNow EXCEPT ![c] = Algo!NoTask]
      /\ acAnswer' = [acAnswer EXCEPT ![c] = a]
      /\ UNCHANGED <<acParsed, acText, acResults, acQueue, acOutcome, acSent>>
  BY DEF Algo!Answer
<1>2. CommandType'
  <2> HIDE DEF a
  <2> QED
    BY <1>1
<1> DEFINE s == [d \in CommandCameras |-> 0]
<1>3. \A d \in CommandCameras : \A i \in Nat :
        InPlace(d, i)' => InPlace(d, i + s[d]) /\ TaskAt(d, i)' = TaskAt(d, i + s[d])
  <2> SUFFICES ASSUME NEW d \in CommandCameras, NEW i \in Nat, InPlace(d, i)'
               PROVE  InPlace(d, i) /\ TaskAt(d, i)' = TaskAt(d, i)
    OBVIOUS
  <2> HIDE DEF a
  <2>1. acAt'[d] = (IF d = c THEN "idle" ELSE acAt[d]) /\ (d # c => acNow'[d] = acNow[d])
    BY <1>1
  <2> QED
    BY <1>1, <2>1 DEF InPlace, TaskAt
<1>4. s \in [CommandCameras -> {0, 1}]
      /\ \A k \in CommandKinds \ Algo!TextIsResult : acText'[k] = acText[k]
  BY <1>1
<1> HIDE DEF s
<1>5. CommandPlaces'
  BY <1>3, <1>4, MovesKeep
<1>6. ResultsKept'
  <2> SUFFICES ASSUME NEW d \in CommandCameras, acAt'[d] = "answer", acNow'[d].lone,
                      acOutcome'[d] # "refused"
               PROVE  Kept(acResults'[acNow'[d].kind], acNow'[d], acOutcome'[d])
    BY DEF ResultsKept, ResultKept, Kept, Algo!Commands
  <2> HIDE DEF a
  <2>1. acAt'[d] = "answer" => d # c /\ acAt[d] = "answer" /\ acNow'[d] = acNow[d]
    BY <1>1
  <2>2. ResultKept(d)
    BY DEF ResultsKept
  <2> QED
    BY <1>1, <2>1, <2>2 DEF ResultKept
<1>7. /\ a.no = t.no /\ a.lone = t.lone /\ a.ended = acOutcome[c] /\ a.ok = r.ok
      /\ a.quotes = acText[t.kind] /\ DOMAIN a.values = Algo!Commands[t.kind].tells
      /\ \A f \in Algo!Commands[t.kind].tells : a.values[f] = r.from[f]
  OBVIOUS
<1>8. "streamCapture" \notin CommandKinds /\ a.lone /\ a.ended # "refused"
        => Algo!Quoted(a) /\ Algo!Told(a)
  <2> SUFFICES ASSUME "streamCapture" \notin CommandKinds, t.lone, acOutcome[c] # "refused"
               PROVE  Algo!Quoted(a) /\ Algo!Told(a)
    BY <1>7
  <2>1. Carries(c, 0) /\ ResultKept(c)
    BY DEF CommandPlaces, ResultsKept
  <2>2. acText[t.kind] = t.no /\ t \in CommandTask
    <3>1. t \in CommandTask /\ (t.kind \notin Algo!TextIsResult => acText[t.kind] = t.no)
      BY <1>1, <2>1 DEF Carries, InPlace, TaskAt
    <3>2. t.kind \in CommandKinds
      BY <3>1 DEF CommandTask
    <3> QED
      BY <3>1, <3>2 DEF Algo!TextIsResult
  <2>3. Kept(r, t, acOutcome[c])
    BY <1>1, <2>1 DEF ResultKept
  <2>4. Algo!Commands[t.kind].tells \subseteq Algo!Commands[t.kind].method.writes
    BY <2>2, CommandRows, CommandAssumption DEF CommandTask, Algo!KindsAssumption
  <2> HIDE DEF a, r, t
  <2> QED
    BY <1>7, <2>2, <2>3, <2>4 DEF Kept, Algo!Quoted, Algo!Told
<1>9. ASSUME "streamCapture" \notin CommandKinds, CommandSerialAnswered
      PROVE  CommandSerialAnswered'
  <2> HIDE DEF a
  <2>1. \A d \in CommandCameras : acAnswer'[d] = IF d = c THEN a ELSE acAnswer[d]
    BY <1>1
  <2>2. ASSUME NEW d \in CommandCameras, acAnswer'[d].no # Algo!None, acAnswer'[d].lone,
               acAnswer'[d].ended # "refused"
        PROVE  Algo!Quoted(acAnswer'[d]) /\ Algo!Told(acAnswer'[d])
    <3>1. CASE d = c
      BY <1>8, <1>9, <2>1, <2>2, <3>1
    <3>2. CASE d # c
      BY <1>9, <2>1, <2>2, <3>2 DEF CommandSerialAnswered, Algo!SerialAnswered
    <3> QED
      BY <3>1, <3>2
  <2> QED
    BY <2>2 DEF CommandSerialAnswered, Algo!SerialAnswered, Algo!Quoted, Algo!Told, Algo!None
<1> QED
  BY <1>2, <1>5, <1>6, <1>9

LEMMA CommandSteps ==
  [AllNext]_<<machine, vars, replayVars, commandVars, ioVars>> => [Algo!Next]_commandVars
BY DEF AllNext, L, R, C, I, Algo!Next

CommandInv == CommandType /\ CommandPlaces /\ ResultsKept

LEMMA CommandsInductive ==
  ASSUME "cropCircle" \notin CommandKinds, CommandInv, [Algo!Next]_commandVars
  PROVE  /\ CommandInv'
         /\ "streamCapture" \notin CommandKinds /\ CommandSerialAnswered
              => CommandSerialAnswered'
<1> USE DEF CommandInv
<1>a. acAnswer' = acAnswer /\ CommandSerialAnswered => CommandSerialAnswered'
  BY DEF CommandSerialAnswered, Algo!SerialAnswered, Algo!Quoted, Algo!Told
<1>1. CASE \E c \in CommandCameras : Algo!Receive(c)
  BY <1>1, <1>a, ArrivalKeeps DEF Algo!Receive
<1>2. CASE \E c \in CommandCameras : Algo!Take(c)
  BY <1>2, <1>a, TakeKeeps DEF Algo!Take
<1>3. CASE \E c \in CommandCameras : Algo!Run(c)
  BY <1>3, <1>a, RunKeeps DEF Algo!Run
<1>4. CASE \E c \in CommandCameras : Algo!Answer(c)
  BY <1>4, AnswerKeeps
<1>5. CASE UNCHANGED commandVars
  <2> USE DEF commandVars
  <2>1. CommandType'
    BY <1>5 DEF CommandType
  <2>2. CommandPlaces'
    <3> DEFINE s == [d \in CommandCameras |-> 0]
    <3>1. s \in [CommandCameras -> {0, 1}]
          /\ \A k \in CommandKinds \ Algo!TextIsResult : acText'[k] = acText[k]
      BY <1>5
    <3>2. \A d \in CommandCameras : \A i \in Nat :
            InPlace(d, i)' => InPlace(d, i + s[d]) /\ TaskAt(d, i)' = TaskAt(d, i + s[d])
      BY <1>5 DEF InPlace, TaskAt
    <3> HIDE DEF s
    <3> QED
      BY <3>1, <3>2, MovesKeep
  <2>3. ResultsKept'
    <3> SUFFICES ASSUME NEW d \in CommandCameras, acAt'[d] = "answer", acNow'[d].lone,
                        acOutcome'[d] # "refused"
                 PROVE  Kept(acResults'[acNow'[d].kind], acNow'[d], acOutcome'[d])
      BY DEF ResultsKept, ResultKept, Kept, Algo!Commands
    <3>1. Kept(acResults[acNow[d].kind], acNow[d], acOutcome[d])
      BY <1>5 DEF ResultsKept, ResultKept
    <3> QED
      BY <1>5, <3>1
  <2> QED
    BY <1>5, <1>a, <2>1, <2>2, <2>3
<1> QED
  BY <1>1, <1>2, <1>3, <1>4, <1>5 DEF Algo!Next

LEMMA CommandsAlways == "cropCircle" \notin CommandKinds /\ AllSpec => []CommandInv
<1>1. AllInit => CommandInv
  <2> SUFFICES ASSUME AllInit PROVE CommandInv
    OBVIOUS
  <2>1. \A c \in CommandCameras : acAt[c] = "idle"
    BY DEF AllInit, Algo!Init
  <2>2. ResultsKept
    BY <2>1 DEF ResultsKept, ResultKept
  <2> QED
    BY <2>2, CommandInitial DEF CommandInv
<1> SUFFICES ASSUME "cropCircle" \notin CommandKinds PROVE AllSpec => []CommandInv
  OBVIOUS
<1>2. CommandInv /\ [AllNext]_<<machine, vars, replayVars, commandVars, ioVars>> => CommandInv'
  BY CommandSteps, CommandsInductive
<1> QED
  BY <1>1, <1>2, PTL DEF AllSpec

(* A method reads the arguments of its own command, whatever has arrived   *)
(* since for either camera: for any commands, cameras and messages but the *)
(* crop of a circle, whose method reads paths that nobody has put there.   *)
THEOREM CommandsReadTheirOwn ==
  ASSUME "cropCircle" \notin CommandKinds
  PROVE  AllSpec => []CommandOwnArguments
<1>1. CommandInv => CommandOwnArguments
  BY OwnReads DEF CommandInv, CommandOwnArguments, Algo!OwnArguments
<1> QED
  BY <1>1, CommandsAlways, PTL

(* A command that no other of its kind meets is answered with its own text,*)
(* outcome and values, although text buffer and result structure are       *)
(* shared; with its own outcome only, when it is a match that found no     *)
(* mark or a calibration.  For any commands but the crop of a circle and   *)
(* the capture of a stream, whose text buffer is its result structure.     *)
THEOREM LoneCommandsAreAnswered ==
  ASSUME "cropCircle" \notin CommandKinds, "streamCapture" \notin CommandKinds
  PROVE  AllSpec => []CommandSerialAnswered
<1>1. AllInit => CommandSerialAnswered
  <2> SUFFICES ASSUME AllInit PROVE CommandSerialAnswered
    OBVIOUS
  <2>1. \A c \in CommandCameras : acAnswer[c] = Algo!NoAnswer
    BY DEF AllInit, Algo!Init
  <2> QED
    BY <2>1 DEF CommandSerialAnswered, Algo!SerialAnswered, Algo!NoAnswer
<1>2. CommandSerialAnswered /\ CommandInv
        /\ [AllNext]_<<machine, vars, replayVars, commandVars, ioVars>> => CommandSerialAnswered'
  BY CommandSteps, CommandsInductive
<1> QED
  BY <1>1, <1>2, CommandsAlways, PTL DEF AllSpec
-----------------------------------------------------------------------------
(* The replays: RecipeReplay. *)

RowOf(r, p) == Replay!Commands[r[p]]

(* The slots of the table that the first commands of recipe r have filled  *)
(* when its p-th is reached, since the last command that may have emptied  *)
(* it; and whether an image has been captured.                             *)
Given(r, p) ==
  {s \in Replay!Slots :
     \E q \in 1 .. p - 1 :
       /\ s \in RowOf(r, q).before.puts \cup RowOf(r, q).after
       /\ \A m \in q + 1 .. p - 1 : r[m] # "autoRunning"}
Captured(r, p) == \E q \in 1 .. p - 1 : RowOf(r, q).image = "fills"

(* A recipe that takes nothing it has not put there itself.                *)
Ordered(r) ==
  \A p \in DOMAIN r :
    /\ RowOf(r, p).before.takes \subseteq Given(r, p)
    /\ RowOf(r, p).image \notin {"none", "fills"} => Captured(r, p)

LEMMA ReplayRows ==
  ASSUME NEW k \in Replay!Kinds
  PROVE  LET w == Replay!Commands[k] IN
         /\ w.before.takes \subseteq Replay!Slots
         /\ k = "autoRunning" =>
              w.before.takes = {} /\ w.before.puts = {} /\ w.after = {} /\ w.image = "none"
         /\ k = "patternMatch" => w.after = {"ret_FMark_PatternMatch"}
BY DEF Replay!Kinds, Replay!cvtRet2AP_PatternMatch, Replay!Commands, Replay!Row, Replay!NoAP2P, Replay!AP2P, Replay!Slots,
       Replay!cvtAP2P_IBOX_Annulus, Replay!cvtAP2P_IBOX_Rect, Replay!cvtAP2P_CalcCoord,
       Replay!cvtAP2P_Crop_Annulus, Replay!cvtAP2P_Crop_Rect,
       Replay!cvtAP2P_MeasGW_Annulus, Replay!cvtAP2P_MeasGW_Rect

(* The two recipes of the instance are ordered: the annulus region takes   *)
(* its mark, its boxes, its coordinates and its crop from itself.          *)
LEMMA RecipesOrdered == \A c \in ReplayCameras : Ordered(Recipes[c])
<1> DEFINE r1 == <<"autoRunning", "capture", "patternMatch", "boxAnnulus", "calcCoord",
                   "cropAnnulus", "measureAnnulus", "autoRunning">>
           r2 == <<"autoRunning", "capture", "patternMatch", "autoRunning">>
<1> USE DEF Replay!Commands, Replay!Row, Replay!NoAP2P, Replay!AP2P
<1>1. /\ RowOf(r1, 1).before.takes = {} /\ RowOf(r1, 1).image = "none"
      /\ RowOf(r1, 2).before.takes = {} /\ RowOf(r1, 2).image = "fills"
      /\ RowOf(r1, 3).before.takes = {} /\ RowOf(r1, 3).image = "searches"
      /\ RowOf(r1, 3).after = {"ret_FMark_PatternMatch"}
      /\ RowOf(r1, 4).before.takes = {} /\ RowOf(r1, 4).image = "searches"
      /\ RowOf(r1, 4).before.puts = {"set_IBox_Annulus"}
      /\ RowOf(r1, 4).after = {"ret_BBox_Annulus"}
      /\ RowOf(r1, 8).before.takes = {} /\ RowOf(r1, 8).image = "none"
  BY DEF RowOf, Replay!cvtRet2AP_PatternMatch, Replay!cvtAP2P_IBOX_Annulus,
         Replay!cvtRet2AP_IBOX_Annulus
<1>2. /\ RowOf(r1, 5).before.takes = {"ret_FMark_PatternMatch", "ret_BBox_Annulus"}
      /\ RowOf(r1, 5).after = {"ret_CoBBox_CalcCoord"} /\ RowOf(r1, 5).image = "none"
      /\ RowOf(r1, 6).before.takes = {"ret_CoBBox_CalcCoord", "set_IBox_Annulus"}
      /\ RowOf(r1, 6).after = {"ret_CropImg_Annulu"} /\ RowOf(r1, 6).image = "crops"
      /\ RowOf(r1, 7).before.takes = {"ret_CropImg_Annulu"} /\ RowOf(r1, 7).image = "reads"
  BY DEF RowOf, Replay!cvtAP2P_CalcCoord, Replay!cvtRet2AP_CalcCoord,
         Replay!cvtAP2P_Crop_Annulus, Replay!cvtRet2AP_Crop_Annulus,
         Replay!cvtAP2P_MeasGW_Annulus
<1>3. /\ RowOf(r2, 1).before.takes = {} /\ RowOf(r2, 1).image = "none"
      /\ RowOf(r2, 2).before.takes = {} /\ RowOf(r2, 2).image = "fills"
      /\ RowOf(r2, 3).before.takes = {} /\ RowOf(r2, 3).image = "searches"
      /\ RowOf(r2, 4).before.takes = {} /\ RowOf(r2, 4).image = "none"
  BY DEF RowOf
<1> HIDE DEF Replay!Commands, Replay!Row, Replay!NoAP2P, Replay!AP2P
<1>4. \A m \in 2 .. 7 : r1[m] # "autoRunning"
  OBVIOUS
<1>5. DOMAIN r1 = 1 .. 8 /\ DOMAIN r2 = 1 .. 4
  OBVIOUS
<1> HIDE DEF r1, r2
<1>6. \A p \in 3 .. 8 : Captured(r1, p)
  BY <1>1 DEF Captured
<1>7. \A p \in 3 .. 4 : Captured(r2, p)
  BY <1>3 DEF Captured
<1>8. /\ \A p \in 4 .. 7 : "ret_FMark_PatternMatch" \in Given(r1, p)
      /\ \A p \in 5 .. 7 : "ret_BBox_Annulus" \in Given(r1, p)
      /\ \A p \in 5 .. 7 : "set_IBox_Annulus" \in Given(r1, p)
      /\ \A p \in 6 .. 7 : "ret_CoBBox_CalcCoord" \in Given(r1, p)
      /\ "ret_CropImg_Annulu" \in Given(r1, 7)
  <2>1. ASSUME NEW q \in 2 .. 6, NEW s \in Replay!Slots,
               s \in RowOf(r1, q).before.puts \cup RowOf(r1, q).after
        PROVE  \A p \in q + 1 .. 7 : s \in Given(r1, p)
    BY <1>4, <2>1 DEF Given
  <2>2. /\ "ret_FMark_PatternMatch" \in Replay!Slots /\ "ret_BBox_Annulus" \in Replay!Slots
        /\ "set_IBox_Annulus" \in Replay!Slots /\ "ret_CoBBox_CalcCoord" \in Replay!Slots
        /\ "ret_CropImg_Annulu" \in Replay!Slots
    BY DEF Replay!Slots
  <2>3. \A p \in 4 .. 7 : "ret_FMark_PatternMatch" \in Given(r1, p)
    BY <1>1, <2>1, <2>2
  <2>4. /\ \A p \in 5 .. 7 : "ret_BBox_Annulus" \in Given(r1, p)
        /\ \A p \in 5 .. 7 : "set_IBox_Annulus" \in Given(r1, p)
    BY <1>1, <2>1, <2>2
  <2>5. \A p \in 6 .. 7 : "ret_CoBBox_CalcCoord" \in Given(r1, p)
    BY <1>2, <2>1, <2>2
  <2>6. "ret_CropImg_Annulu" \in Given(r1, 7)
    BY <1>2, <2>1, <2>2
  <2> QED
    BY <2>3, <2>4, <2>5, <2>6
<1>9. Ordered(r1)
  <2> SUFFICES ASSUME NEW p \in 1 .. 8
               PROVE  /\ RowOf(r1, p).before.takes \subseteq Given(r1, p)
                      /\ RowOf(r1, p).image \notin {"none", "fills"} => Captured(r1, p)
    BY <1>5 DEF Ordered
  <2>1. p \in {1, 2, 3, 4, 8} => RowOf(r1, p).before.takes = {}
    BY <1>1
  <2>2. p \in {5, 6, 7} => RowOf(r1, p).before.takes \subseteq Given(r1, p)
    BY <1>2, <1>8
  <2>3. RowOf(r1, p).image \notin {"none", "fills"} => p \in 3 .. 8
    BY <1>1
  <2> QED
    BY <1>6, <2>1, <2>2, <2>3
<1>10. Ordered(r2)
  <2> SUFFICES ASSUME NEW p \in 1 .. 4
               PROVE  /\ RowOf(r2, p).before.takes = {}
                      /\ RowOf(r2, p).image \notin {"none", "fills"} => Captured(r2, p)
    BY <1>5 DEF Ordered
  <2> QED
    BY <1>3, <1>7
<1>11. \A c \in ReplayCameras : Recipes[c] = r1 \/ Recipes[c] = r2
  BY DEF Recipes, r1, r2
<1> QED
  BY <1>9, <1>10, <1>11

LEMMA GivenFirst == \A r : Given(r, 1) = {} /\ ~Captured(r, 1)
BY DEF Given, Captured

LEMMA GivenNext ==
  ASSUME NEW r, NEW p \in Nat \ {0}
  PROVE  /\ Given(r, p + 1) \subseteq
              RowOf(r, p).before.puts \cup RowOf(r, p).after
                \cup (IF r[p] = "autoRunning" THEN {} ELSE Given(r, p))
         /\ Captured(r, p + 1) => Captured(r, p) \/ RowOf(r, p).image = "fills"
<1>1. ASSUME NEW s \in Given(r, p + 1), s \notin RowOf(r, p).before.puts \cup RowOf(r, p).after
      PROVE  r[p] # "autoRunning" /\ s \in Given(r, p)
  <2>1. PICK q \in 1 .. p : /\ s \in RowOf(r, q).before.puts \cup RowOf(r, q).after
                            /\ \A m \in q + 1 .. p : r[m] # "autoRunning"
    BY DEF Given
  <2>2. q \in 1 .. p - 1 /\ p \in q + 1 .. p
    BY <1>1, <2>1
  <2>3. s \in Replay!Slots
    BY DEF Given
  <2> QED
    BY <2>1, <2>2, <2>3 DEF Given
<1>2. Captured(r, p + 1) => Captured(r, p) \/ RowOf(r, p).image = "fills"
  BY DEF Captured
<1> QED
  BY <1>1, <1>2

ReplayType ==
  /\ rpAt \in [ReplayCameras -> {"idle", "method", "convert"}]
  /\ rpRun \in [ReplayCameras -> Nat]
  /\ rpStep \in [ReplayCameras -> Nat]
  /\ \A c \in ReplayCameras : rpStep[c] \in DOMAIN Recipes[c]
  /\ rpSlots = [c \in ReplayCameras |-> [s \in Replay!Slots |-> rpSlots[c][s]]]
  /\ rpImage = [c \in ReplayCameras |-> rpImage[c]]
  /\ \A c \in ReplayCameras : "from" \in DOMAIN rpImage[c]
  /\ rpResults = [k \in Replay!Kinds |-> rpResults[k]]
  /\ rpEnb \in BOOLEAN /\ rpPrev \in BOOLEAN
  /\ rpAlone \in [ReplayCameras -> BOOLEAN]
  /\ rpMissed = [c \in ReplayCameras |-> rpMissed[c]]

(* While a replay is alone no other camera replays.                        *)
Solo(c) == rpAlone[c] => \A d \in ReplayCameras \ {c} : rpAt[d] = "idle"

(* Then what its recipe has given so far is of its own run, in the table,  *)
(* in the result structure not yet converted, and in the image buffer; but *)
(* for the mark, when a match of the run has found none.                   *)
OldMark(c, s) == rpMissed[c] /\ s = "ret_FMark_PatternMatch"
GivenIsOwn(c) ==
  rpAlone[c] /\ rpAt[c] # "idle" =>
    LET r == Recipes[c]
        p == rpStep[c]
    IN /\ rpEnb
       /\ rpAt[c] = "method" =>
            /\ \A s \in Given(r, p) : rpSlots[c][s] = Replay!Own(c) \/ OldMark(c, s)
            /\ Captured(r, p) => rpImage[c].from = Replay!Own(c)
       /\ rpAt[c] = "convert" =>
            /\ rpResults[r[p]] = Replay!Own(c) \/ (rpMissed[c] /\ r[p] = "patternMatch")
            /\ \A s \in Given(r, p + 1) : s \notin RowOf(r, p).after =>
                 rpSlots[c][s] = Replay!Own(c) \/ OldMark(c, s)
            /\ Captured(r, p + 1) => rpImage[c].from = Replay!Own(c)

ReplayInv == ReplayType /\ \A c \in ReplayCameras : Solo(c) /\ GivenIsOwn(c)

LEMMA RecipeKinds ==
  \A c \in ReplayCameras :
    /\ Recipes[c] \in Seq(Replay!Kinds) /\ Len(Recipes[c]) \in Nat /\ Len(Recipes[c]) # 0
    /\ DOMAIN Recipes[c] = 1 .. Len(Recipes[c])
    /\ \A p \in DOMAIN Recipes[c] : Recipes[c][p] \in Replay!Kinds
<1> SUFFICES ASSUME NEW c \in ReplayCameras
             PROVE  /\ Recipes[c] \in Seq(Replay!Kinds) /\ Len(Recipes[c]) \in Nat
                    /\ Len(Recipes[c]) # 0 /\ DOMAIN Recipes[c] = 1 .. Len(Recipes[c])
                    /\ \A p \in DOMAIN Recipes[c] : Recipes[c][p] \in Replay!Kinds
  OBVIOUS
<1>1. Recipes[c] \in Seq(Replay!Kinds) /\ Recipes[c] # << >>
  BY ReplayAssumption DEF Replay!RecipeAssumption
<1> HIDE DEF Recipes, Replay!Kinds
<1> QED
  BY <1>1

LEMMA ReplaySteps ==
  [AllNext]_<<machine, vars, replayVars, commandVars, ioVars>> => [Replay!Next]_replayVars
BY DEF AllNext, L, R, C, I, Replay!Next

LEMMA BeginKeeps ==
  ASSUME ReplayInv, NEW b \in ReplayCameras, Replay!Begin(b)
  PROVE  ReplayInv'
<1> USE DEF ReplayInv, ReplayType
<1>1. /\ rpAt' = [rpAt EXCEPT ![b] = "method"] /\ rpRun' = [rpRun EXCEPT ![b] = @ + 1]
      /\ rpStep' = [rpStep EXCEPT ![b] = 1] /\ rpEnb' = TRUE
      /\ rpAlone' = [d \in ReplayCameras |->
                       d = b /\ \A e \in ReplayCameras \ {b} : ~Replay!Busy(e)]
      /\ UNCHANGED <<rpSlots, rpImage, rpResults, rpPrev, rpMissed>>
  BY DEF Replay!Begin
<1>2. ReplayType'
  <2>1. \A c \in ReplayCameras : rpStep'[c] \in DOMAIN Recipes[c]
    BY <1>1, RecipeKinds
  <2>2. rpAlone' \in [ReplayCameras -> BOOLEAN]
    BY <1>1
  <2> QED
    BY <1>1, <2>1, <2>2
<1>3. ASSUME NEW c \in ReplayCameras, rpAlone'[c]
      PROVE  /\ c = b /\ \A d \in ReplayCameras \ {c} : rpAt'[d] = "idle"
             /\ rpAt'[c] = "method" /\ rpStep'[c] = 1
  BY <1>1, <1>3 DEF Replay!Busy
<1>4. \A c \in ReplayCameras : Solo(c)'
  BY <1>3 DEF Solo
<1>5. \A c \in ReplayCameras : GivenIsOwn(c)'
  <2> SUFFICES ASSUME NEW c \in ReplayCameras, rpAlone'[c] PROVE GivenIsOwn(c)'
    <3>1. \A c \in ReplayCameras : ~rpAlone'[c] => GivenIsOwn(c)'
      BY DEF GivenIsOwn
    <3> QED
      BY <3>1
  <2>1. Given(Recipes[c], 1) = {} /\ ~Captured(Recipes[c], 1)
    BY GivenFirst
  <2>2. rpAt'[c] = "method" /\ rpStep'[c] = 1 /\ rpEnb'
    BY <1>1, <1>3
  <2> HIDE DEF ReplayInv, ReplayType
  <2> QED
    BY <2>1, <2>2 DEF GivenIsOwn
<1> QED
  BY <1>2, <1>4, <1>5

LEMMA DeactivateKeeps ==
  ASSUME ReplayInv, NEW b \in ReplayCameras, Replay!Deactivate(b)
  PROVE  ReplayInv'
<1> USE DEF ReplayInv, ReplayType
<1>1. /\ rpAt[b] = "idle" /\ rpEnb' = FALSE
      /\ rpAlone' = [d \in ReplayCameras |-> rpAlone[d] /\ d = b]
      /\ UNCHANGED <<rpAt, rpRun, rpStep, rpSlots, rpImage, rpResults, rpPrev, rpMissed>>
  BY DEF Replay!Deactivate, Replay!Interferes
<1>2. rpAlone' \in [ReplayCameras -> BOOLEAN]
  BY <1>1
<1>3. ASSUME NEW c \in ReplayCameras, rpAlone'[c] PROVE c = b /\ rpAlone[c] /\ rpAt'[c] = "idle"
  BY <1>1, <1>3
<1> QED
  BY <1>1, <1>2, <1>3 DEF Solo, GivenIsOwn

LEMMA MethodKeeps ==
  ASSUME ReplayInv, NEW b \in ReplayCameras, Replay!Method(b)
  PROVE  ReplayInv'
<1> USE DEF ReplayInv, ReplayType
<1> DEFINE r == Recipes[b]
           p == rpStep[b]
           w == RowOf(r, p)
<1>1. PICK ok \in BOOLEAN, hit \in BOOLEAN :
        /\ ~hit => r[p] = "patternMatch"
        /\ rpSlots' = [rpSlots EXCEPT ![b] =
                         [s \in Replay!Slots |-> IF rpEnb /\ s \in w.before.puts THEN Replay!Own(b)
                                                 ELSE Replay!Table(b)[s]]]
        /\ rpImage' = [rpImage EXCEPT ![b] = Replay!Altered(b, ok)]
        /\ rpResults' = [rpResults EXCEPT ![r[p]] = IF hit THEN Replay!Own(b) ELSE rpMatch]
        /\ rpMissed' = [rpMissed EXCEPT ![b] = ok /\ (@ \/ ~hit)]
        /\ rpAt' = [rpAt EXCEPT ![b] = IF ok THEN "convert" ELSE "idle"]
        /\ rpEnb' = (rpEnb /\ ok)
        /\ rpPrev' = IF ~ok THEN FALSE ELSE IF Replay!Switches(b) THEN rpEnb ELSE rpPrev
        /\ rpAlone' = IF ok /\ ~Replay!Switches(b) THEN rpAlone ELSE Replay!Interferes(b)
  BY DEF Replay!Method, Replay!Matches, Replay!Cvt, Replay!Kind, RowOf
<1>2. rpAt[b] = "method" /\ UNCHANGED <<rpRun, rpStep>>
  BY DEF Replay!Method
<1>3. p \in DOMAIN r /\ r[p] \in Replay!Kinds /\ p \in Nat \ {0}
  BY RecipeKinds
<1>4. /\ "from" \in DOMAIN Replay!Altered(b, ok)
      /\ Replay!Altered(b, ok).from = rpImage[b].from \/ w.image = "fills"
      /\ ok /\ w.image = "fills" => Replay!Altered(b, ok).from = Replay!Own(b)
  BY DEF Replay!Altered, Replay!Cvt, Replay!Kind, RowOf, Replay!NoImage
<1>5. \A d \in ReplayCameras : rpAlone'[d] => d = b /\ rpAlone[b]
  <2>1. \A d \in ReplayCameras : rpAlone[d] => d = b
    BY <1>2 DEF Solo
  <2> QED
    BY <1>1, <2>1 DEF Replay!Interferes
<1>6. ReplayType'
  <2>1. rpAlone' \in [ReplayCameras -> BOOLEAN]
    BY <1>1 DEF Replay!Interferes
  <2>2. rpEnb' \in BOOLEAN /\ rpPrev' \in BOOLEAN
    <3>1. rpEnb' \in BOOLEAN
      BY <1>1
    <3>2. rpPrev' \in BOOLEAN
      BY <1>1
    <3> QED
      BY <3>1, <3>2
  <2>3. rpAt' \in [ReplayCameras -> {"idle", "method", "convert"}]
    BY <1>1
  <2>4. rpSlots' = [c \in ReplayCameras |-> [s \in Replay!Slots |-> rpSlots'[c][s]]]
    BY <1>1
  <2>5. /\ rpImage' = [c \in ReplayCameras |-> rpImage'[c]]
        /\ \A c \in ReplayCameras : "from" \in DOMAIN rpImage'[c]
    BY <1>1, <1>4
  <2>6. rpResults' = [k \in Replay!Kinds |-> rpResults'[k]]
        /\ rpMissed' = [c \in ReplayCameras |-> rpMissed'[c]]
    BY <1>1
  <2> QED
    BY <1>2, <2>1, <2>2, <2>3, <2>4, <2>5, <2>6
<1>7. \A d \in ReplayCameras : Solo(d)'
  <2>1. \A d \in ReplayCameras : d # b => rpAt'[d] = rpAt[d]
    BY <1>1
  <2> QED
    BY <1>5, <2>1 DEF Solo
<1>8. \A d \in ReplayCameras : GivenIsOwn(d)'
  <2> SUFFICES ASSUME rpAlone[b], rpAt'[b] # "idle" PROVE GivenIsOwn(b)'
    BY <1>5 DEF GivenIsOwn
  <2>1. ok /\ rpAt'[b] = "convert" /\ rpEnb' = rpEnb /\ rpEnb
    BY <1>1, <1>2 DEF GivenIsOwn
  <2>2. Replay!Own(b)' = Replay!Own(b)
    BY <1>2 DEF Replay!Own
  <2>m. rpMissed'[b] <=> rpMissed[b] \/ ~hit
    BY <1>1, <2>1
  <2>3. rpResults'[r[p]] = Replay!Own(b) \/ (rpMissed'[b] /\ r[p] = "patternMatch")
    BY <1>1, <1>3, <2>m
  <2>4. /\ \A s \in Given(r, p) : rpSlots[b][s] = Replay!Own(b) \/ OldMark(b, s)
        /\ Captured(r, p) => rpImage[b].from = Replay!Own(b)
    BY <1>2 DEF GivenIsOwn
  <2>5. \A s \in Given(r, p + 1) : s \notin w.after =>
          rpSlots'[b][s] = Replay!Own(b) \/ OldMark(b, s)'
    <3> SUFFICES ASSUME NEW s \in Given(r, p + 1), s \notin w.after
                 PROVE  rpSlots'[b][s] = Replay!Own(b) \/ OldMark(b, s)'
      OBVIOUS
    <3>1. s \in Replay!Slots
      BY DEF Given
    <3>2. rpSlots'[b][s] = IF s \in w.before.puts THEN Replay!Own(b) ELSE Replay!Table(b)[s]
      BY <1>1, <2>1, <3>1
    <3>3. s \in w.before.puts \/ (r[p] # "autoRunning" /\ s \in Given(r, p))
      BY <1>3, GivenNext
    <3>4. r[p] # "autoRunning" => Replay!Table(b) = rpSlots[b]
      BY DEF Replay!Table, Replay!Switches, Replay!Kind
    <3>5. OldMark(b, s) => OldMark(b, s)'
      BY <2>m DEF OldMark
    <3> QED
      BY <2>4, <3>2, <3>3, <3>4, <3>5
  <2>6. Captured(r, p + 1) => rpImage'[b].from = Replay!Own(b)
    <3>1. rpImage'[b] = Replay!Altered(b, ok)
      BY <1>1
    <3>2. Captured(r, p + 1) => Captured(r, p) \/ w.image = "fills"
      BY <1>3, GivenNext
    <3> QED
      BY <1>4, <2>1, <2>4, <3>1, <3>2
  <2> QED
    BY <1>2, <2>1, <2>2, <2>3, <2>5, <2>6 DEF GivenIsOwn, OldMark
<1> QED
  BY <1>6, <1>7, <1>8

LEMMA ConvertKeeps ==
  ASSUME ReplayInv, NEW b \in ReplayCameras, Replay!Convert(b)
  PROVE  ReplayInv'
<1> USE DEF ReplayInv, ReplayType
<1> DEFINE r == Recipes[b]
           p == rpStep[b]
           w == RowOf(r, p)
<1>1. /\ rpAt[b] = "convert"
      /\ rpSlots' = [rpSlots EXCEPT ![b] =
                       [s \in Replay!Slots |-> IF rpEnb /\ s \in w.after THEN rpResults[r[p]]
                                               ELSE rpSlots[b][s]]]
      /\ rpAt' = [rpAt EXCEPT ![b] = IF p = Len(r) THEN "idle" ELSE "method"]
      /\ rpStep' = [rpStep EXCEPT ![b] = IF p = Len(r) THEN 1 ELSE p + 1]
      /\ rpMissed' = [rpMissed EXCEPT ![b] = @ /\ p # Len(r)]
      /\ UNCHANGED <<rpRun, rpImage, rpResults, rpEnb, rpPrev, rpAlone>>
  BY DEF Replay!Convert, Replay!Cvt, Replay!Kind, Replay!Last, RowOf
<1>2. p \in 1 .. Len(r) /\ Len(r) \in Nat /\ DOMAIN r = 1 .. Len(r)
  BY RecipeKinds
<1>3. ReplayType'
  <2>1. \A c \in ReplayCameras : rpStep'[c] \in DOMAIN Recipes[c]
    BY <1>1, <1>2
  <2>2. rpStep' \in [ReplayCameras -> Nat]
    BY <1>1, <1>2
  <2>3. rpSlots' = [c \in ReplayCameras |-> [s \in Replay!Slots |-> rpSlots'[c][s]]]
    BY <1>1
  <2> QED
    BY <1>1, <2>1, <2>2, <2>3
<1>4. \A d \in ReplayCameras : rpAlone[d] => d = b
  BY <1>1 DEF Solo
<1>5. \A d \in ReplayCameras : Solo(d)'
  <2>1. \A d \in ReplayCameras : d # b => rpAt'[d] = rpAt[d]
    BY <1>1
  <2> QED
    BY <1>1, <1>4, <2>1 DEF Solo
<1>6. \A d \in ReplayCameras : GivenIsOwn(d)'
  <2> SUFFICES ASSUME rpAlone[b], rpAt'[b] # "idle" PROVE GivenIsOwn(b)'
    <3>1. \A d \in ReplayCameras : ~rpAlone'[d] \/ rpAt'[d] = "idle" => GivenIsOwn(d)'
      BY DEF GivenIsOwn
    <3>2. \A d \in ReplayCameras : rpAlone'[d] => d = b /\ rpAlone[b]
      BY <1>1, <1>4
    <3> QED
      BY <3>1, <3>2
  <2>1. p # Len(r) /\ rpAt'[b] = "method" /\ rpStep'[b] = p + 1
    BY <1>1
  <2>2. Replay!Own(b)' = Replay!Own(b)
    BY <1>1 DEF Replay!Own
  <2>3. /\ rpEnb /\ (rpResults[r[p]] = Replay!Own(b) \/ (rpMissed[b] /\ r[p] = "patternMatch"))
        /\ \A s \in Given(r, p + 1) : s \notin w.after =>
             rpSlots[b][s] = Replay!Own(b) \/ OldMark(b, s)
        /\ Captured(r, p + 1) => rpImage[b].from = Replay!Own(b)
    BY <1>1 DEF GivenIsOwn
  <2>m. rpMissed'[b] <=> rpMissed[b]
    BY <1>1, <2>1
  <2>4. \A s \in Given(r, p + 1) : rpSlots'[b][s] = Replay!Own(b) \/ OldMark(b, s)'
    <3> SUFFICES ASSUME NEW s \in Given(r, p + 1)
                 PROVE  rpSlots'[b][s] = Replay!Own(b) \/ OldMark(b, s)'
      OBVIOUS
    <3>1. s \in Replay!Slots
      BY DEF Given
    <3>2. r[p] = "patternMatch" /\ s \in w.after => s = "ret_FMark_PatternMatch"
      BY <1>2, RecipeKinds, ReplayRows DEF RowOf
    <3>3. rpSlots'[b][s] = IF s \in w.after THEN rpResults[r[p]] ELSE rpSlots[b][s]
      BY <1>1, <2>3, <3>1
    <3> QED
      BY <2>3, <2>m, <3>2, <3>3 DEF OldMark
  <2> QED
    BY <1>1, <2>1, <2>2, <2>3, <2>4 DEF GivenIsOwn, OldMark
<1> QED
  BY <1>3, <1>5, <1>6

(* A replay during which no other camera replays, fails or is switched     *)
(* works with values of its own run only: what it takes from the table,    *)
(* the image it searches or reads and the results it hands on, for any     *)
(* cameras and any number of runs, whatever the runs before it and the     *)
(* other camera have left there; but for the mark itself, when a match of  *)
(* the run has found none and so hands on the last one that was found.     *)
THEOREM ReplaysAloneAreOwn == AllSpec => []ReplayAloneIsOwn
<1>1. AllInit => ReplayInv
  <2> SUFFICES ASSUME AllInit PROVE ReplayInv
    OBVIOUS
  <2>1. Replay!Init
    BY DEF AllInit
  <2>2. ReplayType
    <3>1. \A c \in ReplayCameras : rpStep[c] \in DOMAIN Recipes[c]
      BY <2>1, RecipeKinds DEF Replay!Init
    <3> QED
      BY <2>1, <3>1 DEF ReplayType, Replay!Init, Replay!Empty, Replay!NoImage
  <2>3. \A c \in ReplayCameras : ~rpAlone[c]
    BY <2>1 DEF Replay!Init
  <2> QED
    BY <2>2, <2>3 DEF ReplayInv, Solo, GivenIsOwn
<1>2. ReplayInv /\ [Replay!Next]_replayVars => ReplayInv'
  <2> SUFFICES ASSUME ReplayInv, [Replay!Next]_replayVars PROVE ReplayInv'
    OBVIOUS
  <2>1. CASE UNCHANGED replayVars
    BY <2>1 DEF replayVars, ReplayInv, ReplayType, Solo, GivenIsOwn, OldMark, Replay!Own
  <2> QED
    BY <2>1, BeginKeeps, DeactivateKeeps, MethodKeeps, ConvertKeeps DEF Replay!Next
<1>3. ReplayInv => ReplayAloneIsOwn
  <2> SUFFICES ASSUME ReplayInv, NEW c \in ReplayCameras, rpAlone[c] PROVE Replay!OwnValues(c, TRUE)
    BY DEF ReplayAloneIsOwn, Replay!AloneIsOwn
  <2> USE DEF ReplayInv, ReplayType
  <2> DEFINE r == Recipes[c]
             p == rpStep[c]
             w == RowOf(r, p)
  <2>1. /\ p \in DOMAIN r /\ r[p] \in Replay!Kinds /\ Replay!Kind(c) = r[p] /\ Replay!Cvt(c) = w
        /\ w.before.takes \subseteq Given(r, p)
        /\ w.image \notin {"none", "fills"} => Captured(r, p)
    BY RecipeKinds, RecipesOrdered DEF Replay!Kind, Replay!Cvt, RowOf, Ordered
  <2>2. CASE rpAt[c] = "method"
    <3>1. /\ rpEnb /\ \A s \in Given(r, p) : rpSlots[c][s] = Replay!Own(c) \/ OldMark(c, s)
          /\ Captured(r, p) => rpImage[c].from = Replay!Own(c)
      BY <2>2 DEF GivenIsOwn
    <3>2. Replay!Switches(c) => w.before.takes = {}
      BY <2>1, ReplayRows DEF Replay!Switches, RowOf
    <3>3. \A s \in w.before.takes : Replay!Table(c)[s] = Replay!Own(c) \/ OldMark(c, s)
      BY <2>1, <3>1, <3>2 DEF Replay!Table
    <3>4. \A s \in w.before.takes :
            \/ Replay!Parameter(c, s) = Replay!Own(c)
            \/ rpMissed[c] /\ s \in Replay!cvtRet2AP_PatternMatch
      BY <3>1, <3>3 DEF Replay!Parameter, OldMark, Replay!cvtRet2AP_PatternMatch
    <3>5. Replay!Images(c) \subseteq {Replay!Own(c)}
      BY <2>1, <3>1 DEF Replay!Images
    <3> QED
      BY <2>1, <2>2, <3>4, <3>5 DEF Replay!OwnValues
  <2>3. CASE rpAt[c] = "convert"
    BY <2>1, <2>3 DEF GivenIsOwn, Replay!OwnValues
  <2> QED
    BY <2>2, <2>3 DEF Replay!OwnValues
<1>4. ReplayInv /\ [AllNext]_<<machine, vars, replayVars, commandVars, ioVars>> => ReplayInv'
  BY <1>2, ReplaySteps
<1> QED
  BY <1>1, <1>3, <1>4, PTL DEF AllSpec
===============================================================================
