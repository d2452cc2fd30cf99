---------------------------- MODULE MeasureLibrary ----------------------------
(***************************************************************************)
(* The image-processing library behind pter_hdl_IPL: one                   *)
(* PTWDLL_C_GlueWidth object, created once and used by the worker threads  *)
(* of both cameras (Measure_GlueWidth_ConcreteClass.cpp).  Its vbs_        *)
(* functions check the input image and the region and then drive one of    *)
(* its tool objects in three calls without a lock: SetParameter clears the *)
(* tool and keeps the arguments in its members, TestIt computes from the   *)
(* members and the image, GetResult copies the members out.  Several vbs_  *)
(* functions share the members of one tool.                                *)
(*                                                                         *)
(* What the images and regions are is left out; the model follows where a  *)
(* result comes from: the call whose arguments and the call whose image it *)
(* was computed from.  A call is numbered by its turn.                     *)
(***************************************************************************)
EXTENDS Naturals

CONSTANTS
    Workers,    \* the camera threads
    Methods,    \* the vbs_ functions called: a subset of DOMAIN Vbs
    Inputs,     \* the kinds of arguments: a subset of InputKinds
    MaxCalls    \* how many calls are made

(* "good" arguments; an image that cannot be read; a region larger than    *)
(* the image; arguments that pass the checks of the vbs_ function and are  *)
(* refused by the tool (circles not nested, inverted limits, no file); for *)
(* the pattern matching, an image that does not show the mark.             *)
InputKinds == {"good", "noImage", "tooLarge", "refused", "noMark"}

None == 0   \* no call

-----------------------------------------------------------------------------
(* The vbs_ functions.  `tool`: whose members they use; `checks`: the      *)
(* inputs their own checks refuse; `passes`: their return value is that of *)
(* GetResult ("last") or always 0 ("zero").                                *)

Row(tool, checks, passes) == [tool |-> tool, checks |-> checks, passes |-> passes]

Image == {"noImage"}
ImageAndRegion == {"noImage", "tooLarge"}

vbs_Align_ImageCalibration == Row("calibration", Image, "last")
vbs_Align_PatternMatch == Row("pattern", ImageAndRegion, "last")
vbs_Align_FindProfile == Row("circle", ImageAndRegion, "last")
vbs_Align_DetectCircle == Row("circle", ImageAndRegion, "last")
vbs_InspectBox_Annulus == Row("box", ImageAndRegion, "last")
vbs_InspectBox_Rect == Row("box", ImageAndRegion, "last")
vbs_InspectBox_Circle == Row("box", ImageAndRegion, "last")
vbs_InspectBox_CoordCalculate == Row("coordinates", {}, "last")
vbs_InspectBox_CropImg_Annulus == Row("crop", ImageAndRegion, "last")
vbs_InspectBox_CropImg_Rect == Row("crop", ImageAndRegion, "last")
vbs_InspectBox_CropImg_Circle == Row("crop", ImageAndRegion, "last")
vbs_Histogram_Annulus == Row("histogram", ImageAndRegion, "last")
vbs_Histogram_Rect == Row("histogram", ImageAndRegion, "last")
vbs_Histogram_Circle == Row("histogram", ImageAndRegion, "last")
vbs_Threshold == Row("threshold", Image, "zero")
vbs_Morphology == Row("morphology", Image, "zero")
vbs_NoiseRemoval == Row("noise", Image, "zero")
vbs_DataAugmentation == Row("augmentation", Image, "zero")
vbs_GlueWidth_Measure_Annulus == Row("measure", ImageAndRegion, "zero")
vbs_GlueWidth_Measure_Rect == Row("measure", ImageAndRegion, "zero")

Vbs == [calibration |-> vbs_Align_ImageCalibration,
        patternMatch |-> vbs_Align_PatternMatch,
        findProfile |-> vbs_Align_FindProfile,
        detectCircle |-> vbs_Align_DetectCircle,
        boxAnnulus |-> vbs_InspectBox_Annulus,
        boxRect |-> vbs_InspectBox_Rect,
        boxCircle |-> vbs_InspectBox_Circle,
        coordinates |-> vbs_InspectBox_CoordCalculate,
        cropAnnulus |-> vbs_InspectBox_CropImg_Annulus,
        cropRect |-> vbs_InspectBox_CropImg_Rect,
        cropCircle |-> vbs_InspectBox_CropImg_Circle,
        histogramAnnulus |-> vbs_Histogram_Annulus,
        histogramRect |-> vbs_Histogram_Rect,
        histogramCircle |-> vbs_Histogram_Circle,
        threshold |-> vbs_Threshold,
        morphology |-> vbs_Morphology,
        noiseRemoval |-> vbs_NoiseRemoval,
        augmentation |-> vbs_DataAugmentation,
        measureAnnulus |-> vbs_GlueWidth_Measure_Annulus,
        measureRect |-> vbs_GlueWidth_Measure_Rect]

Tools == {"calibration", "pattern", "circle", "box", "coordinates", "crop",
          "histogram", "threshold", "morphology", "noise", "augmentation", "measure"}

Tool(m) == Vbs[m].tool

ASSUME MethodsAssumption == Methods \subseteq DOMAIN Vbs
ASSUME InputsAssumption == Inputs \subseteq InputKinds
ASSUME BoundAssumption == MaxCalls \in Nat

-----------------------------------------------------------------------------
VARIABLES
    kept,     \* per tool: the call whose arguments its members hold
    form,     \* per tool: the vbs_ function that set them (the shape), or "none"
    found,    \* per tool: where the result in its members comes from; of the
              \* pattern tool, the targets of the last search (m_vecSingleTargetData)
    match,    \* where the match it last returned comes from (m_retTargetMatch)
    calls,    \* how many calls were begun
    at,       \* per worker: where its call stands
    call,     \* per worker: its call: number, function, kind of arguments
    alone,    \* per worker: no other call has touched the tool since it began
    back      \* per worker: what its last call returned

vars == <<kept, form, found, match, calls, at, call, alone, back>>

Calls == 0 .. MaxCalls
Origin == [args : Calls, image : Calls]
Cleared == [args |-> None, image |-> None]

TypeOK ==
    /\ kept \in [Tools -> Calls]
    /\ form \in [Tools -> Methods \cup {"none"}]
    /\ found \in [Tools -> Origin]
    /\ match \in Origin
    /\ calls \in Calls
    /\ at \in [Workers -> {"idle", "set", "test", "get"}]
    /\ call \in [Workers -> [no : Calls, method : Methods \cup {"none"},
                             input : Inputs \cup {"none"}]]
    /\ alone \in [Workers -> BOOLEAN]
    /\ back \in [Workers -> [ok : BOOLEAN, from : Origin, no : Calls,
                             input : Inputs \cup {"none"}, alone : BOOLEAN]]

NoReturn == [ok |-> FALSE, from |-> Cleared, no |-> None, input |-> "none", alone |-> FALSE]

Init ==
    /\ kept = [t \in Tools |-> None]
    /\ form = [t \in Tools |-> "none"]
    /\ found = [t \in Tools |-> Cleared]
    /\ match = Cleared
    /\ calls = 0
    /\ at = [w \in Workers |-> "idle"]
    /\ call = [w \in Workers |-> [no |-> None, method |-> "none", input |-> "none"]]
    /\ alone = [w \in Workers |-> FALSE]
    /\ back = [w \in Workers |-> NoReturn]

(* The other workers in the middle of a call on tool t lose the tool.      *)
Disturb(w, t) ==
    alone' = [v \in Workers |->
                IF v = w THEN alone[w]
                ELSE alone[v] /\ ~(at[v] \in {"test", "get"} /\ Tool(call[v].method) = t)]

-----------------------------------------------------------------------------
(* A worker calls a vbs_ function; its checks let it pass or refuse it     *)
(* before the tool is touched.  The checks compare sizes only.             *)
Enter(w) ==
    /\ at[w] = "idle" /\ calls < MaxCalls
    /\ \E m \in Methods, i \in Inputs :
        /\ i = "refused" => Tool(m) \in {"circle", "noise", "augmentation"}
        /\ i = "noMark" => Tool(m) = "pattern"
        /\ calls' = calls + 1
        /\ call' = [call EXCEPT ![w] = [no |-> calls + 1, method |-> m, input |-> i]]
        /\ alone' = [alone EXCEPT ![w] = TRUE]
        /\ IF i \in Vbs[m].checks
           THEN /\ back' = [back EXCEPT ![w] = [ok |-> FALSE, from |-> Cleared, no |-> calls + 1,
                                                input |-> i, alone |-> TRUE]]
                /\ UNCHANGED at
           ELSE /\ at' = [at EXCEPT ![w] = "set"]
                /\ UNCHANGED back
    /\ UNCHANGED <<kept, form, found, match>>

(* Mutant: members already set by the same function are trusted. *)
KeepsOldOnce(m, i) == (i = "refused" /\ Tool(m) = "circle") \/ form[Tool(m)] = m

(* What SetParameter leaves in the tool: the circle tools refuse before    *)
(* they clear, noise removal clears before it refuses; the data            *)
(* augmentation has nothing to refuse and nothing to clear.  What the      *)
(* pattern matching clears is not what its result is taken from.           *)
KeepsOld(m, i) == i = "refused" /\ Tool(m) = "circle"
ClearsOnly(m, i) == i = "refused" /\ Tool(m) = "noise"
Stored(m, i, n) == [args |-> IF ClearsOnly(m, i) THEN None ELSE n,
                    form |-> IF ClearsOnly(m, i) THEN "none" ELSE m]
KeepsResult == {"augmentation", "pattern"}

SetParameter(w) ==
    LET m == call[w].method
        i == call[w].input
        t == Tool(m)
        s == Stored(m, i, call[w].no)
    IN /\ at[w] = "set"
       /\ IF KeepsOld(m, i)
          THEN UNCHANGED <<kept, form, found>>
          ELSE /\ kept' = [kept EXCEPT ![t] = s.args]
               /\ form' = [form EXCEPT ![t] = s.form]
               /\ found' = IF t \in KeepsResult THEN found
                           ELSE [found EXCEPT ![t] = Cleared]
       /\ at' = [at EXCEPT ![w] = "test"]
       /\ Disturb(w, t)
       /\ UNCHANGED <<match, calls, call, back>>

(* TestIt computes from the members whatever call has set them.  The       *)
(* histogram and the coordinates take everything from the members; the     *)
(* calibration looks for its image in a member that its SetParameter,      *)
(* whose argument has the member's name, never fills, and gives up; the    *)
(* augmentation gives up without a file name; box, crop and measure give   *)
(* up when the members hold no shape.                                      *)
TestFails(w, t) ==
    \/ t = "calibration"
    \/ t = "augmentation" /\ call[w].input = "refused"
    \/ t \in {"box", "crop", "measure"} /\ form[t] = "none"
Computed(w, t) ==
    [args |-> kept[t],
     image |-> IF t \in {"histogram", "coordinates"} THEN kept[t] ELSE call[w].no]

(* A search for a mark that the image does not show leaves no target; its  *)
(* return value is not looked at.                                          *)
Tested(w, t) ==
    IF t = "pattern" /\ call[w].input = "noMark" THEN Cleared ELSE Computed(w, t)

TestIt(w) ==
    LET t == Tool(call[w].method)
    IN /\ at[w] = "test"
       /\ found' = IF TestFails(w, t) THEN found ELSE [found EXCEPT ![t] = Tested(w, t)]
       /\ at' = [at EXCEPT ![w] = "get"]
       /\ Disturb(w, t)
       /\ UNCHANGED <<kept, form, match, calls, call, back>>

(* GetResult: the return values of the two earlier calls are overwritten.  *)
(* A crop of no shape is an error; so is an empty image of the image       *)
(* filters, which return 0 all the same.  Without a target the pattern     *)
(* matching returns 0 and the match it has returned last, of whatever      *)
(* call, moved to the search region of this one.                           *)
Held(t) == IF t = "pattern" /\ found[t] = Cleared THEN match ELSE found[t]
Succeeds(m) == Vbs[m].passes = "zero" \/ ~(Tool(m) = "crop" /\ form["crop"] = "none")

GetResult(w) ==
    LET m == call[w].method
        t == Tool(m)
    IN /\ at[w] = "get"
       /\ match' = IF t = "pattern" THEN Held(t) ELSE match
       /\ back' = [back EXCEPT ![w] = [ok |-> Succeeds(m), from |-> Held(t),
                                       no |-> call[w].no, input |-> call[w].input,
                                       alone |-> alone[w]]]
       /\ at' = [at EXCEPT ![w] = "idle"]
       /\ UNCHANGED <<kept, form, found, calls, call, alone>>

Next == \E w \in Workers : Enter(w) \/ SetParameter(w) \/ TestIt(w) \/ GetResult(w)

Spec == Init /\ [][Next]_vars

-----------------------------------------------------------------------------
OwnOrigin(n) == [args |-> n, image |-> n]

(* A call that nobody disturbed and that was given good arguments, with    *)
(* the mark in the image when it looks for one, returns, when it returns   *)
(* 0, a result computed from its own arguments and its own image: nothing  *)
(* of an earlier call, or of another camera's call on another tool, is     *)
(* left in it.  An earlier call's match is, when the mark is not found.    *)
UndisturbedIsOwn ==
    \A w \in Workers :
        back[w].ok /\ back[w].alone /\ back[w].input = "good"
            => back[w].from = OwnOrigin(back[w].no)

(* A call that returns 0 returns a result computed from its own arguments  *)
(* and its own image.                                                      *)
SuccessIsOwn ==
    \A w \in Workers : back[w].ok => back[w].from = OwnOrigin(back[w].no)
=============================================================================
