----------------------------- MODULE RecipeReplay -----------------------------
(***************************************************************************)
(* The data of a replayed recipe.  A trigger makes the worker of a camera  *)
(* run the methods it has recorded one after the other                     *)
(* (ips_process_Dual).  Their values are handed on through the table of    *)
(* all parameters (seAllParam), which belongs to the worker: before a      *)
(* method the AP2P converter of its command fills its parameters from the  *)
(* table, after it the Ret2AP converter copies its results into the table. *)
(* The image is handed on through a buffer of the worker (imgBuf).         *)
(*                                                                         *)
(* The result structures the converters read belong to the commands and    *)
(* the flag that enables the converters is static: both are shared by the  *)
(* cameras.  When a recipe is recorded, and that its mode is the one asked *)
(* for, is the matter of AutoRunRecorder.                                  *)
(*                                                                         *)
(* A value is the run of the camera it was computed in; run 0 stands for   *)
(* the arguments the command was recorded with.                            *)
(***************************************************************************)
EXTENDS Naturals, Sequences

CONSTANTS
    Cameras,     \* the cameras
    Recipe,      \* per camera: the commands it has recorded, in order
    MaxRuns      \* per camera: how many runs it makes

-----------------------------------------------------------------------------
(* The table of all parameters (seAllParamTable_MeasGW_Annulus).           *)
Slots == {"ret_FMark_PatternMatch", "set_IBox_Annulus", "ret_BBox_Annulus",
          "set_IBox_Rect", "ret_BBox_Rect", "ret_CoBBox_CalcCoord",
          "ret_CropImg_Annulu", "ret_CropImg_Rect"}

(* AP2P converters: what they take from the table into the parameters, and *)
(* what they put into the table from the recorded parameters.              *)
AP2P(takes, puts) == [takes |-> takes, puts |-> puts]

cvtAP2P_IBOX_Annulus == AP2P({}, {"set_IBox_Annulus"})
cvtAP2P_IBOX_Rect == AP2P({}, {"set_IBox_Rect"})
cvtAP2P_CalcCoord == AP2P({"ret_FMark_PatternMatch", "ret_BBox_Annulus"}, {})
cvtAP2P_Crop_Annulus == AP2P({"ret_CoBBox_CalcCoord", "set_IBox_Annulus"}, {})
cvtAP2P_Crop_Rect == AP2P({"ret_CoBBox_CalcCoord", "set_IBox_Rect"}, {})
cvtAP2P_MeasGW_Annulus == AP2P({"ret_CropImg_Annulu"}, {})
cvtAP2P_MeasGW_Rect == AP2P({"ret_CropImg_Rect"}, {})

(* Mutant: the result of the coordinates is not handed on. *)
cvtRet2AP_Nothing == {}

(* Ret2AP converters: the slot they copy the result structure into.        *)
cvtRet2AP_PatternMatch == {"ret_FMark_PatternMatch"}
cvtRet2AP_IBOX_Annulus == {"ret_BBox_Annulus"}
cvtRet2AP_IBOX_Rect == {"ret_BBox_Rect"}
cvtRet2AP_CalcCoord == {"ret_CoBBox_CalcCoord"}
cvtRet2AP_Crop_Annulus == {"ret_CropImg_Annulu"}
cvtRet2AP_Crop_Rect == {"ret_CropImg_Rect"}

(* The commands of a recipe: their converters, and what their method does  *)
(* with the image buffer.                                                  *)
Row(before, after, image) == [before |-> before, after |-> after, image |-> image]
NoAP2P == AP2P({}, {})

Commands ==
    [autoRunning |-> Row(NoAP2P, {}, "none"),
     capture |-> Row(NoAP2P, {}, "fills"),
     patternMatch |-> Row(NoAP2P, cvtRet2AP_PatternMatch, "searches"),
     boxAnnulus |-> Row(cvtAP2P_IBOX_Annulus, cvtRet2AP_IBOX_Annulus, "searches"),
     boxRect |-> Row(cvtAP2P_IBOX_Rect, cvtRet2AP_IBOX_Rect, "searches"),
     calcCoord |-> Row(cvtAP2P_CalcCoord, cvtRet2AP_CalcCoord, "none"),
     cropAnnulus |-> Row(cvtAP2P_Crop_Annulus, cvtRet2AP_Crop_Annulus, "crops"),
     cropRect |-> Row(cvtAP2P_Crop_Rect, cvtRet2AP_Crop_Rect, "crops"),
     threshold |-> Row(NoAP2P, {}, "alters"),
     morphology |-> Row(NoAP2P, {}, "alters"),
     noiseRemoval |-> Row(NoAP2P, {}, "alters"),
     measureAnnulus |-> Row(cvtAP2P_MeasGW_Annulus, {}, "reads"),
     measureRect |-> Row(cvtAP2P_MeasGW_Rect, {}, "reads")]

Kinds == DOMAIN Commands
Measures == {"measureAnnulus", "measureRect"}

(* The recipes of the test backend: one region of the annulus recipe, with *)
(* its positioning mark, and one of the rectangle recipe, without.         *)
Framed(regions) == <<"autoRunning">> \o regions \o <<"autoRunning">>
AnnulusRegion ==
    <<"capture", "patternMatch", "boxAnnulus", "calcCoord", "cropAnnulus", "threshold",
      "morphology", "morphology", "noiseRemoval", "measureAnnulus">>
RectRegion ==
    <<"capture", "boxRect", "calcCoord", "cropRect", "threshold", "morphology",
      "measureRect">>

(* What is assumed of the constants; MCSharedData asserts it. *)
RecipeAssumption == \A c \in Cameras : Recipe[c] \in Seq(Kinds) /\ Recipe[c] # << >>
RunsAssumption == MaxRuns \in [Cameras -> Nat]

-----------------------------------------------------------------------------
VARIABLES
    at,        \* per camera: where its worker stands
    run,       \* per camera: how many runs it has begun
    step,      \* per camera: the place in its recipe
    slots,     \* per camera: where the values of its table come from
    image,     \* per camera: where the image in its buffer comes from, and its state
    results,   \* per command: where the values of its result structure come from
    match,     \* where the last mark found comes from (m_retTargetMatch)
    enb,       \* bEnb_AutoRunningMode_Activate
    prev,      \* bPrev_AutoRunningMode_Activate
    alone,     \* history, per camera: nothing of another camera during this run
    missed     \* history, per camera: a match of the run under way found no mark

vars == <<at, run, step, slots, image, results, match, enb, prev, alone, missed>>

Origin == [camera : Cameras, run : Nat]
Never == [camera |-> "none", run |-> 0]
Own(c) == [camera |-> c, run |-> run[c]]
Recorded(c) == [camera |-> c, run |-> 0]

Kind(c) == Recipe[c][step[c]]
Cvt(c) == Commands[Kind(c)]

TypeOK ==
    /\ at \in [Cameras -> {"idle", "method", "convert"}]
    /\ \A c \in Cameras : run[c] \in 0 .. MaxRuns[c]
    /\ \A c \in Cameras : step[c] \in DOMAIN Recipe[c]
    /\ slots \in [Cameras -> [Slots -> Origin \cup {Never}]]
    /\ \A c \in Cameras :
        /\ image[c].from \in Origin \cup {Never}
        /\ image[c].state \in {"none", "raw", "processed"}
    /\ results \in [Kinds -> Origin \cup {Never}]
    /\ match \in Origin \cup {Never}
    /\ enb \in BOOLEAN /\ prev \in BOOLEAN
    /\ alone \in [Cameras -> BOOLEAN]
    /\ missed \in [Cameras -> BOOLEAN]

Empty == [s \in Slots |-> Never]
NoImage == [from |-> Never, state |-> "none"]

Init ==
    /\ at = [c \in Cameras |-> "idle"]
    /\ run = [c \in Cameras |-> 0]
    /\ step = [c \in Cameras |-> 1]
    /\ slots = [c \in Cameras |-> Empty]
    /\ image = [c \in Cameras |-> NoImage]
    /\ results = [k \in Kinds |-> Never]
    /\ match = Never
    /\ enb = FALSE
    /\ prev = FALSE
    /\ alone = [c \in Cameras |-> FALSE]
    /\ missed = [c \in Cameras |-> FALSE]

Busy(c) == at[c] # "idle"
Interferes(c) == [d \in Cameras |-> alone[d] /\ d = c]

-----------------------------------------------------------------------------
(* A trigger that activates the mode begins a run of the recorded recipe.  *)
Begin(c) ==
    /\ at[c] = "idle" /\ run[c] < MaxRuns[c]
    /\ at' = [at EXCEPT ![c] = "method"]
    /\ run' = [run EXCEPT ![c] = @ + 1]
    /\ step' = [step EXCEPT ![c] = 1]
    /\ enb' = TRUE
    /\ alone' = [d \in Cameras |-> d = c /\ \A e \in Cameras \ {c} : ~Busy(e)]
    /\ UNCHANGED <<slots, image, results, match, prev, missed>>

(* One that deactivates it, or finds nothing recorded, clears the flag.    *)
Deactivate(c) ==
    /\ at[c] = "idle" /\ enb
    /\ enb' = FALSE
    /\ alone' = Interferes(c)
    /\ UNCHANGED <<at, run, step, slots, image, results, match, prev, missed>>

(* The mode command in the recipe empties the table when the flag differs  *)
(* from the one seen last.                                                 *)
Switches(c) == Kind(c) = "autoRunning" /\ prev # enb
Table(c) == IF Switches(c) THEN Empty ELSE slots[c]

(* The values a method works with: that its converter takes from a slot of *)
(* the table, or the recorded one when the flag is clear; and its image.   *)
Parameter(c, s) == IF enb THEN Table(c)[s] ELSE Recorded(c)
Images(c) == IF Cvt(c).image \in {"none", "fills"} THEN {} ELSE {image[c].from}

(* The image after the method.  The camera commands release the buffer     *)
(* before the method fills it.                                             *)
Altered(c, ok) ==
    IF Cvt(c).image = "fills"
    THEN IF ok THEN [from |-> Own(c), state |-> "raw"] ELSE NoImage
    ELSE IF ok /\ Cvt(c).image \in {"crops", "alters"}
         THEN [image[c] EXCEPT !.state = "processed"]
         ELSE image[c]

(* Convert, and run the method, which fails without an image.  Its results *)
(* are in the structure of the command when it returns; a match that has   *)
(* found no mark succeeds with the last mark that was, for either camera.  *)
(* A failure is told and ends the run; the flag of both cameras is cleared.*)
Matches(c, ok) == Kind(c) = "patternMatch" /\ ok

Method(c) ==
    /\ at[c] = "method"
    /\ \E ok, found \in BOOLEAN :
        /\ ~found => Matches(c, ok)
        /\ ok => Images(c) = {} \/ image[c].state # "none"
        /\ slots' = [slots EXCEPT ![c] =
                        [s \in Slots |-> IF enb /\ s \in Cvt(c).before.puts THEN Own(c)
                                         ELSE Table(c)[s]]]
        /\ image' = [image EXCEPT ![c] = Altered(c, ok)]
        /\ match' = IF Matches(c, ok) /\ found THEN Own(c) ELSE match
        /\ results' = [results EXCEPT ![Kind(c)] = IF found THEN Own(c) ELSE match]
        /\ missed' = [missed EXCEPT ![c] = ok /\ (@ \/ ~found)]
        /\ at' = [at EXCEPT ![c] = IF ok THEN "convert" ELSE "idle"]
        /\ enb' = (enb /\ ok)
        /\ prev' = IF ~ok THEN FALSE ELSE IF Switches(c) THEN enb ELSE prev
        /\ alone' = IF ok /\ ~Switches(c) THEN alone ELSE Interferes(c)
    /\ UNCHANGED <<run, step>>

Last(c) == step[c] = Len(Recipe[c])

(* The results are converted, a measurement is told, and the next command  *)
(* of the recipe is taken.                                                 *)
Convert(c) ==
    /\ at[c] = "convert"
    /\ slots' = [slots EXCEPT ![c] =
                    [s \in Slots |-> IF enb /\ s \in Cvt(c).after THEN results[Kind(c)]
                                     ELSE @[s]]]
    /\ at' = [at EXCEPT ![c] = IF Last(c) THEN "idle" ELSE "method"]
    /\ step' = [step EXCEPT ![c] = IF Last(c) THEN 1 ELSE @ + 1]
    /\ missed' = [missed EXCEPT ![c] = @ /\ ~Last(c)]
    /\ UNCHANGED <<run, image, results, match, enb, prev, alone>>

Next == \E c \in Cameras : Begin(c) \/ Deactivate(c) \/ Method(c) \/ Convert(c)

Spec == Init /\ [][Next]_vars

-----------------------------------------------------------------------------
(* What a method works with, and what the table and the answers are given, *)
(* was computed in this run of this camera; but for the mark when a match  *)
(* of the run has found none and `mark` allows it.                         *)
OwnValues(c, mark) ==
    /\ at[c] = "method" =>
        /\ \A s \in Cvt(c).before.takes :
            Parameter(c, s) = Own(c) \/ (mark /\ missed[c] /\ s \in cvtRet2AP_PatternMatch)
        /\ image[c].state # "none" => Images(c) \subseteq {Own(c)}
    /\ at[c] = "convert" =>
        results[Kind(c)] = Own(c) \/ (mark /\ missed[c] /\ Kind(c) = "patternMatch")

(* No value of an earlier run, of the recording or of another camera is    *)
(* worked with in a run.                                                   *)
OwnRun == \A c \in Cameras : OwnValues(c, FALSE)

(* The same of a run during which no other camera replays, fails or is     *)
(* switched: whatever the other camera left in the shared structures, and  *)
(* but for the mark itself when a match of the run has found none.         *)
AloneIsOwn == \A c \in Cameras : alone[c] => OwnValues(c, TRUE)

(* Marks, boxes and regions are looked for in a captured image, never in   *)
(* what an earlier region of the recipe has made of it.                    *)
RawSearched ==
    \A c \in Cameras :
        at[c] = "method" /\ Cvt(c).image \in {"searches", "crops"}
            => image[c].state # "processed"
=============================================================================
