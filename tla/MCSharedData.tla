------------------------------ MODULE MCSharedData ------------------------------
(***************************************************************************)
(* Small instances of the four machines that follow where values come      *)
(* from: MeasureLibrary, RecipeReplay, AlgorithmCommands and IosResponder. *)
(* They have no variable in common, so what one does is checked while the  *)
(* others rest in their initial states: `machine` says which one runs.     *)
(***************************************************************************)
EXTENDS MeasureLibrary, Sequences

CONSTANTS
    Machines,                                    \* those that run
    ReplayCameras, MaxRuns,                      \* of RecipeReplay
    CommandCameras, CommandKinds, MaxCommands,   \* of AlgorithmCommands
    IoKinds, MaxMessages,                        \* of IosResponder
    c0                                           \* the first camera

VARIABLES
    machine,
    rpAt, rpRun, rpStep, rpSlots, rpImage, rpResults, rpMatch,
    rpEnb, rpPrev, rpAlone, rpMissed,
    acParsed, acText, acResults, acMatch, acQueue, acNow, acAt, acOutcome, acAnswer, acSent,
    ioN, ioKind, ioTopic, ioCb, ioGlobal, ioQueue, ioAt, ioCur, ioAlone

(* On the first camera one region of the annulus recipe, without the image *)
(* filters, which convert nothing; on the second its head, whose results   *)
(* the first one's converters look for.                                    *)
Recipes ==
    [c \in ReplayCameras |->
        IF c = c0
        THEN <<"autoRunning", "capture", "patternMatch", "boxAnnulus", "calcCoord",
               "cropAnnulus", "measureAnnulus", "autoRunning">>
        ELSE <<"autoRunning", "capture", "patternMatch", "autoRunning">>]

Replay == INSTANCE RecipeReplay WITH
    Cameras <- ReplayCameras, Recipe <- Recipes,
    at <- rpAt, run <- rpRun, step <- rpStep, slots <- rpSlots, image <- rpImage,
    results <- rpResults, match <- rpMatch, enb <- rpEnb, prev <- rpPrev, alone <- rpAlone,
    missed <- rpMissed

Algo == INSTANCE AlgorithmCommands WITH
    Cameras <- CommandCameras, Kinds <- CommandKinds, Handles <- {"there", "gone"},
    parsed <- acParsed, text <- acText, results <- acResults, match <- acMatch, queue <- acQueue,
    now <- acNow, at <- acAt, outcome <- acOutcome, answer <- acAnswer, sent <- acSent

Ios == INSTANCE IosResponder WITH
    Kinds <- IoKinds,
    n <- ioN, kind <- ioKind, topic <- ioTopic, cb <- ioCb, global <- ioGlobal,
    queue <- ioQueue, io <- ioAt, cur <- ioCur, alone <- ioAlone

(* What the instanced modules assume of their constants. *)
ASSUME ReplayAssumption  == Replay!RecipeAssumption /\ Replay!RunsAssumption
ASSUME CommandAssumption ==
    Algo!KindsAssumption /\ Algo!HandlesAssumption /\ Algo!CommandsAssumption
ASSUME IoAssumption      == Ios!KindsAssumption /\ Ios!MessagesAssumption

-----------------------------------------------------------------------------
(* Values for the constants. *)

(* Two runs of the first camera, with one of the second somewhere in them. *)
Runs == [c \in ReplayCameras |-> IF c = c0 THEN 2 ELSE 1]

(* One vbs_ function of every sharing pattern: two of one tool, one whose  *)
(* image is a member, one that always returns 0, one that keeps its last   *)
(* result, one alone.                                                      *)
SomeMethods == {"patternMatch", "findProfile", "detectCircle", "cropAnnulus",
                "histogramRect", "noiseRemoval", "measureAnnulus"}

-----------------------------------------------------------------------------
replayVars == <<rpAt, rpRun, rpStep, rpSlots, rpImage, rpResults, rpMatch, rpEnb, rpPrev,
                rpAlone, rpMissed>>
commandVars ==
    <<acParsed, acText, acResults, acMatch, acQueue, acNow, acAt, acOutcome, acAnswer, acSent>>
ioVars == <<ioN, ioKind, ioTopic, ioCb, ioGlobal, ioQueue, ioAt, ioCur, ioAlone>>

AllInit ==
    /\ machine \in Machines
    /\ Init /\ Replay!Init /\ Algo!Init /\ Ios!Init

(* A step of the library, of a replay, of a command, of the io thread. *)
L(A) == machine = "library" /\ A /\ UNCHANGED <<machine, replayVars, commandVars, ioVars>>
R(A) == machine = "replay" /\ A /\ UNCHANGED <<machine, vars, commandVars, ioVars>>
C(A) == machine = "commands" /\ A /\ UNCHANGED <<machine, vars, replayVars, ioVars>>
I(A) == machine = "io" /\ A /\ UNCHANGED <<machine, vars, replayVars, commandVars>>

AllNext ==
    \/ \E w \in Workers :
        L(Enter(w)) \/ L(SetParameter(w)) \/ L(TestIt(w)) \/ L(GetResult(w))
    \/ \E c \in ReplayCameras :
        \/ R(Replay!Begin(c)) \/ R(Replay!Deactivate(c))
        \/ R(Replay!Method(c)) \/ R(Replay!Convert(c))
    \/ \E c \in CommandCameras :
        C(Algo!Receive(c)) \/ C(Algo!Take(c)) \/ C(Algo!Run(c)) \/ C(Algo!Answer(c))
    \/ \E k \in IoKinds, t \in Ios!Cameras : I(Ios!Arrive(k, t))
    \/ I(Ios!Parse) \/ I(Ios!KeepText) \/ I(Ios!EnQ)
    \/ I(Ios!DeQ) \/ I(Ios!Perform) \/ I(Ios!Answer) \/ I(Ios!Publish)

AllSpec == AllInit /\ [][AllNext]_<<machine, vars, replayVars, commandVars, ioVars>>

-----------------------------------------------------------------------------
(* The properties, as their modules state them. *)

(* The values a method of an undisturbed replay works with are of its own  *)
(* run, but for the mark when a match has found none.                      *)
ReplayAloneIsOwn == Replay!AloneIsOwn

(* A method reads the arguments of its own command.                        *)
CommandOwnArguments == Algo!OwnArguments

(* A command that no other of its kind met is answered with its own text,  *)
(* outcome and, when it found what it looks for, values.                   *)
CommandSerialAnswered == Algo!SerialAnswered

(* An IO command that no other message met is performed, answered and      *)
(* published with its own values.                                          *)
IoAloneIsOwn == Ios!AloneIsOwn
=============================================================================
