---------------------------- MODULE DigitalOutputs ----------------------------
(***************************************************************************)
(* The four digital outputs.  ios_doutSetProcess sets an output and then,  *)
(* in another variable, for how long; two threads call it, the io worker   *)
(* for DOUT_MANUAL_CONTROL and mainCtl for the inspection flow.  A third,  *)
(* ioCtl, passes over the outputs every millisecond: while nothing is      *)
(* asked for it restarts the output's clock, and when the time asked for   *)
(* has passed it clears it and then turns the output over.                 *)
(***************************************************************************)
EXTENDS Integers

CONSTANTS
  Outputs,     \* of 1 .. 4
  Periods,     \* OneShotPeriods that DOUT_MANUAL_CONTROL asks for, 0 for a latch (in passes)
  Strays,      \* what the flow's record may hold for a period: its field is never set
  MaxCommands  \* bound: commands in a behaviour

AllPeriods == Periods \cup Strays

ASSUME OutputsAssumption  == Outputs \subseteq 1 .. 4
ASSUME PeriodsAssumption  == Periods \subseteq Nat /\ Strays \subseteq Nat
ASSUME CommandsAssumption == MaxCommands \in Nat
ASSUME LongestAssumption  == \E p \in AllPeriods : \A q \in AllPeriods : q <= p

Callers == {"manual", "flow"}
None    == 0

VARIABLES
  level,         \* the outputs' values
  blink,         \* iosDO1_blink_time .. iosDO4_blink_time
  since,         \* time since iosDO1_start .. iosDO4_start
  half,          \* the output a caller has set and not yet timed, or None
  period,        \* and the period it will write
  turning,       \* outputs that ioCtl has cleared and not yet turned over
  looked,        \* outputs it has looked at in this millisecond
  nCmd,
  asked, alone,  \* history, per output: the last command, with its age since the
                 \* period was set; no other command or pulse overlapped it
  idle, rested,  \* history: the last look at the output found no time asked for; this
                 \* was so when the last command's was set
  spent          \* history: its pulse has ended

vars == <<level, blink, since, half, period, turning, looked, nCmd, asked, alone, idle, rested,
          spent>>

Longest    == CHOOSE p \in AllPeriods : \A q \in AllPeriods : q <= p
Horizon    == Longest + 2   \* no clock is read beyond
Asked == [level : {0, 1}, period : AllPeriods \cup {0}, age : 0 .. Horizon, by : Callers]

TypeOK ==
  /\ level \in [Outputs -> {0, 1}] /\ blink \in [Outputs -> AllPeriods \cup {0}]
  /\ since \in [Outputs -> 0 .. Horizon]
  /\ half \in [Callers -> Outputs \cup {None}] /\ period \in [Callers -> AllPeriods \cup {0}]
  /\ turning \subseteq Outputs /\ looked \subseteq Outputs /\ nCmd \in 0 .. MaxCommands
  /\ asked \in [Outputs -> Asked]
  /\ \A h \in {alone, idle, rested, spent} : h \in [Outputs -> BOOLEAN]

Init ==
  /\ level = [o \in Outputs |-> 0]
  /\ blink = [o \in Outputs |-> 0]
  /\ since = [o \in Outputs |-> 0]
  /\ half = [w \in Callers |-> None]
  /\ period = [w \in Callers |-> 0]
  /\ turning = {} /\ looked = {} /\ nCmd = 0
  /\ asked = [o \in Outputs |-> [level |-> 0, period |-> 0, age |-> 0, by |-> "manual"]]
  /\ alone = [o \in Outputs |-> TRUE] /\ idle = [o \in Outputs |-> TRUE] /\ rested = [o \in Outputs |-> TRUE]
  /\ spent = [o \in Outputs |-> FALSE]

Set(f, x, v) == [f EXCEPT ![x] = v]
-----------------------------------------------------------------------------
(* ios_doutSetProcess. *)

(* The mode "High" switches an output on whatever is asked for.            *)
Value(high, on) == IF high \/ on THEN 1 ELSE 0

HalfSet(o) == \E w \in Callers : half[w] = o

(* A pulse is under way, or about to be.                                   *)
Pulsing(o) == blink[o] > 0 \/ o \in turning \/ HalfSet(o)

SetLevel(w, o, high, on, p) ==
  /\ half[w] = None /\ nCmd < MaxCommands
  /\ nCmd' = nCmd + 1
  /\ level' = Set(level, o, Value(high, on))
  /\ half' = Set(half, w, o)
  /\ period' = Set(period, w, p)
  /\ asked' = Set(asked, o, [level |-> Value(high, on), period |-> p, age |-> 0, by |-> w])
  /\ alone' = Set(alone, o, ~Pulsing(o))
  /\ spent' = Set(spent, o, FALSE)
  /\ UNCHANGED <<blink, since, turning, looked, idle, rested>>

(* DOUT_MANUAL_CONTROL; ios_Control_Dout_Handler_Dual, with a local record *)
(* whose period is not set.                                                *)
Manual == \E o \in Outputs, high, on \in BOOLEAN, p \in Periods : SetLevel("manual", o, high, on, p)
Flow   == \E o \in Outputs, high, on \in BOOLEAN, p \in Strays : SetLevel("flow", o, high, on, p)

SetPeriod(w) ==
  /\ half[w] # None
  /\ blink' = Set(blink, half[w], period[w])
  /\ half' = Set(half, w, None)
  /\ rested' = Set(rested, half[w], idle[half[w]])
  /\ UNCHANGED <<level, since, period, turning, looked, nCmd, asked, alone, idle, spent>>
-----------------------------------------------------------------------------
(* ioCtl. *)

(* Mutant: the clock is not restarted while nothing is asked for. *)
LookNoRestart(o) ==
  /\ o \notin looked /\ turning = {}
  /\ looked' = looked \cup {o} /\ idle' = Set(idle, o, blink[o] = 0)
  /\ IF blink[o] > 0 /\ since[o] >= blink[o]
       THEN blink' = Set(blink, o, 0) /\ turning' = {o} ELSE UNCHANGED <<blink, turning>>
  /\ UNCHANGED <<since, level, half, period, nCmd, asked, alone, rested, spent>>

(* Mutant: the output's time is not cleared when it is over. *)
LookNoClear(o) ==
  /\ o \notin looked /\ turning = {}
  /\ looked' = looked \cup {o} /\ idle' = Set(idle, o, blink[o] = 0)
  /\ IF blink[o] > 0 /\ since[o] >= blink[o] THEN turning' = {o} ELSE UNCHANGED turning
  /\ since' = IF blink[o] > 0 THEN since ELSE Set(since, o, 0)
  /\ UNCHANGED <<blink, level, half, period, nCmd, asked, alone, rested, spent>>

(* A look at an output: its clock is restarted, or its time is over.       *)
Look(o) ==
  /\ o \notin looked /\ turning = {}
  /\ looked' = looked \cup {o} /\ idle' = Set(idle, o, blink[o] = 0)
  /\ IF blink[o] > 0 /\ since[o] >= blink[o]
       THEN blink' = Set(blink, o, 0) /\ turning' = {o} ELSE UNCHANGED <<blink, turning>>
  /\ since' = IF blink[o] > 0 THEN since ELSE Set(since, o, 0)
  /\ UNCHANGED <<level, half, period, nCmd, asked, alone, rested, spent>>

Turn(o) ==
  /\ o \in turning
  /\ turning' = turning \ {o}
  /\ level' = Set(level, o, 1 - level[o])
  /\ spent' = Set(spent, o, TRUE)
  /\ UNCHANGED <<blink, since, half, period, looked, nCmd, asked, alone, idle, rested>>

(* A millisecond, in which ioCtl has looked at every output.               *)
AtMost(x) == IF x < Horizon THEN x ELSE Horizon
Tick ==
  /\ looked = Outputs /\ turning = {}
  /\ looked' = {}
  /\ since' = [o \in Outputs |-> AtMost(since[o] + 1)]
  /\ asked' = [o \in Outputs |->
                 [asked[o] EXCEPT !.age = IF spent[o] \/ HalfSet(o) THEN @ ELSE AtMost(@ + 1)]]
  /\ UNCHANGED <<level, blink, half, period, turning, nCmd, alone, idle, rested, spent>>

IoCtl == Tick \/ \E o \in Outputs : Look(o) \/ Turn(o)

Next == Manual \/ Flow \/ (\E w \in Callers : SetPeriod(w)) \/ IoCtl

Spec == Init /\ [][Next]_vars

(* The loop of ioCtl runs on, and a caller finishes what it has begun.     *)
FairSpec == Spec /\ WF_vars(IoCtl) /\ \A w \in Callers : WF_vars(SetPeriod(w))
-----------------------------------------------------------------------------
(* Properties. *)

(* A command that no other command or pulse overlaps is carried out: the   *)
(* output has the level asked for, for good or until its pulse has ended   *)
(* and the opposite level after that.                                      *)
LevelAsAsked ==
  \A o \in Outputs : alone[o] =>
    level[o] = IF spent[o] THEN 1 - asked[o].level ELSE asked[o].level

(* Its pulse lasts no longer than the period asked for and, if ioCtl had   *)
(* restarted the output's clock after the pulse before it, no more than a  *)
(* pass less; a latch has no pulse.  A period set before that restart is   *)
(* measured by the clock of the pulse before: OneShotLasts fails.          *)
PulseLength ==
  \A o \in Outputs : alone[o] /\ spent[o] =>
    /\ asked[o].period > 0 /\ asked[o].age <= asked[o].period
    /\ rested[o] => asked[o].age >= asked[o].period - 1

(* No output is left to be timed for ever, whatever overlaps: once the     *)
(* commands cease, every pulse ends.                                       *)
PulsesEnd == \A o \in Outputs : <>[](blink[o] = 0 /\ o \notin turning)

(* "Latch / OneShot" (the modes of an output, in common.h): a latched      *)
(* output stays as it was set, until the next command.                     *)
LatchHolds ==
  \A o \in Outputs : asked[o].period = 0 /\ asked[o].by = "manual" => level[o] = asked[o].level

(* "OneShot", with its "OneShotPeriod" (common.h): an output set for a     *)
(* period, with nothing under way, is not turned over before it is over.   *)
OneShotLasts ==
  \A o \in Outputs : alone[o] /\ spent[o] => asked[o].age >= asked[o].period - 1

(* "On or Off" (onoffSetting, in common.h): an output that was switched    *)
(* off is off.                                                             *)
OffIsOff ==
  [][\A o \in Outputs, high \in BOOLEAN, p \in AllPeriods, w \in Callers :
       SetLevel(w, o, high, FALSE, p) => level'[o] = 0]_vars

(* "Dout ON for indicating auto mode done": what the inspection flow sets, *)
(* with no time in mind, stays until the next command.                     *)
FlowHolds ==
  \A o \in Outputs : alone[o] /\ asked[o].by = "flow" => level[o] = asked[o].level
=============================================================================
