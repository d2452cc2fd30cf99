---------------------------- MODULE TriggerInputs ----------------------------
(***************************************************************************)
(* The trigger thread trigCtl: it polls the six inputs, debounces them     *)
(* with one counter, one clock and one current input for all, and puts a   *)
(* trigger into innerQ_IOS for each camera that is set to it.              *)
(*                                                                         *)
(* Time is counted in half milliseconds and passes in the sleeps and waits *)
(* of the loop.  A pass reads trig_edge three times and an input twice; pc *)
(* says where it is, so that inputs change, and DIN_SET_MODE changes their *)
(* edges, in between.                                                      *)
(***************************************************************************)
EXTENDS Integers, FiniteSets

CONSTANTS
  Inputs,       \* those that are wired, of 1 .. 6: DI1 .. DI4, DI_TRIG1, DI_TRIG2
  WinLo, WinHi, \* an edge is judged when it is this old: 51.0 and 52.0 ms
  Forget,       \* the counter is cleared when the last edge is this old: 1000 ms
  Timeout,      \* how long poll() waits for an event: 1 ms
  Sleeps,       \* how long usleep(1000) may take
  MaxFlips,     \* bound: changes of the inputs in a behaviour
  MaxSets       \* bound: DIN_SET_MODE commands in a behaviour

ASSUME InputsAssumption == Inputs \subseteq 1 .. 6
ASSUME TimeAssumption ==
  /\ {WinLo, WinHi, Forget} \subseteq Nat /\ WinLo <= WinHi /\ WinHi < Forget
  /\ Timeout \in Nat /\ Sleeps \subseteq Nat \ {0}
ASSUME BoundsAssumption == MaxFlips \in Nat /\ MaxSets \in Nat

Cameras  == {0, 1}
Edges    == {"rising", "falling"}
Active(e) == IF e = "rising" THEN 1 ELSE 0
PC == {"check", "poll", "read", "judge", "settle", "publish", "publishDual"}

VARIABLES
  level, pending,  \* the inputs; those whose file has an event that was not read
  edge, armed,     \* trig_edge; trig_edge_old, the edges the driver was told
  pin,             \* debounce_pin, 0 for none of ours
  counter,         \* debounce_counter
  elapsed,         \* time since start, capped at Forget
  dinMode,         \* trig_DinMode, trig_DinMode_Dual
  raised,          \* triggers put into innerQ_IOS, per camera
  pc, rvalue,      \* where the thread is; the level it read last
  steady,          \* how long an input has not changed, capped at WinLo (history)
  blind,           \* history: since the clock was started, the current input changed
                   \* between the looks of one pass, or an edge after its check
  presses,         \* history: see OncePerPress
  want,            \* the edge last asked for an input, or "any" (history)
  nFlip, nSet

dinVars  == <<edge, dinMode, want, nSet>>
pinVars  == <<level, nFlip>>
loopVars == <<armed, pin, counter, raised, pc, rvalue>>
timeVars == <<elapsed, steady>>
vars == <<dinVars, pinVars, loopVars, timeVars, pending, blind, presses>>

TypeOK ==
  /\ level \in [Inputs -> {0, 1}] /\ pending \subseteq Inputs
  /\ edge \in [Inputs -> Edges] /\ armed \in [Inputs -> Edges]
  /\ pin \in Inputs \cup {0} /\ counter \in Int /\ elapsed \in 0 .. Forget
  /\ dinMode \in [Cameras -> 0 .. 4] /\ raised \in [Cameras -> Nat]
  /\ pc \in PC /\ rvalue \in {0, 1} /\ (pc \in {"read", "settle"} => pin # 0)
  /\ steady \in [Inputs -> 0 .. WinLo] /\ blind \in BOOLEAN
  /\ presses \in Nat /\ nFlip \in 0 .. MaxFlips /\ nSet \in 0 .. MaxSets
  /\ want \in [Inputs -> Edges \cup {"any"}]

(* The files have just been opened, and a sysfs file reports an event      *)
(* until it is read for the first time.                                    *)
Init ==
  /\ level \in [Inputs -> {0, 1}]
  /\ pending = Inputs
  /\ edge = [i \in Inputs |-> "rising"]
  /\ armed = [i \in Inputs |-> "rising"]
  /\ pin = 0 /\ counter = 0 /\ elapsed = 0
  /\ dinMode = [c \in Cameras |-> 0]
  /\ raised = [c \in Cameras |-> 0]
  /\ pc = "check" /\ rvalue = 0
  /\ steady = [i \in Inputs |-> WinLo] /\ blind = FALSE
  /\ presses = 1
  /\ want = [i \in Inputs |-> "any"]
  /\ nFlip = 0 /\ nSet = 0
-----------------------------------------------------------------------------
(* The world: an input changes, and the driver reports an armed edge.      *)
Flip(i) ==
  /\ nFlip < MaxFlips
  /\ nFlip' = nFlip + 1
  /\ level' = [level EXCEPT ![i] = 1 - @]
  /\ steady' = [steady EXCEPT ![i] = 0]
  /\ pending' = IF level'[i] = Active(armed[i]) THEN pending \cup {i} ELSE pending
  /\ presses' = IF level'[i] \in {Active(armed[i]), Active(edge[i])} THEN presses + 1 ELSE presses
  /\ blind' = (blind \/ (i = pin /\ pc \in {"read", "judge", "settle"}))
  /\ UNCHANGED <<dinVars, loopVars, elapsed>>

(* DIN_SET_MODE: the parser sets the camera's input, ios_dinSetProcess the *)
(* edge.  The pin counts from 1 and indexes a table that counts from 0.    *)
SetDin(c, p, e) ==
  /\ nSet < MaxSets
  /\ nSet' = nSet + 1
  /\ dinMode' = [dinMode EXCEPT ![c] = p]
  /\ edge' = [i \in Inputs |-> IF i = p + 1 THEN e ELSE edge[i]]
  /\ want' = [i \in Inputs |-> IF i = p THEN e ELSE want[i]]
  /\ IF edge' # edge /\ pc # "check"
       THEN presses' = presses + 1 /\ blind' = TRUE
       ELSE UNCHANGED <<presses, blind>>
  /\ UNCHANGED <<pinVars, loopVars, timeVars, pending>>
-----------------------------------------------------------------------------
(* One pass of the thread. *)

AtMost(x, n) == IF x < n THEN x ELSE n
At(from, to) == pc = from /\ pc' = to

(* Time passes; what the input whose event ends a wait did in it is left   *)
(* open, so that the wait does not count for it.                           *)
Passes(dt, but) ==
  /\ elapsed' = AtMost(elapsed + dt, Forget)
  /\ steady' = [i \in Inputs |-> IF i \in but THEN steady[i] ELSE AtMost(steady[i] + dt, WinLo)]

(* A changed edge of DI1 .. DI4 makes it start over with new files. *)
Changed == \E i \in Inputs \cap 1 .. 4 : edge[i] # armed[i]

Restart(dt) ==
  /\ At("check", "check") /\ Changed
  /\ armed' = edge
  /\ pending' = Inputs /\ presses' = presses + 1
  /\ pin' = 0 /\ counter' = 0
  /\ blind' = FALSE
  /\ Passes(dt, {})
  /\ UNCHANGED <<dinVars, pinVars, raised, rvalue>>

(* After the sleep that ends the pass before, the edges are compared... *)
Check(dt) ==
  /\ At("check", "poll") /\ ~Changed
  /\ Passes(dt, {})
  /\ UNCHANGED <<dinVars, pinVars, armed, pin, counter, raised, rvalue, pending, blind, presses>>

First == CHOOSE i \in pending : \A j \in pending : i <= j

(* ...poll() waits in vain, or for an event, of which the first input that *)
(* has one is looked at...                                                 *)
PollNone ==
  /\ At("poll", "judge") /\ pending = {}
  /\ Passes(Timeout, {})
  /\ UNCHANGED <<dinVars, pinVars, armed, pin, counter, raised, rvalue, pending, blind, presses>>

PollEvent(dt) ==
  /\ At("poll", "read") /\ pending # {}
  /\ pin' = First /\ rvalue' = level[First]
  /\ Passes(dt, {First})
  /\ UNCHANGED <<dinVars, pinVars, armed, counter, raised, pending, blind, presses>>

(* ...and then read, which clears the event: an active input starts the    *)
(* clock and counts up, another counts down...                             *)
Read ==
  /\ At("read", "judge")
  /\ pending' = pending \ {pin}
  /\ IF rvalue = Active(edge[pin])
       THEN elapsed' = 0 /\ counter' = counter + 1 /\ blind' = Changed
       ELSE counter' = counter - 1 /\ UNCHANGED <<elapsed, blind>>
  /\ UNCHANGED <<dinVars, pinVars, armed, pin, raised, rvalue, steady, presses>>

(* Mutant: no upper end of the window. *)
InWindowLate == elapsed >= WinLo /\ counter \in -2 .. 2

(* An edge is judged if it is looked at while it is between WinLo and      *)
(* WinHi old and few edges came with it...                                 *)
InWindow == elapsed \in WinLo .. WinHi /\ counter \in -2 .. 2

(* ...by the current input; the branch of DI_TRIG2 reads DI_TRIG1.         *)
Sampled(i) == IF i = 6 /\ 5 \in Inputs THEN 5 ELSE i

Judge ==
  /\ pc = "judge"
  /\ IF InWindow /\ pin # 0
       THEN pc' = "settle" /\ rvalue' = level[Sampled(pin)] /\ UNCHANGED counter
       ELSE /\ pc' = "check" /\ UNCHANGED rvalue
            /\ counter' = IF elapsed >= Forget THEN 0 ELSE counter
  /\ UNCHANGED <<dinVars, pinVars, armed, pin, raised, timeVars, pending, blind, presses>>

(* Mutant: the current input is taken to be active, without another look.  *)
AcceptsBlind == pin # 0

(* It is accepted if it is still active, by the edge as it is now; another *)
(* read clears an event that may have come meanwhile.                      *)
Accepts == rvalue = Active(edge[pin])

Settle ==
  /\ At("settle", IF Accepts THEN "publish" ELSE "check")
  /\ pending' = pending \ {pin}
  /\ counter' = IF Accepts THEN 0 ELSE counter
  /\ UNCHANGED <<dinVars, pinVars, armed, pin, raised, rvalue, timeVars, blind, presses>>

(* A trigger for each camera whose input is set to 1, whichever input it   *)
(* came from; publishing takes 10 ms for the first, 100 ms for the second. *)
Set1(c) == dinMode[c] = 1

Publish(c, from, to, dt) ==
  /\ At(from, to)
  /\ IF Set1(c)
       THEN raised' = [raised EXCEPT ![c] = @ + 1] /\ Passes(dt, {})
       ELSE UNCHANGED <<raised, timeVars>>
  /\ UNCHANGED <<dinVars, pinVars, armed, pin, counter, rvalue, pending, blind, presses>>

Publishing == Publish(0, "publish", "publishDual", 20) \/ Publish(1, "publishDual", "check", 200)

Next ==
  \/ \E i \in Inputs : Flip(i)
  \/ \E c \in Cameras, p \in 1 .. 4, e \in Edges : SetDin(c, p, e)
  \/ \E dt \in Sleeps : Restart(dt) \/ Check(dt)
  \/ PollNone \/ (\E dt \in 0 .. Timeout : PollEvent(dt)) \/ Read \/ Judge \/ Settle \/ Publishing

Spec == Init /\ [][Next]_vars
-----------------------------------------------------------------------------
(* Properties. *)

(* Although inputs share one clock, an accepted input has not changed for  *)
(* 51 ms: an edge of another input in between restarts the clock or takes  *)
(* its place.  Unless the pass was blind: the input changed between its    *)
(* looks, or DIN_SET_MODE changed an edge after its check.  (Not so        *)
(* DI_TRIG1, whose edge can be changed without a new start, and DI_TRIG2,  *)
(* judged by the other's level: see Sampled.)                              *)
Accepting == pc = "settle" /\ Accepts
Debounced == Inputs \subseteq 1 .. 4 /\ Accepting /\ ~blind => steady[pin] >= WinLo

(* A press raises at most one trigger per camera, although the clock goes  *)
(* on after it is accepted and bounces come in any number.  A press is a   *)
(* change to the level that the driver reports or that is asked for (see   *)
(* Flip).  Opening the files counts as one, as an input that is active     *)
(* then raises a trigger, and so does changing an edge within a pass.      *)
OncePerPress == \A c \in Cameras : raised[c] <= presses

(* "Debunce" (the log of trigCtl): an accepted input has been steady,      *)
(* blind pass or not.                                                      *)
AcceptedWasSteady == Accepting => steady[pin] >= WinLo

(* "DI input Pin triggers rising or falling" (comment of ios_dinSetProcess)*)
(* : the input a command names gets the edge it asks for.                  *)
EdgeOfItsPin == \A i \in Inputs : want[i] # "any" => edge[i] = want[i]

(* The same comment: a press that is still held, after few edges, past the *)
(* age at which an edge is judged has raised its trigger (which clears the *)
(* counter).                                                               *)
PressTriggers ==
  \A i \in Inputs :
    pin = i /\ pending = {} /\ level[i] = Active(edge[i]) /\ counter \in 1 .. 2 => elapsed <= WinHi
=============================================================================
