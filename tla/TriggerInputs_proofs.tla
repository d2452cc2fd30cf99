------------------------- MODULE TriggerInputs_proofs -------------------------
(***************************************************************************)
(* What holds of TriggerInputs for any set of inputs, any duration of the  *)
(* passes and any number of edges and DIN_SET_MODE commands.               *)
(***************************************************************************)
EXTENDS TriggerInputs, TLAPS

(* A time that is cut off is a time up to the bound. *)
LEMMA AtMostType ==
  ASSUME NEW x \in Nat, NEW n \in Nat
  PROVE  AtMost(x, n) \in 0 .. n
BY DEF AtMost

LEMMA FirstPending ==
  ASSUME pending \subseteq Inputs, pending # {}
  PROVE  First \in pending /\ \A j \in pending : First <= j
<1>1. PICK k \in 1 .. 6 : k \in pending /\ \A j \in pending : k <= j
  <2>1. pending \subseteq 1 .. 6
    BY InputsAssumption
  <2>2. CASE 1 \in pending
    BY <2>1, <2>2
  <2>3. CASE 1 \notin pending /\ 2 \in pending
    BY <2>1, <2>3
  <2>4. CASE 1 \notin pending /\ 2 \notin pending /\ 3 \in pending
    BY <2>1, <2>4
  <2>5. CASE 1 \notin pending /\ 2 \notin pending /\ 3 \notin pending /\ 4 \in pending
    BY <2>1, <2>5
  <2>6. CASE 1 \notin pending /\ 2 \notin pending /\ 3 \notin pending /\ 4 \notin pending
    <3>1. pending \subseteq {5, 6}
      BY <2>1, <2>6
    <3>2. CASE 5 \in pending
      BY <3>1, <3>2
    <3>3. CASE 5 \notin pending
      <4>1. pending = {6}
        BY <3>1, <3>3
      <4> QED
        BY <4>1
    <3> QED
      BY <3>2, <3>3
  <2> QED
    BY <2>2, <2>3, <2>4, <2>5, <2>6
<1> QED
  BY <1>1 DEF First

(* Sleeps and waits take a whole time, publishing 10 ms at least.          *)
LEMMA Durations ==
  /\ WinLo \in Nat /\ WinHi \in Nat /\ Forget \in Nat /\ Timeout \in Nat
  /\ WinLo <= WinHi /\ WinHi < Forget
  /\ \A dt \in Sleeps : dt \in Nat
  /\ \A dt \in 0 .. Timeout : dt \in Nat
BY TimeAssumption

(* When time passes, the clock and the ages stay within their bounds.      *)
LEMMA PassesType ==
  ASSUME TypeOK, NEW dt \in Nat, NEW but, Passes(dt, but)
  PROVE  elapsed' \in 0 .. Forget /\ steady' \in [Inputs -> 0 .. WinLo]
<1>1. /\ WinLo \in Nat /\ Forget \in Nat /\ elapsed + dt \in Nat
      /\ \A i \in Inputs : steady[i] \in 0 .. WinLo /\ steady[i] + dt \in Nat
  BY Durations DEF TypeOK
<1>2. elapsed' \in 0 .. Forget
  BY <1>1, AtMostType DEF Passes
<1>3. \A i \in Inputs : AtMost(steady[i] + dt, WinLo) \in 0 .. WinLo
  BY <1>1, AtMostType
<1> QED
  BY <1>1, <1>2, <1>3 DEF Passes

(* The type invariant of the trigger thread. *)
LEMMA TypeInductive == TypeOK /\ [Next]_vars => TypeOK'
<1> SUFFICES ASSUME TypeOK, [Next]_vars PROVE TypeOK'
  OBVIOUS
<1> USE BoundsAssumption, Durations DEF At, PC
<1>1. CASE \E i \in Inputs : Flip(i)
  <2>1. PICK i \in Inputs : Flip(i)
    BY <1>1
  <2>2. level' \in [Inputs -> {0, 1}]
    BY <2>1 DEF TypeOK, Flip
  <2>3. steady' \in [Inputs -> 0 .. WinLo]
    BY <2>1 DEF TypeOK, Flip
  <2>4. pending' \subseteq Inputs /\ presses' \in Nat /\ blind' \in BOOLEAN
    BY <2>1 DEF TypeOK, Flip
  <2>5. UNCHANGED <<dinVars, loopVars, elapsed>> /\ nFlip' \in 0 .. MaxFlips
    BY <2>1 DEF TypeOK, Flip
  <2> QED
    BY <2>2, <2>3, <2>4, <2>5 DEF TypeOK, dinVars, loopVars
<1>2. CASE \E c \in Cameras, p \in 1 .. 4, e \in Edges : SetDin(c, p, e)
  <2>1. PICK c \in Cameras, p \in 1 .. 4, e \in Edges : SetDin(c, p, e)
    BY <1>2
  <2>2. edge' \in [Inputs -> Edges] /\ want' \in [Inputs -> Edges \cup {"any"}]
    BY <2>1 DEF TypeOK, SetDin
  <2>3. dinMode' \in [Cameras -> 0 .. 4] /\ nSet' \in 0 .. MaxSets
    BY <2>1 DEF TypeOK, SetDin
  <2>4. presses' \in Nat /\ blind' \in BOOLEAN
    <3>1. CASE edge' # edge /\ pc # "check"
      BY <2>1, <3>1 DEF TypeOK, SetDin
    <3>2. CASE ~(edge' # edge /\ pc # "check")
      <4>1. presses' = presses /\ blind' = blind
        BY <2>1, <3>2 DEF SetDin
      <4> QED
        BY <4>1 DEF TypeOK
    <3> QED
      BY <3>1, <3>2
  <2> QED
    BY <2>1, <2>2, <2>3, <2>4 DEF TypeOK, SetDin, pinVars, loopVars, timeVars
<1>3. ASSUME NEW dt \in Sleeps, Restart(dt)
      PROVE  TypeOK'
  <2>1. elapsed' \in 0 .. Forget /\ steady' \in [Inputs -> 0 .. WinLo]
    BY <1>3, PassesType DEF Restart
  <2>2. armed' \in [Inputs -> Edges] /\ presses' \in Nat /\ counter' \in Int
    BY <1>3 DEF TypeOK, Restart
  <2>3. UNCHANGED <<dinVars, pinVars, raised, rvalue, pc>> /\ pin' = 0 /\ pending' = Inputs
    BY <1>3 DEF Restart
  <2>4. pc = "check" /\ blind' \in BOOLEAN
    BY <1>3 DEF Restart
  <2> QED
    BY <2>1, <2>2, <2>3, <2>4 DEF TypeOK, dinVars, pinVars
<1>4. ASSUME NEW dt \in Sleeps, Check(dt)
      PROVE  TypeOK'
  <2>1. elapsed' \in 0 .. Forget /\ steady' \in [Inputs -> 0 .. WinLo]
    BY <1>4, PassesType DEF Check
  <2> QED
    BY <1>4, <2>1 DEF TypeOK, Check, dinVars, pinVars
<1>5. CASE PollNone
  <2>1. elapsed' \in 0 .. Forget /\ steady' \in [Inputs -> 0 .. WinLo]
    BY <1>5, PassesType DEF PollNone
  <2> QED
    BY <1>5, <2>1 DEF TypeOK, PollNone, dinVars, pinVars
<1>6. ASSUME NEW dt \in 0 .. Timeout, PollEvent(dt)
      PROVE  TypeOK'
  <2>1. elapsed' \in 0 .. Forget /\ steady' \in [Inputs -> 0 .. WinLo]
    BY <1>6, PassesType DEF PollEvent
  <2>2. First \in Inputs
    BY <1>6, FirstPending DEF TypeOK, PollEvent
  <2>3. First # 0
    BY <2>2, InputsAssumption
  <2> QED
    BY <1>6, <2>1, <2>2, <2>3 DEF TypeOK, PollEvent, dinVars, pinVars
<1>7. CASE Read
  <2>1. blind' \in BOOLEAN
    BY <1>7 DEF TypeOK, Read, Changed
  <2>2. counter' \in Int /\ elapsed' \in 0 .. Forget
    BY <1>7 DEF TypeOK, Read
  <2>3. UNCHANGED <<dinVars, pinVars, armed, pin, raised, rvalue, steady, presses>>
    BY <1>7 DEF Read
  <2>4. pending' \subseteq Inputs /\ pc' = "judge"
    BY <1>7 DEF TypeOK, Read
  <2> QED
    BY <2>1, <2>2, <2>3, <2>4 DEF TypeOK, dinVars, pinVars
<1>8. CASE Judge
  <2>1. pin # 0 => Sampled(pin) \in Inputs
    BY DEF TypeOK, Sampled
  <2> QED
    BY <1>8, <2>1 DEF TypeOK, Judge, dinVars, pinVars, timeVars
<1>9. CASE Settle
  BY <1>9 DEF TypeOK, Settle, dinVars, pinVars, timeVars
<1>10. ASSUME NEW c \in Cameras, NEW from, NEW to \in {"publishDual", "check"}, NEW dt \in Nat,
              Publish(c, from, to, dt)
       PROVE  TypeOK'
  <2>1. elapsed' \in 0 .. Forget /\ steady' \in [Inputs -> 0 .. WinLo]
    BY <1>10, PassesType DEF TypeOK, Publish, timeVars
  <2>2. raised' \in [Cameras -> Nat]
    BY <1>10 DEF TypeOK, Publish
  <2> QED
    BY <1>10, <2>1, <2>2 DEF TypeOK, Publish, dinVars, pinVars
<1>11. CASE UNCHANGED vars
  BY <1>11 DEF TypeOK, vars, dinVars, pinVars, loopVars, timeVars
<1>12. CASE Publishing
  BY <1>10, <1>12 DEF Publishing, Cameras
<1> QED
  BY <1>1, <1>2, <1>3, <1>4, <1>5, <1>6, <1>7, <1>8, <1>9, <1>11, <1>12 DEF Next

LEMMA TypeInitially == Init => TypeOK
<1> SUFFICES ASSUME Init PROVE TypeOK
  OBVIOUS
<1>1. /\ elapsed \in 0 .. Forget /\ nFlip \in 0 .. MaxFlips /\ nSet \in 0 .. MaxSets
      /\ steady \in [Inputs -> 0 .. WinLo]
  BY Durations, BoundsAssumption DEF Init
<1>2. /\ level \in [Inputs -> {0, 1}] /\ edge \in [Inputs -> Edges] /\ armed \in [Inputs -> Edges]
      /\ want \in [Inputs -> Edges \cup {"any"}]
      /\ dinMode \in [Cameras -> 0 .. 4] /\ raised \in [Cameras -> Nat]
  BY DEF Init, Edges
<1>3. /\ pending \subseteq Inputs /\ pin \in Inputs \cup {0} /\ counter \in Int
      /\ presses \in Nat /\ rvalue \in {0, 1}
  BY DEF Init
<1>4. pc \in PC /\ (pc \in {"read", "settle"} => pin # 0) /\ blind \in BOOLEAN
  BY DEF Init, PC
<1> QED
  BY <1>1, <1>2, <1>3, <1>4 DEF TypeOK

(* Every value stays in its range, times within their bounds. *)
THEOREM InputsTypeCorrect == Spec => []TypeOK
BY TypeInitially, TypeInductive, PTL DEF Spec
-----------------------------------------------------------------------------
(* An accepted input has been steady: while the current input is active    *)
(* and no event of it is unread, it has not changed since the clock was    *)
(* started; and what a pass that is not blind knows of it is still so.     *)
SteadyInv ==
  /\ pc = "read" => pin \in pending
  /\ pc = "settle" => elapsed >= WinLo
  /\ ~blind /\ pc # "check" => \A i \in Inputs : edge[i] = armed[i]
  /\ ~blind /\ pc \in {"read", "settle"} => rvalue = level[pin]
  /\ ~blind /\ pc \in {"judge", "settle"} => pin \notin pending
  /\ ~blind /\ pin \in Inputs \ pending /\ level[pin] = Active(armed[pin])
       => steady[pin] >= AtMost(elapsed, WinLo)


(* An input that is at least as old as the clock remains so as time passes.*)
LEMMA PassesSteady ==
  ASSUME TypeOK, NEW dt \in Nat, NEW but, Passes(dt, but), NEW i \in Inputs, i \notin but,
         steady[i] >= AtMost(elapsed, WinLo)
  PROVE  steady'[i] >= AtMost(elapsed', WinLo)
<1>1. /\ WinLo \in Nat /\ Forget \in Nat /\ WinLo < Forget
      /\ elapsed \in Nat /\ steady[i] \in Nat
  BY Durations DEF TypeOK
<1>2. /\ elapsed' = AtMost(elapsed + dt, Forget)
      /\ steady'[i] = AtMost(steady[i] + dt, WinLo)
  BY DEF Passes
<1>3. steady[i] >= WinLo \/ steady[i] >= elapsed
  BY <1>1 DEF AtMost
<1>4. CASE steady[i] >= WinLo
  BY <1>1, <1>2, <1>4 DEF AtMost
<1>5. CASE steady[i] >= elapsed
  BY <1>1, <1>2, <1>5 DEF AtMost
<1> QED
  BY <1>3, <1>4, <1>5

LEMMA SteadyInductive ==
  ASSUME Inputs \subseteq 1 .. 4, TypeOK, SteadyInv, [Next]_vars
  PROVE  SteadyInv'
<1> USE Durations DEF At
<1>0. 0 \notin Inputs
  OBVIOUS
<1>1. ASSUME NEW i \in Inputs, Flip(i)
      PROVE  SteadyInv'
  <2>1. UNCHANGED <<edge, armed, pin, pc, rvalue, elapsed>>
    BY <1>1 DEF Flip, dinVars, loopVars
  <2>2. pc = "read" => pin \in pending'
    BY <1>1 DEF Flip, SteadyInv
  <2>3. CASE i = pin
    <3>1. level'[pin] = Active(armed[pin]) => pin \in pending'
      BY <1>1, <2>3 DEF Flip
    <3>2. pc \in {"read", "judge", "settle"} => blind'
      BY <1>1, <2>3 DEF Flip
    <3>3. ~blind' => ~blind
      BY <1>1 DEF Flip, TypeOK
    <3> QED
      BY <2>1, <2>2, <3>1, <3>2, <3>3 DEF SteadyInv
  <2>4. CASE i # pin
    <3>1. blind' <=> blind
      BY <1>1, <2>4 DEF Flip, TypeOK
    <3>2. pin \in pending' <=> pin \in pending
      BY <1>1, <2>4 DEF Flip
    <3>3. pin \in Inputs => level'[pin] = level[pin] /\ steady'[pin] = steady[pin]
      BY <1>1, <2>4 DEF Flip, TypeOK
    <3>4. pc \in {"read", "settle"} => pin \in Inputs
      BY DEF TypeOK
    <3> QED
      BY <2>1, <3>1, <3>2, <3>3, <3>4 DEF SteadyInv
  <2> QED
    BY <2>3, <2>4
<1>2. ASSUME NEW c \in Cameras, NEW p \in 1 .. 4, NEW e \in Edges, SetDin(c, p, e)
      PROVE  SteadyInv'
  <2>1. UNCHANGED <<pinVars, loopVars, timeVars, pending>>
    BY <1>2 DEF SetDin
  <2>2. CASE edge' # edge /\ pc # "check"
    <3>1. blind'
      BY <1>2, <2>2 DEF SetDin
    <3> QED
      BY <2>1, <3>1 DEF SteadyInv, pinVars, loopVars, timeVars
  <2>3. CASE ~(edge' # edge /\ pc # "check")
    <3>1. blind' = blind
      BY <1>2, <2>3 DEF SetDin
    <3> QED
      BY <2>1, <2>3, <3>1 DEF SteadyInv, pinVars, loopVars, timeVars
  <2> QED
    BY <2>2, <2>3
<1>3. ASSUME NEW dt \in Sleeps, Restart(dt)
      PROVE  SteadyInv'
  BY <1>0, <1>3 DEF SteadyInv, Restart
<1>4. ASSUME NEW dt \in Sleeps, Check(dt)
      PROVE  SteadyInv'
  <2>1. UNCHANGED <<edge, armed, pin, level, pending, blind>>
    BY <1>4 DEF Check, dinVars, pinVars
  <2>2. \A i \in Inputs : edge[i] = armed[i]
    BY <1>4 DEF Check, Changed
  <2>3. \A i \in Inputs : steady[i] >= AtMost(elapsed, WinLo) => steady'[i] >= AtMost(elapsed', WinLo)
    BY <1>4, PassesSteady DEF Check
  <2>4. pc' = "poll"
    BY <1>4 DEF Check
  <2> QED
    BY <2>1, <2>2, <2>3, <2>4 DEF SteadyInv
<1>5. CASE PollNone
  <2>1. UNCHANGED <<edge, armed, pin, level, pending, blind>> /\ pending = {}
    BY <1>5 DEF PollNone, dinVars, pinVars
  <2>2. \A i \in Inputs : steady[i] >= AtMost(elapsed, WinLo) => steady'[i] >= AtMost(elapsed', WinLo)
    BY <1>5, PassesSteady DEF PollNone
  <2>3. pc = "poll" /\ pc' = "judge"
    BY <1>5 DEF PollNone
  <2> QED
    BY <2>1, <2>2, <2>3 DEF SteadyInv
<1>6. ASSUME NEW dt \in 0 .. Timeout, PollEvent(dt)
      PROVE  SteadyInv'
  <2>1. UNCHANGED <<edge, armed, level, pending, blind>>
    BY <1>6 DEF PollEvent, dinVars, pinVars
  <2>2. pin' \in pending' /\ rvalue' = level'[pin']
    BY <1>6, <2>1, FirstPending DEF PollEvent, TypeOK
  <2> QED
    BY <1>6, <2>1, <2>2 DEF SteadyInv, PollEvent
<1>7. CASE Read
  <2>1. UNCHANGED <<edge, armed, pin, level, rvalue, steady>> /\ pin \in Inputs
    BY <1>7 DEF Read, dinVars, pinVars, TypeOK
  <2>2. pc' = "judge" /\ pin \notin pending'
    BY <1>7 DEF Read
  <2>3. CASE rvalue = Active(edge[pin])
    <3>1. elapsed' = 0 /\ blind' = Changed
      BY <1>7, <2>3 DEF Read
    <3>2. ~blind' => \A i \in Inputs : edge[i] = armed[i]
      BY <3>1 DEF Changed
    <3>3. steady[pin] >= AtMost(0, WinLo)
      BY <2>1 DEF AtMost, TypeOK
    <3> QED
      BY <2>1, <2>2, <3>1, <3>2, <3>3 DEF SteadyInv
  <2>4. CASE rvalue # Active(edge[pin])
    <3>1. UNCHANGED <<elapsed, blind>>
      BY <1>7, <2>4 DEF Read
    <3>2. ~blind => rvalue = level[pin] /\ \A i \in Inputs : edge[i] = armed[i]
      BY <1>7 DEF SteadyInv, Read
    <3>3. ~blind => level[pin] # Active(armed[pin])
      BY <2>1, <2>4, <3>2
    <3> QED
      BY <2>1, <2>2, <3>1, <3>2, <3>3 DEF SteadyInv
  <2> QED
    BY <2>3, <2>4
<1>8. CASE Judge
  <2>1. UNCHANGED <<edge, armed, pin, level, steady, elapsed, pending, blind>> /\ pc = "judge"
    BY <1>8 DEF Judge, dinVars, pinVars, timeVars
  <2>2. CASE InWindow /\ pin # 0
    <3>1. pc' = "settle" /\ rvalue' = level[pin]
      BY <1>8, <2>2 DEF Judge, Sampled, TypeOK
    <3>2. elapsed >= WinLo
      BY <2>2 DEF InWindow
    <3> QED
      BY <2>1, <3>1, <3>2 DEF SteadyInv
  <2>3. CASE ~(InWindow /\ pin # 0)
    <3>1. pc' = "check"
      BY <1>8, <2>3 DEF Judge
    <3> QED
      BY <2>1, <3>1 DEF SteadyInv
  <2> QED
    BY <2>2, <2>3
<1>9. CASE Settle
  <2>1. UNCHANGED <<edge, armed, pin, level, steady, elapsed, blind>>
    BY <1>9 DEF Settle, dinVars, pinVars, timeVars
  <2>2. pc = "settle" /\ pc' \in {"publish", "check"} /\ pending' = pending \ {pin}
    BY <1>9 DEF Settle
  <2>3. ~blind => pin \notin pending
    BY <2>2 DEF SteadyInv
  <2> QED
    BY <2>1, <2>2, <2>3 DEF SteadyInv
<1>10. ASSUME NEW c \in Cameras, NEW from \in {"publish", "publishDual"},
              NEW to \in {"publishDual", "check"}, NEW dt \in Nat, Publish(c, from, to, dt)
       PROVE  SteadyInv'
  <2>1. UNCHANGED <<edge, armed, pin, level, pending, blind>>
    BY <1>10 DEF Publish, dinVars, pinVars
  <2>2. \A i \in Inputs : steady[i] >= AtMost(elapsed, WinLo) => steady'[i] >= AtMost(elapsed', WinLo)
    BY <1>10, PassesSteady DEF Publish, timeVars
  <2>3. pc \in {"publish", "publishDual"} /\ pc' \in {"publishDual", "check"}
    BY <1>10 DEF Publish
  <2> QED
    BY <2>1, <2>2, <2>3 DEF SteadyInv
<1>11. CASE UNCHANGED vars
  BY <1>11 DEF SteadyInv, vars, dinVars, pinVars, loopVars, timeVars
<1>12. CASE Publishing
  BY <1>10, <1>12 DEF Publishing, Cameras
<1> QED
  BY <1>1, <1>2, <1>3, <1>4, <1>5, <1>6, <1>7, <1>8, <1>9, <1>11, <1>12 DEF Next

(* However the edges of the inputs DI1 .. DI4 and the DIN_SET_MODEs fall   *)
(* between the looks of the thread, an input that it accepts has not       *)
(* changed for WinLo, unless it changed between two looks of a pass or an  *)
(* edge was changed after its check, since the clock was started.          *)
THEOREM AcceptedIsSteady == Spec => []Debounced
<1>1. CASE Inputs \subseteq 1 .. 4
  <2>1. Init => TypeOK /\ SteadyInv
    BY <1>1, TypeInitially DEF Init, SteadyInv
  <2>2. TypeOK /\ SteadyInv /\ [Next]_vars => (TypeOK /\ SteadyInv)'
    BY <1>1, TypeInductive, SteadyInductive
  <2>3. TypeOK /\ SteadyInv => Debounced
    <3> SUFFICES ASSUME TypeOK, SteadyInv, Accepting, ~blind
                 PROVE  steady[pin] >= WinLo
      BY DEF Debounced
    <3>1. pc = "settle" /\ rvalue = Active(edge[pin])
      BY DEF Accepting, Accepts
    <3>2. pin \in Inputs \ pending /\ level[pin] = Active(armed[pin]) /\ elapsed >= WinLo
      BY <3>1 DEF SteadyInv, TypeOK
    <3>3. steady[pin] >= AtMost(elapsed, WinLo)
      BY <3>2 DEF SteadyInv
    <3> QED
      BY <3>2, <3>3, Durations DEF AtMost, TypeOK
  <2> QED
    BY <2>1, <2>2, <2>3, PTL DEF Spec
<1>2. CASE ~(Inputs \subseteq 1 .. 4)
  <2>1. Debounced
    BY <1>2 DEF Debounced
  <2> QED
    BY <2>1, PTL
<1> QED
  BY <1>1, <1>2
-----------------------------------------------------------------------------
(* Triggers are paid for by presses: while an event is unread, or the edge *)
(* last seen can still be accepted, one press is not used yet; two are not *)
(* if an edge is about to be accepted while another event is unread.       *)
Owed(c) == presses - raised[c]

Unserved(c) == pc = "publish" \/ (pc = "publishDual" /\ c = 1)

MissesEvent ==
  \/ level[pin] # rvalue /\ level[pin] = Active(edge[pin])
  \/ pin = 6 /\ pending \ {6} # {}

MayAccept ==
  /\ elapsed <= WinHi /\ pending # {}
  /\ \/ pin = 6
     \/ elapsed >= WinLo /\ pin # 0 /\ Active(edge[pin]) = IF pc = "judge" THEN level[pin] ELSE rvalue

Paid(c) ==
  /\ Owed(c) >= 0
  /\ pending # {} \/ elapsed <= WinHi => Owed(c) >= 1
  /\ Unserved(c) => Owed(c) >= 1 /\ (pending # {} => Owed(c) >= 2)
  /\ pc = "read" /\ MissesEvent => Owed(c) >= 2
  /\ pc \in {"judge", "settle"} /\ MayAccept => Owed(c) >= 2

PressInv ==
  /\ pc = "read" => pin \in pending
  /\ pc = "settle" => elapsed \in WinLo .. WinHi
  /\ pc \in {"publish", "publishDual"} => elapsed >= WinLo
  /\ \A c \in Cameras : Paid(c)

LEMMA PressInductive ==
  ASSUME WinLo > 0, WinHi < WinLo + 20, TypeOK, PressInv, [Next]_vars
  PROVE  PressInv'
<1> USE Durations DEF At
<1>0. /\ presses \in Nat /\ elapsed \in Nat /\ pin \in Inputs \cup {0}
      /\ \A c \in Cameras : raised[c] \in Nat
  BY DEF TypeOK
<1>1. ASSUME NEW i \in Inputs, Flip(i)
      PROVE  PressInv'
  <2>1. UNCHANGED <<edge, armed, pin, pc, rvalue, elapsed, raised>>
    BY <1>1 DEF Flip, dinVars, loopVars
  <2>2. pending \subseteq pending'
    BY <1>1 DEF Flip
  <2>3. ASSUME NEW c \in Cameras
        PROVE  Paid(c)'
    <3>1. Paid(c)
      BY DEF PressInv
    <3>2. CASE presses' = presses + 1
      <4>1. Owed(c)' = Owed(c) + 1 /\ Owed(c) \in Int
        BY <1>0, <2>1, <3>2 DEF Owed
      <4>2. pc = "settle" => elapsed <= WinHi
        BY DEF PressInv
      <4>3. pc = "read" => pending # {}
        BY DEF PressInv
      <4> QED
        BY <2>1, <3>1, <4>1, <4>2, <4>3 DEF Paid, Unserved, MayAccept
    <3>3. CASE presses' # presses + 1
      <4>1. pending' = pending /\ presses' = presses
        BY <1>1, <3>3 DEF Flip
      <4>2. level'[i] # Active(edge[i]) /\ \A j \in Inputs : j # i => level'[j] = level[j]
        BY <1>1, <3>3 DEF Flip, TypeOK
      <4>3. Owed(c)' = Owed(c)
        BY <2>1, <4>1 DEF Owed
      <4>4. Unserved(c)' = Unserved(c)
        BY <2>1 DEF Unserved
      <4>5. pc = "read" /\ MissesEvent' => MissesEvent
        BY <2>1, <4>1, <4>2 DEF MissesEvent, TypeOK
      <4>6. MayAccept' => MayAccept
        BY <1>0, <2>1, <4>1, <4>2 DEF MayAccept
      <4> QED
        BY <2>1, <3>1, <4>1, <4>3, <4>4, <4>5, <4>6 DEF Paid
    <3> QED
      BY <3>2, <3>3
  <2> QED
    BY <2>1, <2>2, <2>3 DEF PressInv
<1>2. ASSUME NEW a \in Cameras, NEW p \in 1 .. 4, NEW e \in Edges, SetDin(a, p, e)
      PROVE  PressInv'
  <2>1. UNCHANGED <<pinVars, loopVars, timeVars, pending>>
    BY <1>2 DEF SetDin
  <2>2. ASSUME NEW c \in Cameras
        PROVE  Paid(c)'
    <3>1. Paid(c)
      BY DEF PressInv
    <3>2. CASE edge' # edge /\ pc # "check"
      <4>1. Owed(c)' = Owed(c) + 1 /\ Owed(c) \in Int
        BY <1>0, <1>2, <2>1, <3>2 DEF SetDin, Owed, loopVars
      <4>2. pc = "settle" => elapsed <= WinHi
        BY DEF PressInv
      <4>3. pc = "read" => pending # {}
        BY DEF PressInv
      <4>4. UNCHANGED <<elapsed, pc, pending>>
        BY <2>1 DEF loopVars, timeVars
      <4> QED
        BY <3>1, <4>1, <4>2, <4>3, <4>4 DEF Paid, Unserved, MayAccept
    <3>3. CASE edge' = edge
      <4>1. UNCHANGED <<presses, raised, pending, elapsed, pc, pin, level, rvalue>>
        BY <1>2, <2>1, <3>3 DEF SetDin, pinVars, loopVars, timeVars
      <4> QED
        BY <3>1, <3>3, <4>1 DEF Paid, Owed, Unserved, MissesEvent, MayAccept
    <3>4. CASE pc = "check"
      <4>1. UNCHANGED <<presses, raised, pending, elapsed, pc>>
        BY <1>2, <2>1, <3>4 DEF SetDin, loopVars, timeVars
      <4> QED
        BY <3>1, <3>4, <4>1 DEF Paid, Owed, Unserved
    <3> QED
      BY <3>2, <3>3, <3>4
  <2> QED
    BY <2>1, <2>2 DEF PressInv, loopVars, timeVars
<1>3. ASSUME NEW dt \in Sleeps, Restart(dt)
      PROVE  PressInv'
  BY <1>0, <1>3 DEF PressInv, Paid, Owed, Unserved, Restart
<1>4. ASSUME NEW dt \in Nat, NEW but, Passes(dt, but), UNCHANGED <<presses, raised, pending>>,
             pc' \in {"poll", "judge"}, pc' = "judge" => pending = {}
      PROVE  PressInv'
  <2>1. elapsed' <= WinHi => elapsed <= WinHi
    BY <1>0, <1>4 DEF Passes, AtMost
  <2> QED
    BY <1>4, <2>1 DEF PressInv, Paid, Owed, Unserved, MayAccept
<1>5. ASSUME NEW dt \in Sleeps, Check(dt)
      PROVE  PressInv'
  BY <1>4, <1>5 DEF Check
<1>6. CASE PollNone
  BY <1>4, <1>6 DEF PollNone
<1>7. ASSUME NEW dt \in 0 .. Timeout, PollEvent(dt)
      PROVE  PressInv'
  <2>1. /\ UNCHANGED <<pending, presses, raised, level, edge>> /\ pending # {}
        /\ pc' = "read" /\ rvalue' = level[pin']
    BY <1>7 DEF PollEvent, dinVars, pinVars
  <2>2. pin' \in pending /\ \A j \in pending : pin' <= j
    BY <1>7, FirstPending DEF PollEvent, TypeOK
  <2>3. ~MissesEvent'
    <3>1. pending \subseteq 1 .. 6
      BY InputsAssumption DEF TypeOK
    <3>2. pin' = 6 => pending \subseteq {6}
      BY <2>2, <3>1
    <3> QED
      BY <2>1, <3>2 DEF MissesEvent
  <2> QED
    BY <2>1, <2>2, <2>3 DEF PressInv, Paid, Owed, Unserved
<1>8. CASE Read
  <2>1. /\ UNCHANGED <<presses, raised, level, edge, pin, rvalue>>
        /\ pc = "read" /\ pc' = "judge" /\ pending' = pending \ {pin} /\ pin \in pending
    BY <1>8 DEF Read, dinVars, pinVars, PressInv
  <2>2. rvalue = Active(edge[pin]) => elapsed' = 0
    BY <1>8 DEF Read
  <2>3. MayAccept' => MissesEvent
    BY <2>1, <2>2 DEF MayAccept, MissesEvent
  <2>4. ASSUME NEW c \in Cameras
        PROVE  Paid(c)'
    <3>1. Owed(c)' = Owed(c) /\ Owed(c) >= 1 /\ Owed(c) \in Int
      BY <1>0, <2>1 DEF PressInv, Paid, Owed
    <3>2. MissesEvent => Owed(c) >= 2
      BY <2>1 DEF PressInv, Paid
    <3> QED
      BY <2>1, <2>3, <3>1, <3>2 DEF Paid, Unserved
  <2> QED
    BY <2>1, <2>4 DEF PressInv
<1>9. CASE Judge
  <2>1. UNCHANGED <<presses, raised, level, edge, pin, pending, elapsed>> /\ pc = "judge"
    BY <1>9 DEF Judge, dinVars, pinVars, timeVars
  <2>2. CASE InWindow /\ pin # 0
    <3>1. pc' = "settle" /\ rvalue' = level[Sampled(pin)] /\ elapsed \in WinLo .. WinHi
      BY <1>9, <2>2 DEF Judge, InWindow
    <3>2. pin # 6 => rvalue' = level[pin]
      BY <3>1 DEF Sampled
    <3>3. MayAccept' => MayAccept
      BY <2>1, <3>1, <3>2 DEF MayAccept
    <3>4. ASSUME NEW c \in Cameras
          PROVE  Paid(c)'
      <4>1. Paid(c)
        BY DEF PressInv
      <4> QED
        BY <2>1, <3>1, <3>3, <4>1 DEF Paid, Owed, Unserved
    <3> QED
      BY <2>1, <3>1, <3>4 DEF PressInv
  <2>3. CASE ~(InWindow /\ pin # 0)
    <3>1. pc' = "check"
      BY <1>9, <2>3 DEF Judge
    <3> QED
      BY <2>1, <3>1 DEF PressInv, Paid, Owed, Unserved
  <2> QED
    BY <2>2, <2>3
<1>10. CASE Settle
  <2>1. /\ UNCHANGED <<presses, raised, edge, pin, rvalue, elapsed>>
        /\ pc = "settle" /\ pending' = pending \ {pin} /\ pin # 0 /\ elapsed \in WinLo .. WinHi
    BY <1>10 DEF Settle, dinVars, timeVars, TypeOK, PressInv
  <2>2. CASE Accepts
    <3>1. pc' = "publish"
      BY <1>10, <2>2 DEF Settle
    <3>2. pending # {} => MayAccept
      BY <2>1, <2>2 DEF MayAccept, Accepts
    <3>3. ASSUME NEW c \in Cameras
          PROVE  Paid(c)'
      <4>1. Owed(c)' = Owed(c) /\ Owed(c) >= 1 /\ Owed(c) \in Int
        BY <1>0, <2>1 DEF PressInv, Paid, Owed
      <4>2. pending # {} => Owed(c) >= 2
        BY <2>1, <3>2 DEF PressInv, Paid
      <4>3. pending' # {} => pending # {}
        BY <2>1
      <4> QED
        BY <3>1, <4>1, <4>2, <4>3 DEF Paid
    <3> QED
      BY <2>1, <3>1, <3>3 DEF PressInv
  <2>3. CASE ~Accepts
    <3>1. pc' = "check"
      BY <1>10, <2>3 DEF Settle
    <3> QED
      BY <2>1, <3>1 DEF PressInv, Paid, Owed, Unserved
  <2> QED
    BY <2>2, <2>3
<1>11. ASSUME NEW a \in Cameras, NEW dt \in Nat, dt >= 20, NEW from, NEW to,
              Publish(a, from, to, dt),
              \/ a = 0 /\ from = "publish" /\ to = "publishDual"
              \/ a = 1 /\ from = "publishDual" /\ to = "check"
       PROVE  PressInv'
  <2>1. /\ UNCHANGED <<presses, pending>> /\ pc = from /\ pc' = to
        /\ from \in {"publish", "publishDual"} /\ to \in {"publishDual", "check"}
    BY <1>11 DEF Publish
  <2>2. elapsed >= WinLo
    BY <2>1 DEF PressInv
  <2>3. Unserved(a) /\ ~Unserved(a)'
    BY <1>11, <2>1 DEF Unserved
  <2>4. ASSUME NEW c \in Cameras, Unserved(c)'
        PROVE  Unserved(c) /\ c # a
    BY <1>11, <2>1, <2>4 DEF Unserved
  <2>5. CASE Set1(a)
    <3>1. raised' = [raised EXCEPT ![a] = @ + 1] /\ elapsed' = AtMost(elapsed + dt, Forget)
      BY <1>11, <2>5 DEF Publish, Passes
    <3>2. ~(elapsed' <= WinHi) /\ elapsed' >= WinLo
      BY <1>0, <1>11, <2>2, <3>1 DEF AtMost
    <3>3. ASSUME NEW c \in Cameras
          PROVE  Paid(c)'
      <4>1. Paid(c) /\ Owed(c) \in Int
        BY <1>0 DEF PressInv, Owed
      <4>2. CASE c = a
        <5>1. Owed(c)' = Owed(c) - 1
          BY <1>0, <2>1, <3>1, <4>2 DEF Owed, TypeOK
        <5>2. Owed(c) >= 1 /\ (pending # {} => Owed(c) >= 2)
          BY <2>3, <4>1, <4>2 DEF Paid
        <5> QED
          BY <2>1, <2>3, <3>2, <4>1, <4>2, <5>1, <5>2 DEF Paid
      <4>3. CASE c # a
        <5>1. Owed(c)' = Owed(c)
          BY <2>1, <3>1, <4>3 DEF Owed, TypeOK
        <5> QED
          BY <2>1, <2>4, <3>2, <4>1, <5>1 DEF Paid
      <4> QED
        BY <4>2, <4>3
    <3> QED
      BY <2>1, <3>2, <3>3 DEF PressInv
  <2>6. CASE ~Set1(a)
    <3>1. UNCHANGED <<raised, elapsed>>
      BY <1>11, <2>6 DEF Publish, timeVars
    <3>2. ASSUME NEW c \in Cameras
          PROVE  Paid(c)'
      <4>1. Paid(c) /\ Owed(c)' = Owed(c)
        BY <2>1, <3>1 DEF PressInv, Owed
      <4> QED
        BY <2>1, <2>4, <3>1, <4>1 DEF Paid
    <3> QED
      BY <2>1, <2>2, <3>1, <3>2 DEF PressInv
  <2> QED
    BY <2>5, <2>6
<1>12. CASE Publishing
  BY <1>11, <1>12 DEF Publishing, Cameras
<1>13. CASE UNCHANGED vars
  BY <1>13 DEF PressInv, Paid, Owed, Unserved, MissesEvent, MayAccept,
               vars, dinVars, pinVars, loopVars, timeVars
<1> QED
  BY <1>1, <1>2, <1>3, <1>5, <1>6, <1>7, <1>8, <1>9, <1>10, <1>12, <1>13 DEF Next

(* When publishing, 10 ms at least, outlasts the window in which an edge   *)
(* is judged, each camera gets at most one trigger per press, although the *)
(* clock runs on after the acceptance and any number of edges come, also   *)
(* between the looks of a pass.                                            *)
THEOREM TriggersArePaidFor ==
  ASSUME WinLo > 0, WinHi < WinLo + 20
  PROVE  Spec => []OncePerPress
<1>1. Init => PressInv
  BY DEF Init, PressInv, Paid, Owed, Unserved
<1>2. TypeOK /\ PressInv /\ [Next]_vars => (TypeOK /\ PressInv)'
  BY TypeInductive, PressInductive
<1>3. TypeOK /\ PressInv => OncePerPress
  BY DEF TypeOK, PressInv, Paid, Owed, OncePerPress
<1> QED
  BY <1>1, <1>2, <1>3, TypeInitially, PTL DEF Spec
=============================================================================
