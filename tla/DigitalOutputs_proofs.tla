------------------------- MODULE DigitalOutputs_proofs -------------------------
(***************************************************************************)
(* What holds of the digital outputs for any of them, any periods, whoever *)
(* sets them and however often.                                            *)
(***************************************************************************)
EXTENDS DigitalOutputs, TLAPS

(* What an output carries out for a command that nothing overlaps: it is   *)
(* set, timed and turned over once, one after the other.                   *)
Once(o) ==
  alone[o] =>
    /\ level[o] = IF spent[o] THEN 1 - asked[o].level ELSE asked[o].level
    /\ spent[o] => blink[o] = 0 /\ o \notin turning /\ ~HalfSet(o)
    /\ o \in turning => blink[o] = 0 /\ ~HalfSet(o)
    /\ HalfSet(o) => blink[o] = 0
    /\ \A v, w \in Callers : half[v] = o /\ half[w] = o => v = w

(* The shapes of the arrays, which is all of the types that is needed.     *)
Shapes ==
  /\ DOMAIN level = Outputs /\ level = [o \in Outputs |-> level[o]]
  /\ blink \in [Outputs -> Nat] /\ turning \subseteq Outputs
  /\ DOMAIN half = Callers /\ half = [w \in Callers |-> half[w]]
  /\ period \in [Callers -> Nat]
  /\ DOMAIN asked = Outputs /\ asked = [o \in Outputs |-> asked[o]]
  /\ DOMAIN alone = Outputs /\ alone = [o \in Outputs |-> alone[o]]
  /\ DOMAIN spent = Outputs /\ spent = [o \in Outputs |-> spent[o]]

OutputsInv == Shapes /\ \A o \in Outputs : Once(o)

LEMMA OutputsInitial == Init => OutputsInv
BY OutputsAssumption DEF Init, OutputsInv, Shapes, Once, HalfSet, None, Callers

LEMMA ShapesInductive == Shapes /\ [Next]_vars => Shapes'
<1> SUFFICES ASSUME Shapes, [Next]_vars PROVE Shapes'
  OBVIOUS
<1> USE PeriodsAssumption, OutputsAssumption DEF Shapes, Set
<1>1. ASSUME NEW w \in Callers, NEW o \in Outputs, NEW high \in BOOLEAN, NEW on \in BOOLEAN,
             NEW p \in Nat, SetLevel(w, o, high, on, p)
      PROVE  Shapes'
  BY <1>1 DEF SetLevel
<1>2. CASE Manual \/ Flow
  BY <1>1, <1>2 DEF Manual, Flow, Callers
<1>3. ASSUME NEW w \in Callers, SetPeriod(w) PROVE Shapes'
  BY <1>3 DEF SetPeriod
<1>4. ASSUME NEW o \in Outputs, Look(o) \/ Turn(o) PROVE Shapes'
  BY <1>4 DEF Look, Turn
<1>5. CASE Tick
  BY <1>5 DEF Tick
<1>6. CASE UNCHANGED vars
  BY <1>6 DEF vars
<1> QED
  BY <1>2, <1>3, <1>4, <1>5, <1>6 DEF Next, IoCtl

LEMMA OnceInductive ==
  ASSUME OutputsInv, [Next]_vars, NEW o \in Outputs
  PROVE  Once(o)'
<1> USE DEF OutputsInv
<1>0. o # None
  BY OutputsAssumption DEF None
<1>1. ASSUME NEW w \in Callers, NEW x \in Outputs, NEW high \in BOOLEAN, NEW on \in BOOLEAN,
             NEW p \in Nat, SetLevel(w, x, high, on, p)
      PROVE  Once(o)'
  <2>1. CASE x = o
    <3>1. alone'[o] = ~Pulsing(o) /\ spent'[o] = FALSE /\ level'[o] = asked'[o].level
      BY <1>1, <2>1 DEF SetLevel, Set, Shapes
    <3>2. blink' = blink /\ turning' = turning /\ half' = [half EXCEPT ![w] = o]
      BY <1>1, <2>1 DEF SetLevel, Set
    <3>3. ~Pulsing(o) => blink[o] = 0 /\ o \notin turning /\ \A v \in Callers : half[v] # o
      BY DEF Pulsing, HalfSet, Shapes
    <3> QED
      BY <3>1, <3>2, <3>3 DEF Once, HalfSet, Shapes
  <2>2. CASE x # o
    <3>1. UNCHANGED <<alone[o], spent[o], level[o], asked[o], blink, turning>>
      BY <1>1, <2>2 DEF SetLevel, Set, Shapes
    <3>2. half' = [half EXCEPT ![w] = x] /\ half[w] = None
      BY <1>1 DEF SetLevel, Set
    <3>3. \A v \in Callers : half'[v] = o => half[v] = o
      BY <2>2, <3>2 DEF Shapes
    <3> QED
      BY <3>1, <3>3 DEF Once, HalfSet
  <2> QED
    BY <2>1, <2>2
<1>2. CASE Manual \/ Flow
  BY <1>1, <1>2, PeriodsAssumption DEF Manual, Flow, Callers
<1>3. ASSUME NEW w \in Callers, SetPeriod(w) PROVE Once(o)'
  <2>1. /\ UNCHANGED <<alone[o], spent[o], level[o], asked[o], turning>>
        /\ half' = [half EXCEPT ![w] = None]
        /\ blink'[o] = IF half[w] = o THEN period[w] ELSE blink[o]
    BY <1>3 DEF SetPeriod, Set, Shapes
  <2>2. \A v \in Callers : half'[v] = o => half[v] = o /\ v # w
    BY <1>0, <2>1 DEF Shapes
  <2> QED
    BY <2>1, <2>2 DEF Once, HalfSet
<1>4. ASSUME NEW x \in Outputs, Look(x) PROVE Once(o)'
  <2>1. UNCHANGED <<alone, spent, level, asked, half>>
    BY <1>4 DEF Look
  <2>2. CASE blink[x] > 0 /\ blink' = [blink EXCEPT ![x] = 0] /\ turning' = {x}
    BY <2>1, <2>2 DEF Once, HalfSet, Shapes
  <2>3. CASE UNCHANGED <<blink, turning>>
    BY <2>1, <2>3 DEF Once, HalfSet
  <2>4. blink[x] \in Nat
    BY DEF Shapes
  <2> QED
    BY <1>4, <2>2, <2>3, <2>4 DEF Look, Set
<1>5. ASSUME NEW x \in Outputs, Turn(x) PROVE Once(o)'
  BY <1>5 DEF Turn, Set, Once, HalfSet, Shapes
<1>6. CASE Tick
  <2>1. UNCHANGED <<alone, spent, level, blink, turning, half>>
    BY <1>6 DEF Tick
  <2>2. ASSUME NEW r, NEW n PROVE [r EXCEPT !.age = n].level = r.level
    OBVIOUS
  <2>3. asked'[o].level = asked[o].level
    BY <1>6, <2>2 DEF Tick
  <2> QED
    BY <2>1, <2>3 DEF Once, HalfSet
<1>7. CASE UNCHANGED vars
  BY <1>7 DEF vars, Once, HalfSet
<1> QED
  BY <1>2, <1>3, <1>4, <1>5, <1>6, <1>7 DEF Next, IoCtl

(* A command that nothing overlaps is carried out: the io worker's or the  *)
(* flow's two writes and the pulse thread's two never add up to another    *)
(* level than the one asked for, or its opposite when the pulse is over.   *)
THEOREM CommandsCarriedOut == Spec => []LevelAsAsked
<1>1. OutputsInv /\ [Next]_vars => OutputsInv'
  BY ShapesInductive, OnceInductive DEF OutputsInv
<1>2. OutputsInv => LevelAsAsked
  BY DEF OutputsInv, Once, LevelAsAsked
<1> QED
  BY <1>1, <1>2, OutputsInitial, PTL DEF Spec
-----------------------------------------------------------------------------
(* How long a pulse lasts. *)

(* The clock of an output at whose last look no time was asked for is at   *)
(* most one look behind.                                                   *)
Restarted(o) == idle[o] => since[o] <= IF o \in looked THEN 0 ELSE 1

(* From the setting of the period on the clock and the command's age       *)
(* advance together, the clock ahead by what it showed then, and no pass   *)
(* lets the age go beyond the period.                                      *)
Ageing(o) ==
  alone[o] =>
    /\ HalfSet(o) => /\ asked[o].age = 0
                     /\ \A w \in Callers : half[w] = o => period[w] = asked[o].period
    /\ ~spent[o] /\ o \notin turning /\ ~HalfSet(o) => blink[o] = asked[o].period
    /\ blink[o] > 0 => /\ asked[o].age <= since[o] /\ asked[o].age <= blink[o]
                       /\ o \in looked => asked[o].age < blink[o]
    /\ blink[o] > 0 /\ rested[o] =>
         /\ since[o] \in {asked[o].age, asked[o].age + 1}
         /\ since[o] <= blink[o] /\ (o \in looked => since[o] < blink[o])
    /\ spent[o] \/ o \in turning =>
         /\ asked[o].period > 0 /\ asked[o].age <= asked[o].period
         /\ rested[o] => asked[o].age >= asked[o].period - 1

(* The times that are counted. *)
Times ==
  /\ since \in [Outputs -> Nat]
  /\ asked \in [Outputs -> [level : {0, 1}, period : Nat, age : Nat, by : Callers]]
  /\ \A o \in Outputs : blink[o] <= Longest
  /\ \A w \in Callers : period[w] <= Longest
  /\ DOMAIN idle = Outputs /\ idle = [o \in Outputs |-> idle[o]]
  /\ DOMAIN rested = Outputs /\ rested = [o \in Outputs |-> rested[o]]
  /\ \A o \in Outputs : Restarted(o)

PulseInv == OutputsInv /\ Times /\ \A o \in Outputs : Ageing(o)

LEMMA Longests == Longest \in Nat /\ \A p \in AllPeriods : p \in Nat /\ p <= Longest
<1>1. Longest \in AllPeriods /\ \A q \in AllPeriods : q <= Longest
  BY LongestAssumption DEF Longest
<1> QED
  BY <1>1, PeriodsAssumption DEF AllPeriods

LEMMA PulseInitial == Init => PulseInv
<1> SUFFICES ASSUME Init PROVE PulseInv
  OBVIOUS
<1>1. OutputsInv
  BY OutputsInitial
<1>2. asked \in [Outputs -> [level : {0, 1}, period : Nat, age : Nat, by : Callers]]
  BY DEF Init, Callers
<1>3. Times
  BY <1>2, Longests DEF Init, Times, Restarted
<1>4. ASSUME NEW o \in Outputs PROVE Ageing(o)
  BY OutputsAssumption DEF Init, Ageing, HalfSet, None
<1> QED
  BY <1>1, <1>3, <1>4 DEF PulseInv

LEMMA TimesInductive == Shapes /\ Times /\ [Next]_vars => Times'
<1> SUFFICES ASSUME Shapes, Times, [Next]_vars PROVE Times'
  OBVIOUS
<1> DEFINE Record == [level : {0, 1}, period : Nat, age : Nat, by : Callers]
<1>h. Horizon \in Nat /\ \A x \in Nat : AtMost(x) \in Nat
  BY Longests DEF Horizon, AtMost
<1>1. ASSUME NEW w \in Callers, NEW o \in Outputs, NEW high \in BOOLEAN, NEW on \in BOOLEAN,
             NEW p \in AllPeriods, SetLevel(w, o, high, on, p)
      PROVE  Times'
  <2>1. /\ asked' = [asked EXCEPT ![o] = [level |-> Value(high, on), period |-> p, age |-> 0, by |-> w]]
        /\ period' = [period EXCEPT ![w] = p]
        /\ UNCHANGED <<blink, since, looked, idle, rested>>
    BY <1>1 DEF SetLevel, Set
  <2>2. [level |-> Value(high, on), period |-> p, age |-> 0, by |-> w] \in Record
    BY Longests DEF Value
  <2>3. asked' \in [Outputs -> Record]
    BY <2>1, <2>2 DEF Times
  <2>4. \A v \in Callers : period'[v] = IF v = w THEN p ELSE period[v]
    BY <2>1 DEF Shapes
  <2>5. \A v \in Callers : period'[v] <= Longest
    BY <2>4, Longests DEF Times
  <2> QED
    BY <2>1, <2>3, <2>5 DEF Times, Restarted
<1>2. CASE Manual \/ Flow
  BY <1>1, <1>2 DEF Manual, Flow, Callers, AllPeriods
<1>3. ASSUME NEW w \in Callers, SetPeriod(w) PROVE Times'
  <2>1. /\ blink' = [blink EXCEPT ![half[w]] = period[w]]
        /\ rested' = [rested EXCEPT ![half[w]] = idle[half[w]]]
        /\ UNCHANGED <<since, asked, period, looked, idle>>
    BY <1>3 DEF SetPeriod, Set
  <2>2. \A o \in Outputs : blink'[o] = blink[o] \/ blink'[o] = period[w]
    BY <2>1 DEF Shapes
  <2> QED
    BY <2>1, <2>2 DEF Times, Restarted
<1>4. ASSUME NEW o \in Outputs, Look(o) PROVE Times'
  <2>1. since' = since \/ since' = [since EXCEPT ![o] = 0]
    BY <1>4 DEF Look, Set
  <2>2. blink' = blink \/ blink' = [blink EXCEPT ![o] = 0]
    BY <1>4 DEF Look, Set
  <2>3. \A x \in Outputs : blink'[x] = blink[x] \/ blink'[x] = 0
    BY <2>2 DEF Shapes
  <2>4. UNCHANGED <<asked, period, rested>> /\ idle' = [idle EXCEPT ![o] = (blink[o] = 0)]
    BY <1>4 DEF Look, Set
  <2>5. ASSUME NEW x \in Outputs PROVE Restarted(x)'
    <3>1. CASE x = o
      <4>1. idle'[o] => blink[o] = 0
        BY <2>4 DEF Times
      <4>2. blink[o] = 0 => since'[o] = 0 /\ o \in looked'
        BY <1>4 DEF Look, Set, Times
      <4> QED
        BY <3>1, <4>1, <4>2 DEF Restarted
    <3>2. CASE x # o
      BY <1>4, <2>1, <2>4, <3>2 DEF Look, Times, Restarted
    <3> QED
      BY <3>1, <3>2
  <2>6. DOMAIN idle' = Outputs /\ idle' = [x \in Outputs |-> idle'[x]]
    BY <2>4 DEF Times
  <2>7. \A x \in Outputs : blink'[x] <= Longest
    BY <2>3, Longests DEF Times
  <2>8. since' \in [Outputs -> Nat]
    BY <2>1 DEF Times
  <2> QED
    BY <2>4, <2>5, <2>6, <2>7, <2>8 DEF Times
<1>5. ASSUME NEW o \in Outputs, Turn(o) PROVE Times'
  BY <1>5 DEF Turn, Times, Restarted
<1>6. CASE Tick
  <2>1. /\ since' = [o \in Outputs |-> AtMost(since[o] + 1)]
        /\ UNCHANGED <<blink, period, idle, rested>> /\ looked = Outputs /\ looked' = {}
    BY <1>6 DEF Tick
  <2>2. since' \in [Outputs -> Nat]
    BY <1>h, <2>1 DEF Times
  <2>3. ASSUME NEW r \in Record, NEW b
        PROVE  [r EXCEPT !.age = IF b THEN @ ELSE AtMost(@ + 1)] \in Record
    BY <1>h
  <2>4. asked' \in [Outputs -> Record]
    BY <1>6, <2>3 DEF Tick, Times
  <2>5. ASSUME NEW o \in Outputs PROVE Restarted(o)'
    <3>1. since'[o] = AtMost(since[o] + 1) /\ idle'[o] = idle[o] /\ o \in looked /\ o \notin looked'
      BY <2>1
    <3>2. since[o] = 0 => since'[o] <= 1
      BY <1>h, <3>1, Longests DEF AtMost
    <3> QED
      BY <3>1, <3>2 DEF Times, Restarted
  <2> QED
    BY <2>1, <2>2, <2>4, <2>5 DEF Times
<1>7. CASE UNCHANGED vars
  BY <1>7 DEF vars, Times, Restarted
<1> QED
  BY <1>2, <1>3, <1>4, <1>5, <1>6, <1>7 DEF Next, IoCtl

LEMMA AgeingInductive ==
  ASSUME PulseInv, [Next]_vars, NEW o \in Outputs
  PROVE  Ageing(o)'
<1> USE DEF PulseInv
<1>0. o # None
  BY OutputsAssumption DEF None
<1>t. /\ blink[o] \in Nat /\ since[o] \in Nat /\ asked[o].age \in Nat /\ asked[o].period \in Nat
      /\ blink[o] <= Longest /\ Longest \in Nat
  BY Longests DEF OutputsInv, Shapes, Times
<1>a. Ageing(o) /\ Once(o) /\ Restarted(o)
  BY DEF OutputsInv, Times
<1>1. ASSUME NEW w \in Callers, NEW x \in Outputs, NEW high \in BOOLEAN, NEW on \in BOOLEAN,
             NEW p \in Nat, SetLevel(w, x, high, on, p)
      PROVE  Ageing(o)'
  <2>1. CASE x = o
    <3>1. /\ alone'[o] = ~Pulsing(o) /\ spent'[o] = FALSE
          /\ asked'[o].age = 0 /\ asked'[o].period = p /\ period'[w] = p
      BY <1>1, <2>1 DEF SetLevel, Set, OutputsInv, Shapes
    <3>2. /\ UNCHANGED <<blink, turning, since, looked, rested>>
          /\ half' = [half EXCEPT ![w] = o]
      BY <1>1, <2>1 DEF SetLevel, Set
    <3>3. ~Pulsing(o) => blink[o] = 0 /\ o \notin turning /\ \A v \in Callers : half[v] # o
      BY <1>t DEF Pulsing, HalfSet
    <3>4. half'[w] = o /\ \A v \in Callers : v # w => half'[v] = half[v]
      BY <3>2 DEF OutputsInv, Shapes
    <3>5. HalfSet(o)' /\ \A v \in Callers : alone'[o] /\ half'[v] = o => v = w
      BY <3>1, <3>3, <3>4 DEF HalfSet
    <3>6. alone'[o] => blink'[o] = 0 /\ o \notin turning'
      BY <3>1, <3>2, <3>3
    <3> QED
      BY <3>1, <3>5, <3>6 DEF Ageing
  <2>2. CASE x # o
    <3>1. UNCHANGED <<alone[o], spent[o], asked[o], blink, turning, since, looked, rested>>
      BY <1>1, <2>2 DEF SetLevel, Set, OutputsInv, Shapes
    <3>2. half' = [half EXCEPT ![w] = x] /\ half[w] = None /\ period' = [period EXCEPT ![w] = p]
      BY <1>1 DEF SetLevel, Set
    <3>3. \A v \in Callers : (half'[v] = o <=> half[v] = o) /\ (half[v] = o => period'[v] = period[v])
      BY <1>0, <2>2, <3>2 DEF OutputsInv, Shapes
    <3>4. HalfSet(o)' <=> HalfSet(o)
      BY <3>3 DEF HalfSet
    <3> QED
      BY <1>a, <3>1, <3>3, <3>4 DEF Ageing
  <2> QED
    BY <2>1, <2>2
<1>2. CASE Manual \/ Flow
  BY <1>1, <1>2, PeriodsAssumption DEF Manual, Flow, Callers
<1>3. ASSUME NEW w \in Callers, SetPeriod(w) PROVE Ageing(o)'
  <2>1. /\ UNCHANGED <<alone, spent, asked, turning, since, looked, period>>
        /\ half' = [half EXCEPT ![w] = None]
        /\ blink'[o] = IF half[w] = o THEN period[w] ELSE blink[o]
        /\ rested'[o] = IF half[w] = o THEN idle[o] ELSE rested[o]
    BY <1>3 DEF SetPeriod, Set, OutputsInv, Shapes, Times
  <2>2. \A v \in Callers : half'[v] = o <=> half[v] = o /\ v # w
    BY <1>0, <2>1 DEF OutputsInv, Shapes
  <2>3. CASE half[w] = o
    <3>1. alone[o] => /\ blink'[o] = asked[o].period /\ ~HalfSet(o)' /\ ~spent[o] /\ o \notin turning
                      /\ asked[o].age = 0
      BY <1>a, <2>1, <2>2, <2>3 DEF Ageing, Once, HalfSet
    <3>2. rested'[o] => since[o] <= IF o \in looked THEN 0 ELSE 1
      BY <1>a, <2>1, <2>3 DEF Restarted
    <3> QED
      BY <1>t, <2>1, <3>1, <3>2 DEF Ageing
  <2>4. CASE half[w] # o
    <3>1. (HalfSet(o)' <=> HalfSet(o)) /\ blink'[o] = blink[o] /\ rested'[o] = rested[o]
      BY <2>1, <2>2, <2>4 DEF HalfSet
    <3>2. \A v \in Callers : half'[v] = o => half[v] = o
      BY <2>2
    <3>3. UNCHANGED <<alone[o], spent[o], asked[o], since[o], blink[o], rested[o], turning, looked,
                      period>>
      BY <2>1, <3>1
    <3> QED
      BY <1>a, <3>1, <3>2, <3>3 DEF Ageing
  <2> QED
    BY <2>3, <2>4
<1>4. ASSUME NEW x \in Outputs, Look(x) PROVE Ageing(o)'
  <2>1. UNCHANGED <<alone, spent, asked, half, period, rested>> /\ HalfSet(o)' = HalfSet(o)
    BY <1>4 DEF Look, HalfSet
  <2>2. x \notin looked /\ looked' = looked \cup {x} /\ turning = {}
    BY <1>4 DEF Look
  <2>3. CASE x # o
    <3>1. UNCHANGED <<blink[o], since[o]>> /\ o \notin turning' /\ (o \in looked' <=> o \in looked)
      BY <1>4, <2>2, <2>3 DEF Look, Set, OutputsInv, Shapes, Times
    <3> QED
      BY <1>a, <2>1, <2>2, <3>1 DEF Ageing
  <2>4. CASE x = o /\ blink[o] > 0 /\ since[o] >= blink[o]
    <3>1. blink'[o] = 0 /\ turning' = {o} /\ since' = since
      BY <1>4, <2>4 DEF Look, Set, OutputsInv, Shapes
    <3>2. alone[o] => /\ ~spent[o] /\ ~HalfSet(o) /\ blink[o] = asked[o].period
                      /\ rested[o] => since[o] = blink[o]
      BY <1>a, <1>t, <2>2, <2>4 DEF Ageing, Once
    <3>3. alone[o] => /\ asked[o].period > 0 /\ asked[o].age <= asked[o].period
                      /\ rested[o] => asked[o].age >= asked[o].period - 1
      BY <1>a, <1>t, <2>4, <3>2 DEF Ageing
    <3> QED
      BY <2>1, <3>1, <3>2, <3>3 DEF Ageing
  <2>5. CASE x = o /\ ~(blink[o] > 0 /\ since[o] >= blink[o])
    <3>1. UNCHANGED <<blink, turning>> /\ since'[o] = IF blink[o] > 0 THEN since[o] ELSE 0
      BY <1>4, <2>5 DEF Look, Set, Times
    <3>2. o \notin looked /\ o \in looked'
      BY <2>2, <2>5
    <3>3. CASE blink[o] > 0
      <4>1. alone[o] => ~HalfSet(o)
        BY <1>a, <3>3 DEF Once
      <4> QED
        BY <1>a, <1>t, <2>1, <2>5, <3>1, <3>2, <3>3, <4>1 DEF Ageing
    <3>4. CASE ~(blink[o] > 0)
      BY <1>a, <1>t, <2>1, <3>1, <3>2, <3>4 DEF Ageing
    <3> QED
      BY <3>3, <3>4
  <2> QED
    BY <2>3, <2>4, <2>5
<1>5. ASSUME NEW x \in Outputs, Turn(x) PROVE Ageing(o)'
  <2>1. UNCHANGED <<alone, asked, half, period, blink, since, looked, rested>>
        /\ HalfSet(o)' = HalfSet(o)
    BY <1>5 DEF Turn, HalfSet
  <2>2. /\ x \in turning /\ turning' = turning \ {x}
        /\ spent'[o] = IF x = o THEN TRUE ELSE spent[o]
    BY <1>5 DEF Turn, Set, OutputsInv, Shapes
  <2> QED
    BY <1>a, <2>1, <2>2 DEF Ageing
<1>6. CASE Tick
  <2>1. UNCHANGED <<alone, spent, blink, turning, half, period, rested>>
        /\ HalfSet(o)' = HalfSet(o)
    BY <1>6 DEF Tick, HalfSet
  <2>2. looked = Outputs /\ looked' = {} /\ turning = {} /\ since'[o] = AtMost(since[o] + 1)
    BY <1>6 DEF Tick
  <2>3. /\ asked'[o].age = IF spent[o] \/ HalfSet(o) THEN asked[o].age ELSE AtMost(asked[o].age + 1)
        /\ asked'[o].period = asked[o].period
    BY <1>6 DEF Tick, Times
  <2>4. \A n \in Nat : n < Horizon => AtMost(n) = n
    BY DEF AtMost
  <2>5. CASE alone[o] /\ HalfSet(o)
    <3>1. asked[o].age = 0 /\ blink[o] = 0 /\ ~spent[o]
      BY <1>a, <2>2, <2>5 DEF Ageing, Once
    <3> QED
      BY <1>a, <2>1, <2>2, <2>3, <2>5, <3>1 DEF Ageing
  <2>6. CASE alone[o] /\ ~HalfSet(o) /\ blink[o] > 0
    <3>1. ~spent[o] /\ asked[o].age <= since[o] /\ asked[o].age < blink[o]
      BY <1>a, <2>2, <2>6 DEF Ageing, Once
    <3>2. asked'[o].age = asked[o].age + 1
      BY <1>t, <2>3, <2>4, <2>6, <3>1 DEF Horizon
    <3>3. since'[o] >= asked[o].age + 1
      BY <1>t, <2>2, <3>1 DEF AtMost, Horizon
    <3>4. rested[o] => /\ since[o] \in {asked[o].age, asked[o].age + 1} /\ since[o] < blink[o]
                       /\ since'[o] = since[o] + 1
      BY <1>a, <1>t, <2>2, <2>4, <2>6 DEF Ageing, Horizon
    <3> QED
      BY <1>a, <1>t, <2>1, <2>2, <2>3, <2>6, <3>1, <3>2, <3>3, <3>4 DEF Ageing
  <2>7. CASE alone[o] /\ ~HalfSet(o) /\ ~(blink[o] > 0)
    BY <1>a, <2>1, <2>2, <2>3, <2>7 DEF Ageing
  <2> QED
    BY <2>1, <2>5, <2>6, <2>7 DEF Ageing
<1>7. CASE UNCHANGED vars
  BY <1>7, <1>a DEF vars, Ageing, HalfSet
<1> QED
  BY <1>2, <1>3, <1>4, <1>5, <1>6, <1>7 DEF Next, IoCtl

(* A pulse that nothing overlaps lasts no longer than the period that was  *)
(* asked for, wherever the passes of ioCtl fall between the setting of the *)
(* level and of the period; and less by a pass at most, unless the period  *)
(* was set before ioCtl restarted the clock of the pulse before it.        *)
THEOREM PulsesLastAsAsked == Spec => []PulseLength
<1>1. PulseInv /\ [Next]_vars => PulseInv'
  <2> SUFFICES ASSUME PulseInv, [Next]_vars PROVE PulseInv'
    OBVIOUS
  <2>1. OutputsInv'
    BY ShapesInductive, OnceInductive DEF OutputsInv, PulseInv
  <2>2. Times'
    BY TimesInductive DEF OutputsInv, PulseInv
  <2>3. (\A o \in Outputs : Ageing(o))'
    BY AgeingInductive
  <2> QED
    BY <2>1, <2>2, <2>3 DEF PulseInv
<1>2. PulseInv => PulseLength
  <2> SUFFICES ASSUME PulseInv, NEW o \in Outputs, alone[o], spent[o]
               PROVE  /\ asked[o].period > 0 /\ asked[o].age <= asked[o].period
                      /\ rested[o] => asked[o].age >= asked[o].period - 1
    BY DEF PulseLength
  <2> QED
    BY DEF PulseInv, Ageing
<1> QED
  BY <1>1, <1>2, PulseInitial, PTL DEF Spec
=============================================================================
