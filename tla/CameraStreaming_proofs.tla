------------------------ MODULE CameraStreaming_proofs ------------------------
(***************************************************************************)
(* What holds of one camera's streaming for any commands, any values of    *)
(* its trigger mode, any length of the ring, any number of commands and of *)
(* threads, and waits that return without a signal.                        *)
(***************************************************************************)
EXTENDS CameraStreaming, TLAPS

(* Where the threads and the worker may be, and who has a handle.          *)
StreamType ==
  /\ op \in {"idle", "gone", "inquiry", "capture", "snap", "close", "closing", "closeWait",
             "reopen", "release"}
  /\ pc \in [Threads -> Places] /\ started \in [Threads -> BOOLEAN]
  /\ hdl \in [Threads -> Nat] /\ live \in Nat /\ nHandle \in Nat
  /\ isRun \in BOOLEAN /\ trigMode \in BOOLEAN /\ early \in BOOLEAN

(* Unless a close returned early: a thread that lives is the only one and  *)
(* uses the open handle; it has been created, and not been told to end, or *)
(* else the worker is waiting for it; and it is gone when the worker opens *)
(* the camera anew.                                                        *)
OneAlive  == \A s, t \in Threads : Alive(s) /\ Alive(t) => s = t
HandleOk  == op # "gone" => \A t \in Threads : Alive(t) => hdl[t] = live
CreatedOk == op \notin {"closing", "closeWait", "gone"} => \A t \in Threads : Alive(t) => created
ReopenOk  == op = "reopen" => \A t \in Threads : ~Alive(t)

StreamInv ==
  /\ StreamType
  /\ ~early => OneAlive /\ HandleOk /\ CreatedOk /\ ReopenOk

(* What waking threads does not touch: who lives, with which handle, what  *)
(* he saw and did.                                                         *)
Quiet ==
  /\ hdl' = hdl /\ started' = started /\ pc' \in [Threads -> Places]
  /\ \A t \in Threads, p \in {"none", "top", "begin", "halt"} : pc'[t] = p <=> pc[t] = p

LEMMA WokenQuiet ==
  ASSUME StreamType, NEW W, W \subseteq InPlace("wait") \cup InPlace("blocked"),
         pc' = Woken(W), UNCHANGED <<hdl, started>>
  PROVE  Quiet
BY DEF Quiet, Woken, InPlace, StreamType, Places

(* Starting and stopping wakes threads, and neither creates nor ends any.  *)
LEMMA StartorStopWakes ==
  ASSUME StreamType, NEW b \in BOOLEAN, StartorStop(b)
  PROVE  Quiet /\ isRun' = b
<1>1. PICK R \in OneOf(InPlace("wait")), T \in OneOf(InPlace("blocked")) : pc' = Woken(R \cup T)
  BY DEF StartorStop
<1>2. R \cup T \subseteq InPlace("wait") \cup InPlace("blocked")
  BY DEF OneOf
<1> QED
  BY <1>1, <1>2, WokenQuiet DEF StartorStop

LEMMA ThreadQuiet ==
  ASSUME StreamType, UNCHANGED thread
  PROVE  Quiet
BY DEF Quiet, thread, StreamType

LEMMA StopFirstWakes ==
  ASSUME StreamType, StopFirst
  PROVE  Quiet /\ isRun' \in BOOLEAN
<1>1. CASE streaming
  BY <1>1, StartorStopWakes DEF StopFirst
<1>2. CASE ~streaming
  BY <1>2, ThreadQuiet DEF StopFirst, flags, StreamType
<1> QED
  BY <1>1, <1>2

(* A thread that does not live is free to be used.                         *)
LEMMA FreeIsFree ==
  ASSUME \E t \in Threads : ~Alive(t)
  PROVE  Free \in Threads /\ ~Alive(Free)
BY DEF Free
-----------------------------------------------------------------------------
(* While no thread comes or goes, the worker keeps the invariant by not    *)
(* opening the camera anew.                                                *)
LEMMA QuietKeeps ==
  ASSUME StreamInv, Quiet, UNCHANGED <<live, early, nHandle>>, isRun' \in BOOLEAN, trigMode' \in BOOLEAN,
         \/ created' = created /\ op' \in {"idle", "gone", "inquiry", "capture", "snap", "close",
                                           "release"}
         \/ op' \in {"closing", "closeWait"},
         op \notin {"closing", "closeWait", "gone"} \/ op' \in {"closing", "closeWait", "gone"},
         op = "gone" => op' = "gone"
  PROVE  StreamInv'
<1>1. \A t \in Threads : (Alive(t)' <=> Alive(t)) /\ hdl'[t] = hdl[t]
  BY DEF Quiet, Alive
<1>2. StreamType'
  BY DEF StreamInv, StreamType, Quiet
<1>3. ~early => OneAlive' /\ HandleOk' /\ CreatedOk' /\ ReopenOk'
  BY <1>1 DEF StreamInv, OneAlive, HandleOk, CreatedOk, ReopenOk
<1> QED
  BY <1>2, <1>3 DEF StreamInv

(* A step of a thread by which none comes or goes.                         *)
LEMMA GoesKeeps ==
  ASSUME StreamInv, NEW t \in Threads, NEW from \in Places \ {"none"}, NEW to \in Places \ {"none"},
         Goes(t, from, to), started' \in [Threads -> BOOLEAN],
         UNCHANGED <<op, live, nHandle, isRun, trigMode, created, hdl, early>>
  PROVE  StreamInv'
<1>1. \A s \in Threads : Alive(s)' <=> Alive(s)
  BY DEF Goes, Alive, StreamInv, StreamType
<1>2. StreamType'
  BY DEF StreamInv, StreamType, Goes
<1>3. ~early => OneAlive' /\ HandleOk' /\ CreatedOk' /\ ReopenOk'
  BY <1>1 DEF StreamInv, OneAlive, HandleOk, CreatedOk, ReopenOk
<1> QED
  BY <1>2, <1>3 DEF StreamInv

LEMMA StepKeeps ==
  ASSUME StreamInv, NEW t \in Threads, NEW from \in Places \ {"none"}, NEW to \in Places \ {"none"},
         Step(t, from, to)
  PROVE  StreamInv'
<1>1. /\ Goes(t, from, to) /\ started' \in [Threads -> BOOLEAN]
      /\ UNCHANGED <<op, live, nHandle, isRun, trigMode, created, hdl, early>>
  BY DEF Step, device, flags, StreamInv, StreamType
<1> QED
  BY <1>1, GoesKeeps

LEMMA InvInductive == StreamInv /\ [Next]_vars => StreamInv'
<1> SUFFICES ASSUME StreamInv, [Next]_vars PROVE StreamInv'
  OBVIOUS
<1>t. StreamType
  BY DEF StreamInv
<1>1. ASSUME NEW b \in Triggers, SetConfig(b) PROVE StreamInv'
  <2>1. trigMode' \in BOOLEAN
    BY <1>1, <1>t, TriggersAssumption DEF SetConfig, StreamType
  <2>2. op = "idle" /\ UNCHANGED <<op, live, nHandle, created, early>>
    BY <1>1 DEF SetConfig, Command
  <2>3. Quiet /\ isRun' \in BOOLEAN
    <3>1. CASE StartorStop(FALSE)
      BY <3>1, <1>t, StartorStopWakes
    <3>2. CASE UNCHANGED <<flags, thread>>
      BY <3>2, <1>t, ThreadQuiet DEF flags, StreamType
    <3> QED
      BY <1>1, <3>1, <3>2 DEF SetConfig
  <2> QED
    BY <2>1, <2>2, <2>3, QuietKeeps
<1>2. ASSUME Quiet, isRun' \in BOOLEAN, UNCHANGED <<device, trigMode, created, early>>,
             op = "idle", op' \in {"idle", "capture", "close", "release"}
      PROVE  StreamInv'
  BY <1>2, <1>t, QuietKeeps DEF StreamType, device
<1>3. CASE GetConfig \/ AcquireImages
  BY <1>2, <1>3, <1>t, StopFirstWakes DEF GetConfig, AcquireImages, Command
<1>4. CASE Prepare
  <2>1. op = "idle" /\ UNCHANGED <<op, device, trigMode, early>>
    BY <1>4 DEF Prepare, Command
  <2>2. CASE created \/ live = 0
    BY <1>2, <1>4, <1>t, <2>1, <2>2, ThreadQuiet DEF Prepare, StreamType
  <2>3. CASE ~(created \/ live = 0)
    <3>1. Create(Free) /\ Free \in Threads /\ ~Alive(Free)
      BY <1>4, <2>3, FreeIsFree DEF Prepare
    <3> DEFINE f == Free
    <3>2. /\ pc' = [pc EXCEPT ![f] = "top"] /\ hdl' = [hdl EXCEPT ![f] = live]
          /\ started' = [started EXCEPT ![f] = FALSE]
          /\ isRun' = FALSE /\ created' = TRUE /\ f \in Threads /\ ~Alive(f)
      BY <3>1 DEF Create
    <3> HIDE DEF f
    <3>3. StreamType'
      BY <1>t, <2>1, <3>2 DEF StreamType, Places, device
    <3>4. ASSUME ~early
          PROVE  OneAlive' /\ HandleOk' /\ CreatedOk' /\ ReopenOk'
      <4>1. \A t \in Threads : ~Alive(t)
        BY <2>1, <2>3, <3>4 DEF StreamInv, CreatedOk
      <4>2. \A t \in Threads : Alive(t)' => t = f /\ hdl'[t] = live
        BY <1>t, <3>2, <4>1 DEF Alive, StreamType
      <4> QED
        BY <2>1, <3>2, <4>2 DEF OneAlive, HandleOk, CreatedOk, ReopenOk, device
    <3> QED
      BY <2>1, <3>3, <3>4 DEF StreamInv
  <2> QED
    BY <2>2, <2>3
<1>5. CASE Start \/ Stop \/ Close
  BY <1>2, <1>5, <1>t, StartorStopWakes DEF Start, Stop, Close, Command
<1>6. CASE Pop
  BY <1>2, <1>6, <1>t, ThreadQuiet DEF Pop, Command, flags, StreamType
<1>7. CASE Release
  <2>1. Quiet /\ isRun' \in BOOLEAN
    BY <1>7, <1>t, StopFirstWakes, ThreadQuiet DEF Release, flags, StreamType
  <2> QED
    BY <1>2, <1>7, <2>1 DEF Release, Command
<1>8. ASSUME UNCHANGED <<live, nHandle, trigMode, created, flags, thread, early>>,
             op \in {"capture", "snap"}, op' \in {"snap", "idle"}
      PROVE  StreamInv'
  BY <1>8, <1>t, ThreadQuiet, QuietKeeps DEF StreamType, flags
<1>9. CASE AcquireBegin \/ AcquireEnd
  BY <1>8, <1>9 DEF AcquireBegin, AcquireEnd
<1>10. CASE CloseTell
  <2>1. Quiet
    BY <1>10, <1>t, WokenQuiet DEF CloseTell
  <2> QED
    BY <1>10, <2>1, QuietKeeps DEF CloseTell, device
<1>11. CASE CloseWait
  BY <1>11, <1>t, ThreadQuiet, QuietKeeps DEF CloseWait, device, flags, StreamType
<1>12. CASE WakesEarly
  <2>1. /\ op' = "reopen" /\ early' = SomeAlive
        /\ UNCHANGED <<live, nHandle, trigMode, isRun, pc, hdl, started>>
    BY <1>12 DEF WakesEarly, device, flags, thread
  <2>2. StreamType'
    BY <1>t, <2>1 DEF StreamType, SomeAlive
  <2>3. ~early' => \A t \in Threads : ~Alive(t)'
    BY <2>1 DEF SomeAlive, Alive
  <2> QED
    BY <2>2, <2>3 DEF StreamInv, OneAlive, HandleOk, CreatedOk, ReopenOk
<1>13. CASE Reopen
  <2>1. /\ op = "reopen" /\ op' = "idle" /\ live' \in Nat /\ nHandle' \in Nat
        /\ UNCHANGED <<trigMode, created, isRun, pc, hdl, started, early>>
    BY <1>13, <1>t DEF Reopen, flags, thread, StreamType
  <2>2. StreamType'
    BY <1>t, <2>1 DEF StreamType
  <2>3. ~early => \A t \in Threads : ~Alive(t)'
    BY <2>1 DEF StreamInv, ReopenOk, Alive
  <2> QED
    BY <2>1, <2>2, <2>3 DEF StreamInv, OneAlive, HandleOk, CreatedOk, ReopenOk
<1>14. CASE Destroy
  <2>1. /\ op' = "gone" /\ live' \in Nat /\ UNCHANGED <<nHandle, trigMode, isRun, pc, hdl, started, early>>
    BY <1>14, <1>t DEF Destroy, flags, thread, StreamType
  <2>2. StreamType'
    BY <1>t, <2>1 DEF StreamType
  <2> QED
    BY <2>1, <2>2 DEF StreamInv, OneAlive, HandleOk, CreatedOk, ReopenOk, Alive
<1>15. ASSUME NEW t \in Threads, Top(t) \/ Check(t) \/ Test(t) \/ Block(t) \/ Acquire(t) \/ WakesUp(t)
       PROVE  StreamInv'
  BY <1>15, StepKeeps DEF Top, Check, Test, Block, Acquire, WakesUp, Places
<1>16. ASSUME NEW t \in Threads, Halt(t) \/ Begin(t)
       PROVE  StreamInv'
  <2>1. /\ Goes(t, "halt", "wait") \/ Goes(t, "begin", "trigger")
        /\ started' \in [Threads -> BOOLEAN]
        /\ UNCHANGED <<op, live, nHandle, isRun, trigMode, created, hdl, early>>
    BY <1>16, <1>t DEF Halt, Begin, Grabs, flags, StreamType
  <2> QED
    BY <2>1, GoesKeeps DEF Places
<1>17. ASSUME NEW t \in Threads, Leave(t)
       PROVE  StreamInv'
  <2>1. /\ pc[t] = "leave" /\ pc' = [pc EXCEPT ![t] = "none"]
        /\ hdl' = [hdl EXCEPT ![t] = 0] /\ started' = [started EXCEPT ![t] = FALSE]
        /\ op' = IF op = "closeWait" THEN "reopen" ELSE op
        /\ UNCHANGED <<live, nHandle, trigMode, created, isRun>>
    BY <1>17 DEF Leave, Goes, device, flags
  <2>2. /\ Alive(t) /\ ~Alive(t)'
        /\ \A s \in Threads \ {t} : (Alive(s)' <=> Alive(s)) /\ hdl'[s] = hdl[s]
    BY <1>t, <2>1 DEF Alive, StreamType
  <2>3. early' = (early /\ \E s \in Threads \ {t} : Alive(s))
    BY <1>17 DEF Leave
  <2>4. StreamType'
    <3>1. early' \in BOOLEAN
      BY <2>3
    <3> QED
      BY <1>t, <2>1, <3>1 DEF StreamType, Places
  <2>5. ASSUME ~early'
        PROVE  \A s \in Threads : ~Alive(s)'
    <3>1. CASE early
      BY <2>2, <2>3, <2>5, <3>1
    <3>2. CASE ~early
      BY <2>2, <3>2 DEF StreamInv, OneAlive
    <3> QED
      BY <3>1, <3>2
  <2> QED
    BY <2>4, <2>5 DEF StreamInv, OneAlive, HandleOk, CreatedOk, ReopenOk
<1>18. CASE Callback \/ OtherCallback \/ UNCHANGED vars
  <2>1. UNCHANGED <<op, live, nHandle, trigMode, created, isRun, pc, hdl, started, early>>
    BY <1>18 DEF Callback, OtherCallback, vars, device, flags, thread
  <2> QED
    BY <2>1 DEF StreamInv, StreamType, OneAlive, HandleOk, CreatedOk, ReopenOk, Alive
<1> QED
  BY <1>1, <1>3, <1>4, <1>5, <1>6, <1>7, <1>9, <1>10, <1>11, <1>12, <1>13, <1>14, <1>15, <1>16, <1>17, <1>18
     DEF Next, Worker, GoesOn, Thread

LEMMA InvInitial == Init => StreamInv
<1>1. ASSUME Init PROVE StreamType
  <2>1. /\ pc \in [Threads -> Places] /\ started \in [Threads -> BOOLEAN] /\ hdl \in [Threads -> Nat]
    BY <1>1 DEF Init, Places
  <2>2. /\ op = "idle" /\ live = 1 /\ nHandle = 1
        /\ isRun = FALSE /\ trigMode = FALSE /\ early = FALSE
    BY <1>1 DEF Init
  <2> QED
    BY <2>1, <2>2 DEF StreamType
<1>2. Init => OneAlive /\ HandleOk /\ CreatedOk /\ ReopenOk
  BY DEF Init, OneAlive, HandleOk, CreatedOk, ReopenOk, Alive
<1> QED
  BY <1>1, <1>2 DEF StreamInv

LEMMA InvHolds == Spec => []StreamInv
BY InvInitial, InvInductive, PTL DEF Spec

(* Until the worker gives the camera up, a thread uses the open handle,    *)
(* unless the wait of a close returned while its thread lived.             *)
THEOREM ThreadUsesOpenHandle == Spec => []HandleOutlivesThread
<1>1. StreamInv => HandleOutlivesThread
  BY DEF StreamInv, HandleOk, HandleOutlivesThread
<1> QED
  BY <1>1, InvHolds, PTL

(* No streaming thread is started while one lives, with that exception.    *)
THEOREM ThreadsDoNotOverlap == Spec => OneThread
<1>1. StreamInv /\ [Next]_vars => [\A t \in Threads : Starts(t) /\ ~early => ~SomeAlive]_vars
  <2> SUFFICES ASSUME StreamInv, [Next]_vars, NEW t \in Threads, Starts(t), ~early
               PROVE  ~SomeAlive
    OBVIOUS
  <2>t. StreamType
    BY DEF StreamInv
  <2>1. ~Quiet /\ ~UNCHANGED thread
    BY <2>t, ThreadQuiet DEF Quiet, Starts
  <2>2. ~StopFirst /\ ~StartorStop(TRUE) /\ ~StartorStop(FALSE)
    BY <2>1, <2>t, StopFirstWakes, StartorStopWakes
  <2>3. ~CloseTell
    BY <2>1, <2>t, WokenQuiet DEF CloseTell
  <2>4. ASSUME NEW s \in Threads, NEW from, NEW to, Goes(s, from, to)
        PROVE  from = "none"
    BY <2>4, <2>t DEF Starts, Goes, StreamType
  <2>5. ASSUME NEW s \in Threads, Thread(s) \/ WakesUp(s)
        PROVE  FALSE
    BY <2>4, <2>5 DEF Thread, WakesUp, Top, Check, Halt, Begin, Test, Block, Acquire, Leave, Grabs, Step
  <2>6. Prepare
    BY <2>1, <2>2, <2>3, <2>5
       DEF Next, Worker, GoesOn, vars, SetConfig, GetConfig, AcquireImages, Start, Stop, Pop, Close,
           Release, AcquireBegin, AcquireEnd, CloseWait, WakesEarly, Reopen, Destroy, Callback,
           OtherCallback
  <2>7. ~created /\ op = "idle"
    BY <2>1, <2>6 DEF Prepare, Command
  <2> QED
    BY <2>7 DEF StreamInv, CreatedOk, SomeAlive
<1> QED
  BY <1>1, InvHolds, PTL DEF Spec, OneThread
-----------------------------------------------------------------------------
(* Every step of the commands, of the SDK and of a thread is a step of     *)
(* GrabControl, or none: a command changes what is wanted, a thread's look *)
(* what it saw, its calls of the SDK what the camera does, and its end is  *)
(* the end.                                                                *)
Wants(t)  == Alive(t) /\ isRun
Saw(t)    == Alive(t) /\ (pc[t] = "begin" \/ (started[t] /\ pc[t] # "halt"))
Did(t)    == Alive(t) /\ started[t]

(* GrabControl's actions, said of one thread after the other.              *)
LEMMA WantStep ==
  ASSUME StreamType, StreamType', \A t \in Threads : (Saw(t)' <=> Saw(t)) /\ (Did(t)' <=> Did(t))
  PROVE  Control!Want
<1>1. \A t \in Threads : Wants(t)' \in BOOLEAN /\ Saw(t)' = Saw(t) /\ Did(t)' = Did(t)
  BY DEF StreamType, Wants, Saw, Did, Alive
<1> QED
  BY <1>1 DEF Control!Want, Wants, Saw, Did

LEMMA StepsAsTold == StreamInv /\ StreamInv' /\ [Next]_vars => [Control!Next]_(Control!vars)
<1> SUFFICES ASSUME StreamInv, StreamInv', [Next]_vars PROVE Control!Next
  OBVIOUS
<1>t. StreamType /\ StreamType'
  BY DEF StreamInv
<1>1. CASE Quiet
  <2>1. \A t \in Threads : (Saw(t)' <=> Saw(t)) /\ (Did(t)' <=> Did(t))
    BY <1>1 DEF Quiet, Saw, Did, Alive
  <2> QED
    BY <1>t, <2>1, WantStep DEF Control!Next
<1>2. CASE StopFirst \/ StartorStop(TRUE) \/ StartorStop(FALSE) \/ UNCHANGED thread \/ CloseTell
  <2>1. CloseTell => Quiet
    BY <1>t, WokenQuiet DEF CloseTell
  <2> QED
    BY <1>1, <1>2, <1>t, <2>1, StopFirstWakes, StartorStopWakes, ThreadQuiet
<1>3. CASE Prepare
  <2>1. CASE UNCHANGED thread
    BY <1>2, <2>1
  <2>2. CASE ~UNCHANGED thread
    <3>1. Create(Free) /\ Free \in Threads /\ ~Alive(Free)
      BY <1>3, <2>2, FreeIsFree DEF Prepare
    <3> DEFINE f == Free
    <3>2. /\ pc' = [pc EXCEPT ![f] = "top"] /\ started' = [started EXCEPT ![f] = FALSE]
          /\ f \in Threads /\ ~Alive(f)
      BY <3>1 DEF Create
    <3> HIDE DEF f
    <3>3. \A t \in Threads : (Saw(t)' <=> Saw(t)) /\ (Did(t)' <=> Did(t))
      BY <1>t, <3>2 DEF Saw, Did, Alive, StreamType
    <3> QED
      BY <1>t, <3>3, WantStep DEF Control!Next
  <2> QED
    BY <2>1, <2>2
<1>4. ASSUME NEW t \in Threads, Top(t) \/ Test(t) \/ Block(t) \/ Acquire(t) \/ WakesUp(t)
      PROVE  Control!Next
  <2>1. /\ pc[t] \notin {"none", "begin", "halt"} /\ pc' \in [Threads -> Places]
        /\ pc'[t] \notin {"none", "begin", "halt"} /\ UNCHANGED started
        /\ \A s \in Threads \ {t} : pc'[s] = pc[s]
    BY <1>4, <1>t DEF Top, Test, Block, Acquire, WakesUp, Step, Goes, StreamType
  <2>2. \A s \in Threads : (Saw(s)' <=> Saw(s)) /\ (Did(s)' <=> Did(s))
    BY <2>1 DEF Saw, Did, Alive
  <2> QED
    BY <1>t, <2>2, WantStep DEF Control!Next
<1>5. ASSUME NEW t \in Threads, Check(t)
      PROVE  Control!Next
  <2>1. /\ pc[t] = "lock" /\ UNCHANGED <<started, isRun>>
        /\ pc' = [pc EXCEPT ![t] = IF isRun THEN IF started[t] THEN "trigger" ELSE "begin"
                                   ELSE IF started[t] THEN "halt" ELSE "wait"]
    BY <1>5 DEF Check, Step, Goes, flags
  <2>2. \A s \in Threads : Saw(s)' = IF s = t THEN Wants(t) ELSE Saw(s)
    BY <1>t, <2>1 DEF Saw, Wants, Alive, StreamType
  <2>3. \A s \in Threads : Did(s)' = Did(s) /\ Wants(s)' = Wants(s)
    BY <1>t, <2>1 DEF Did, Wants, Alive, StreamType
  <2>4. Control!Look(t)
    BY <2>2, <2>3 DEF Control!Look, Saw, Wants, Did
  <2> QED
    BY <2>4 DEF Control!Next
<1>6. ASSUME NEW t \in Threads, Halt(t) \/ Begin(t)
      PROVE  Control!Next
  <2>1. /\ UNCHANGED isRun
        /\ \/ /\ pc[t] = "halt" /\ pc' = [pc EXCEPT ![t] = "wait"]
              /\ started' = [started EXCEPT ![t] = FALSE]
           \/ /\ pc[t] = "begin" /\ pc' = [pc EXCEPT ![t] = "trigger"]
              /\ started' = [started EXCEPT ![t] = TRUE]
    BY <1>6 DEF Halt, Begin, Grabs, Goes, flags
  <2>2. \A s \in Threads : Saw(s)' = Saw(s) /\ Wants(s)' = Wants(s)
    BY <1>t, <2>1 DEF Saw, Wants, Alive, StreamType
  <2>3. \A s \in Threads : Did(s)' = IF s = t THEN Saw(t) ELSE Did(s)
    BY <1>t, <2>1 DEF Saw, Did, Alive, StreamType
  <2>4. Control!Turn(t)
    BY <2>2, <2>3 DEF Control!Turn, Saw, Wants, Did
  <2> QED
    BY <2>4 DEF Control!Next
<1>7. ASSUME NEW t \in Threads, Leave(t)
      PROVE  Control!Next
  <2>1. /\ pc[t] = "leave" /\ pc' = [pc EXCEPT ![t] = "none"]
        /\ started' = [started EXCEPT ![t] = FALSE] /\ UNCHANGED isRun
    BY <1>7 DEF Leave, Goes, flags
  <2>2. \A s \in Threads : /\ Saw(s)' = IF s = t THEN FALSE ELSE Saw(s)
                           /\ Wants(s)' = IF s = t THEN FALSE ELSE Wants(s)
                           /\ Did(s)' = IF s = t THEN FALSE ELSE Did(s)
    BY <1>t, <2>1 DEF Saw, Wants, Did, Alive, StreamType
  <2>3. Control!Quit(t)
    BY <2>2 DEF Control!Quit, Saw, Wants, Did
  <2> QED
    BY <2>3 DEF Control!Next
<1> QED
  BY <1>2, <1>3, <1>4, <1>5, <1>6, <1>7
     DEF Next, Worker, GoesOn, Thread, vars, SetConfig, GetConfig, AcquireImages, Start, Stop, Pop, Close,
         Release, AcquireBegin, AcquireEnd, CloseWait, WakesEarly, Reopen, Destroy, Callback, OtherCallback

(* The camera never grabs unasked: through every command, closing and      *)
(* reopening, early or not, each streaming thread implements GrabControl.  *)
THEOREM StreamImplementsControl == Spec => GrabsAsTold
<1>1. Init => Control!Init
  BY DEF Init, Control!Init, Control!Nothing, Alive
<1> QED
  BY <1>1, StepsAsTold, InvHolds, PTL DEF Spec, GrabsAsTold, Control!Spec
=============================================================================
