# vision_box_DualCam: a TLA+ model

The program is one process, `vision_box_DualCam` (`mainCtl/`, `ipsCtl/`,
`iosCtl/`). It drives two GigE cameras, two lights, digital inputs and outputs
and a Modbus link, and takes its orders as JSON commands over MQTT. In
automatic mode each camera runs a glue-inspection cycle: trigger, recorded
recipe, verdict, answer.

| module | what it models | proofs | TLC |
|---|---|---|---|
| `CommandHandoff` | how a command gets from the MQTT callback to the thread that executes it; how threads park, wake, start and end | `CommandHandoff_proofs` | `MCCommandHandoff` |
| `InspectionFlow` | the two inspection cycles and the threads that feed them | `InspectionFlow_proofs` | `MCInspectionFlow` |
| `AutoRunRecorder` | recording a recipe, replaying it, single commands; the mode flags that both camera workers share | `AutoRunRecorder_proofs` | `MCAutoRunRecorder` |
| `RecipeReplay` | what a replay hands from step to step | `SharedData_proofs` | `MCSharedData` |
| `AlgorithmCommands` | arguments, results and answers of the 32 camera and algorithm commands | `SharedData_proofs` | `MCSharedData` |
| `MeasureLibrary` | the 20 functions of the image-processing library on its shared tools | `SharedData_proofs` | `MCSharedData` |
| `IosResponder` | arguments and answers of the 25 IO commands | `SharedData_proofs` | `MCSharedData` |
| `CameraStreaming` | the commands of one GigE camera, its streaming thread, the SDK's callback | `CameraStreaming_proofs` | `MCCameraStreaming` |
| `GrabControl` | what starting and stopping a stream promises; `CameraStreaming` implements it | | |
| `CameraHandles` | who owns the library's object and the camera devices, through failure and recovery | `CameraHandles_proofs` | `MCCameraHandles` |
| `TriggerInputs` | debouncing of the digital inputs | `TriggerInputs_proofs` | `MCTriggerInputs` |
| `DigitalOutputs` | setting, timing and turning over of the digital outputs | `DigitalOutputs_proofs` | `MCDigitalOutputs` |

A model checked by TLC is instantiated by its `MC` module and the `.cfg` files.
`PROJECT.json` names the runs, maps each definition to its source lines, and lists the
hazards of the code with the properties that cover them, or why none does.

## 1. The system

### Threads and what they share

| thread | code | state it owns | talks to |
|---|---|---|---|
| subscriber (mosquitto's) | `ext_mqtt_client.c` `ext_message_callback_Dual`, `ext_json_parse_Dual` | the parameter globals the parsers fill, `iEnbExMode`, `ios_cameraid` | workers (`TasksQ`, `ExModeQ`, `IO_JsonQ`), mainCtl (`JsonQ`, `innerQ_Main`), the cycles (`TestResult`, `Active`) |
| mainCtl | `mainCtl.c:1678` | `Process_Node`, `Process_Node_Dual`, wake flags | workers (`resume_*`, `TasksQ`), lights and outputs |
| camera worker, two | `mainCtl.c:1840` `ips_process_Dual` | recorded recipe, table of all parameters, image buffer; `static` flags shared by both | mainCtl (`innerQ_IPS`, `mp_FlowStatus`), library and drivers, MQTT answers |
| io worker | `mainCtl.c:2366` `ios_process` | none | the cycles (`giFlow`, `autoMode`), inputs and outputs, MQTT answers |
| streaming thread, one per camera | `Method_HikGigECamCtrl.cpp` `Thread_Acquire` | its copy of the handle | its worker (three flags, three conditions), the SDK |
| SDK callback | `AcquireCallBackEx` | none | a frame ring that both cameras share |
| trigger inputs | `iosCtl.c:1818` `trigCtl`; Modbus handlers; a SIGMCU handler | debounce clock, counter and pin | mainCtl (`innerQ_IOS`) |
| outputs | `iosCtl.c:1502` `ioCtl` | pulse clocks | the callers' `iosDO*_blink_time`, outputs |
| Modbus | `iosCtl.c:1412` `iosCtl` | register map | mainCtl (`innerQ_IOS`) |
| main | `mainCtl.c:2947`, signal handler at 240 | none | suspends, closes and joins all others |

Every queue is a deque under its own mutex; every park is a flag under its own
mutex with a condition variable. No critical section spans two of them, and the
parameter, text and result structures have no lock at all. That is where most of
the hazards come from.

### Components, and what makes each correct

| component | state and operations | hard because | correct when | modelled in |
|---|---|---|---|---|
| command hand-off | queues, flags; receive, queue, resume, take, park, suspend, close, join | six threads, two queues per command, a flag overwritten by whoever comes last | work queued is taken; records and tasks stay paired; no ticket is forgotten; teardown ends | `CommandHandoff` |
| inspection cycle | the four states of two handlers; trigger, run, verdict, restart | one trigger queue and one status for two cameras; handlers sleep between writes | triggers conserved; one run and one answer per trigger; a result is one's own; the cycle moves on | `InspectionFlow` |
| recorder and replay | recording, flags, table; record, end, trigger, single command | the flags are `static`, one set for both workers; the mode record is a global | a recording is the camera's own last session; Done means all of it ran | `AutoRunRecorder`, `RecipeReplay` |
| commands, parsers, answers | per command an argument structure, a text, a result structure | one of each for two cameras | a method reads, and an answer tells, its own command | `AlgorithmCommands` |
| IO responder | parameter globals, text, camera | overwritten by the next message while a command is queued | a command is performed and answered with its own | `IosResponder` |
| image-processing library | members of its tools; set, test, get | one object, three unlocked calls | a result is computed from its own arguments and image | `MeasureLibrary` |
| camera and stream | device, callback, thread, ring; nine commands | a thread, two conditions and a signal of its end without a flag | one thread at a time, on an open handle, that grabs as told | `CameraStreaming`, `GrabControl` |
| handles | library object, drivers, devices; fail, release, create | one camera's failure destroys what the other uses | devices are not leaked, not taken away; the service comes back | `CameraHandles` |
| inputs | level, edge, clock, counter; poll, debounce, restart | one clock, counter and pin for six inputs | an accepted input is steady; one trigger per press | `TriggerInputs` |
| outputs | level, time, clock; set, time, turn over | set and timed in two writes, by two callers | level and length as asked; a pulse ends | `DigitalOutputs` |
| Modbus, watchdog, LEDs, PWM, GPIO, I2C, image algorithms, backend, i2c-tools, utils | | I/O, numerical, or another program | | not modelled, see section 11 |

The modules do not overlap: where one takes another's subject for granted (that
a queued task is taken, that a recipe has been recorded, that a handle is
there) it says so in its header, and the section below repeats it.

## 2. CommandHandoff

A command for camera `c` takes these steps, each one locked call and one action:
`SubExMode` and `SubTask` (mode record, task), `SubJson` (a ticket on `JsonQ`),
`SubToken` (a token on `innerQ_Main`). An IO command is `SubIo`, `SubToken`.
A command no table knows (`SubUnknown`) still leaves a ticket and a token. The
parameter and method tables list the same commands in the same order, so a
command has both record and task or neither. The elements of an `ARRAY`
message take the same steps one after another.

mainCtl takes at most one token per loop (`MainPoll`), which also resumes the io
worker if IO work is queued, then at most one ticket per camera (`MainWake`), then
visits the two inspection flows, which may submit a run of their own
(`FlowExMode`, `FlowTask`, `FlowWake`; two runs in a row are possible here,
which is more than the flows do).
A worker goes `top`, `gate` (the condition wait), `drain`, `exmode`, `run`,
`idle` (second look at its queue), `park`. `BootSuspend`, `SigExit`, `ExitSuspend`,
`ExitClose`, `ExitCloseMp`, `ExitJoin` are `main()` and its signal handler.

Abstractions. A task is who submitted it and its number. A ticket and a token
carry nothing, since mainCtl only logs their content. What a task does is
a success or a failure; a failing ordinary camera command leaves the drain loop
(`break`, line 2283), a run of the flow and an IO command do not. Not modelled:
the destruction of the queue mutexes during teardown (lines 252-264), after
which a queue call is undefined; the single-camera queue at line 1734, which no
code fills; `mp_suspendFlag`, on which nobody waits (the wait is commented out);
another thread than main receiving the signal.

| run | instance | question |
|---|---|---|
| `HandoffPairing` | 1 camera + io, 2 commands, 1 run of the flow | Are records and tasks paired (`ModeRecordPresent`, `SerialSubmissionsPair`)? Is a ticket ever left without a token (`NoForgottenTicket`)? Who can strand queued work (`OnlySuspendStrands`)? |
| `HandoffLiveness` | 1 camera + io, 1 command, 1 run, SIGINT at any time | Is a resume honoured (`ResumeHonoured`)? Does teardown end (`TeardownJoins`)? |
| `LostWakeup` | 1 camera + io, 1 command | Is a queued task taken? **No.** |

Bounds. A lost wake-up, a swapped pair and a forgotten ticket need two
submissions and one worker at the most; that one token serves two cameras adds
tickets, not a new case, and `TicketsSpent` (section 9) is proved for any number
of cameras. Teardown is checked from every reachable point of a run. Workers of
different cameras share nothing in this module, so one camera and the io worker
show what a worker does. `CHECK_DEADLOCK FALSE`: commands are bounded, so the
system comes to rest with all workers parked.

`LostWakeup`: a worker finds its queue empty (line 2340), a command is queued and
`resume_ip_Dual` clears the flag, and then the worker's own `suspend_ip_Dual` sets
it. The task waits until some later command resumes the worker. `ios_process`
(line 2747) does the same. `OnlySuspendStrands` shows that this, and `main()`'s
suspend at start-up, are the only steps that can strand work.

`SerialSubmissionsPair` speaks of cameras on which the subscriber and the flow
were never between their two enqueues at once (`overlap`). Where they were, the
records can swap; no document claims otherwise.

## 3. InspectionFlow

| model | code |
|---|---|
| `Start`, `Arm` | `GI_START`; 100 ms of light switching lie in between |
| `Take`, then `Accept` or `Bounce` | `GI_WAIT_TRIGGER`; 10 ms or more in between |
| `Execute`, `Poll` | `GI_EXCUTE_AUTO_GI`: submit once, then read `mp_FlowStatus` |
| `Judge`, `Judged`, `Restart` | `GI_GET_TEST_RESULT`; up to 600 ms in between |
| `Worker...` | the part of `ips_process_Dual` a run passes through, with the shared `static` status |
| `Raise` | `trigCtl`, Modbus, SIGMCU: one trigger on `innerQ_IOS` |
| `ReportResult`, `AutoTestSetMode`, `IoAutoTest`, `DinSetMode`, `DoutSetMode`, `CommandRun` | the commands that reach the cycle |

One handler is in progress at a time (mainCtl alternates), at the place `mainPc`
says. Camera 0's and camera 1's handlers are the same code with other names, so
`at` is a parameter. The differences that exist are in the commands:
`ReportResult` writes camera 0's verdict whatever `CameraId` says, and
`IoAutoTest` restarts camera 0 only, since its second branch repeats the first
one's condition (line 2719).

`innerQ_IOS` and `mp_FlowStatus` are one for both cameras, and so is `runStatus`, the
`static bStatus_AutoRunMode`: a pass of one worker (`WorkerBegin`) may reset it between
the other's assignment and its `resume_mp`.
The message and the assignment of a run's end are one step: what reads the first
(mainCtl) does not read the second, and what writes the second does not read the first.

Abstractions. The recorded recipe is an outcome: `noRecipe` (status 0),
`broken` (-1), `good` (1). `TestResult` is a verdict or none. The AutoDone output
is mapped or not (`autoDonePin`); its level, the Result output and the Modbus
registers are written and never read by the cycle. A repeated verdict also stands for any
other message of that topic, whose one effect here is on `ios_cameraid`.
Queueing and waking a run are one step, and start-up is over in `Init`: both
are `CommandHandoff`'s subject. The worker still sleeps over a run that comes
between its check and its suspend (`WorkerCheck`, `WorkerPark`).

| run | instance | question |
|---|---|---|
| `FlowDual` | both cameras, 2 triggers, 1 restart, 1 commanded run, runs that finish | `TriggerConservation`, `OneRunPerTrigger`, `OneAnswerPerTrigger`, `WaitMeansUnwoken`; of an undisturbed camera `LitWhileRunning`, `CleanSlate`, `DoneMeansOwnRunDone` |
| `FlowSingle` | camera 1 arms, triggers for both, 2 restarts, all outcomes, AutoDone output mapped and unmapped, fair threads | `TriggerAccepted`, `RunAnswered` |

Bounds. Two triggers are one per camera (the bouncing cases) or two cycles of one
camera, which is what staleness from one cycle to the next needs. A restart at any
point of a cycle is one `AUTO_TEST_SET_MODE`, and switching the cycle on is
one too: `FlowSingle` has both; in `FlowDual` the one command both switches the cycle on and,
carried out late, resets camera 0 at any later point. Verdicts and
output mappings are unbounded. `FlowSingle`, about liveness, has one camera in the cycle and no
commanded run, which is also a deployment: only a camera with an AutoDone output
leaves `GI_START`.

What the last three of `FlowDual` exempt. With two cameras, commanded runs and restarts a camera
does take another run's status or message for its own: `SharedStatus.cfg` shows it. The
history `disturbed` is set for a camera when the other one submits a run, when the
backend commands a run, and, for camera 0, when a restart cuts its cycle off
between trigger and answer; it is cleared when the camera arms with no run of
either under way and no message unread. So the three say how far such a
disturbance reaches: not past the next arming at rest. Restarts at other points, the
other handler's resets of the status, its lights and its triggers are not exempted.
`RunAnswered` exempts
broken recipes, which `BrokenRecipe.cfg` shows waiting. Deadlock is checked in
every run of this module: the verdict commands keep coming.

## 4. AutoRunRecorder and RecipeReplay

Both are the drain loop of `ips_process_Dual` (`mainCtl.c:1840-2350`), the first
with its control, the second with its data.

`AutoRunRecorder`. The subscriber parses a command (`SubParse`) and then fills the
mode record and queues (`SubEnqueue`); the inspection flow does the same with a mode
record of its own (`FlowParse`, `FlowEnqueue`). What lies between is the parsed
activation flag, which they share. A worker takes a task and does one of three
things: for a mode command it sets the flags (`ModeCommand`) and then, as for
every ordinary command, looks at them (`Record`); for a trigger it assigns the
static activation flag, tests it, and begins a replay (`TrigAssign`, `TrigTest`,
`Begin`). A single command or each step of a replay is `Prepare` (AP to P), `RunOk` or
`RunFail`, `Convert` (result to AP) and `Answer`. An action makes at most one visit to what
is shared, so the other worker can come between any two.

Data is known by the replay it comes from (`Stamp`). The three algorithms are a capture, one that
leaves a mark in the table (`match`) and one that reads image and mark (`measure`):
the three kinds of exchange the code has. A match that finds no mark succeeds with the mark of the last one that
did (section 5); then the result keeps its stamp, and `missed` says so. What `session`, `mixed`, `ran` and `missed` keep is
history.
Left out: the sleep between steps; the re-initialisation of a failed camera (`CameraHandles`);
what the other conversions do (`RecipeReplay`).

`RecipeReplay` has the table slot by slot, the `AP2P` and `Ret2AP` converters of each
command, the image buffer, the result structures and the flag that enables the
converters. Its recipes are those of the test backend. A value is the run it was
computed in. `match` is the last mark any match of either camera has found, which the next match that finds none
hands on. Of the recipes it leaves out the ones with commands that have no
converter (histogram, circle regions, calibration), and of `TESTING_3`, which has
no capture, everything.

| run | instance | question |
|---|---|---|
| `Recorder` | both cameras, 8 pairs of scripts, 1 trigger of the flow in one of them, 1 failing method | Does a command carry its own mode (`OwnMode`)? Is what is recorded the camera's own session (`RecordingIsOwn`)? Does Done mean that every step ran (`DoneRanRecording`) and was measured on fresh data, but for a mark that was not found (`DoneMeansMeasured`)? Is each trigger reported exactly once (`TriggerAnswered`)? |
| `SharedData`, machine `replay` | 2 cameras, 2 runs of one and 1 of the other | Does an undisturbed run work with values of its own, but for a mark that was not found (`ReplayAloneIsOwn`)? |

Bounds. The scripts take every path of the state machine: recipe recorded, replayed
twice (a table of the previous replay is there), switched off, cleared by an
ordinary command, recorded anew, the continuous mode, two cameras that record, replay or
are used by hand at once. One fault may hit any method. Two runs are what an old
table needs; the other camera's one run leaves its values, and its mark, in what is shared.

Preconditions. `RecordingIsOwn` is about sessions in which no step of the other worker
came between the setting of a flag and the look at it; otherwise the flags make a
session begin, end or vanish. `DoneMeansMeasured` is for one camera in use: the
other's failures clear the activation flag, and then nothing is published (`RecorderCaptures.cfg`).
Its part about fresh data is about recordings that capture and match before they measure
(`Measurable`), as the recipes of the test backend do: without a match a
measurement takes whatever mark the table held. A match that finds no mark is not an error: the replay goes on with
an earlier part's mark and reports Done. So the mark, and only the mark, is exempt once a match of the replay
has found none (`missed`), in `DoneMeansMeasured` and in `ReplayAloneIsOwn`.
`DoneRanRecording` and `TriggerAnswered` need neither.

## 5. AlgorithmCommands, MeasureLibrary, IosResponder

These three follow values, not control. A value is the number of the message or
call it came with, and each module is a table, one row per command or function,
read off the code: what the parser assigns, what the converter copies, what the
method reads and writes, what the answer tells.

`AlgorithmCommands`: `Receive` (parse, keep the text, queue the task), `Take`, `Run`,
`Answer`. The subscriber handles one message before the next, so `Receive` is one step:
the parsed structure is read by nobody else. A pattern match may find no mark; then it ends `missed`, and its score
and box are the `Leftover` of the last match that found one (`match`). The calibration always does, with its counts as
they were cleared. Of such a command only the status is its own. Formatting, file names, the numerical
values are left out.

`MeasureLibrary`: a `vbs_` function checks its arguments (`Enter`), then
`SetParameter`, `TestIt`, `GetResult` on a tool object of which there is one. Arguments
are good, refused by the checks, or refused by the tool; and for a pattern match good, with an image in which
the mark does not show (`noMark`). Then the tool has no target (`Tested`), nobody looks at what `Match` and `getResult` return,
and `GetResult` returns 0 with the last match there was (`Held`). `GetResult` copies in one step.
Two threads that release the same `cv::Mat` at once is undefined behaviour that
this model does not have.

`IosResponder`: `Arrive` (the topic sets `ios_cameraid`), `Parse`, `KeepText`,
`EnQ`; `DeQ`, `Perform`, `Answer`, `Publish`. A message carries all the arguments its parser
knows. Parsing and performing one command are atomic. `TRIGGER_SET_MODE` replaces two light numbers
by pin numbers in place, which no handler reads; left out. `CAMERA_STREAMING_CONTROL`
has no branch in `ios_process` and falls into "unknown"; the second branch for
`LIGHT_GET_BRIGHTNESS` is unreachable. What a command does to the cycles, inputs and
outputs is in their modules.

`SharedData` checks these three and `RecipeReplay` in one run, from `MCSharedData`. The
four have no variable in common and one runs while the others rest (`machine`), so the
states are the sum of theirs.

| property | instance | question |
|---|---|---|
| `UndisturbedIsOwn` | 2 workers, 7 functions, 5 kinds of arguments, 3 calls | Does a good, undisturbed call return its own result, whatever is left in the tools? |
| `CommandOwnArguments`, `CommandSerialAnswered` | 2 cameras, 30 of the 32 commands, 2 messages, handles there or gone | Does a method read its own arguments? Is a command that met no other of its kind answered with its own text and outcome, and, unless it is a match that found nothing or a calibration, values? |
| `IoAloneIsOwn` | all 25 IO commands and a camera command, 2 messages | Is a command that met no other message performed, answered and published with its own? |

Bounds. The seven functions are one of every way of sharing: two of one tool, one whose image is
a member, two that always return 0, one that crops, and the match, whose result outlives its call. A value can come from the call
before or from one in between: three calls. For commands and messages two suffice,
one that overwrites and one that is overwritten. The two commands left
out are the circle crop and the streaming capture, of which the same properties are false
(section 10).

## 6. CameraStreaming and GrabControl

One driver object of `CMethod_HikGigECamCtrl`: nine commands of its worker, of which
some have steps during which the thread runs (`capture`, `close`, `release`), the
threads `Thread_Acquire` statement by statement where they touch what is shared, and the
callback. `StartorStop` takes the mutex that the thread holds while it stops grabbing, so
it is not enabled there. The trigger's condition has another mutex, which it does
not take: a notification between the thread's test and its wait is lost (`Test`, `Block`).
The close waits on its condition without a flag (`CloseWait`): the signal of the
thread's end (`Leave`) wakes a worker that waits already, and the wait may return without a signal (`WakesEarly`). Then the
handle is destroyed under the thread, and the next prepare clears the flag that told it to end and starts
another; so there are `Threads`, each at its own place (`pc`), with its own handle. Of two that wait a
notification wakes one (`OneOf`), and `mtx_triggrt` lets one at a time acquire (`Test`). The threads' own waits may return
without a signal too, and test again (`WakesUp`). The history `early` is true from such a return until no thread lives.

External: of the SDK is assumed that a camera that grabs already may refuse to
start again, that stopping, starting and registering may fail, that closing a handle
succeeds, and that frames come to a registered callback while the camera grabs.
Left out: parameters and their conversion, pixel formats; the error branch of `Thread_Acquire`, whose condition
never holds.

`GrabControl` is what starting and stopping promises: somebody wants grabbing or
not; a follower looks, and later does what it saw; it never grabs unless it saw
that this was wanted. `CameraStreaming` implements it, with the threads as followers and, of each,

    wanted   <- the thread lives and notified_IsRun
    seen     <- the thread lives and is about to start, or has started and is not about to stop
    grabbing <- the thread lives and has started

The type invariant `TypeOK` of this module, like those of the modules of section 5, is in no
run: it has caught nothing the other properties do not.

| run | instance | question |
|---|---|---|
| `StreamLife` | all nine commands, 6 of them in any order, 2 threads, trigger mode on or off, neighbour's frames, a ring of 3 | Unless a close returned early: does the thread use an open handle (`HandleOutlivesThread`), and is there one at a time (`OneThread`)? Does each implement `GrabControl` (`GrabsAsTold`), and does the camera settle as its last command says (`GrabsInTheEnd`)? |

Bounds. Prepare, start, stop, close, prepare again, start is six commands, and so is prepare, start, a close that returns early,
prepare, start, stop with two threads. A third thread takes two more early returns; a prepare that would start it is
not sent. `GrabsInTheEnd` exempts behaviours in which a thread stays
in the loop that waits for the trigger, which `StreamTriggerStop.cfg` shows, and those in which two threads remain.

## 7. CameraHandles

`held` says who has a device open. A worker copies a handle (`Begin`) and runs its
command with the copy (`Command`, `Algorithm`, `Initialize`, `ReleaseAll`), by itself (`pc` is `run`) or as a
step of a replay (`replay`). After a camera command that came by itself and failed, and
whose result record says so, it goes through `Judge`,
`LibOut`, `CamOut`, `LibIn`, `CamIn` (`mainCtl.c:2282`). A step of a replay that fails only ends the
replay (`OnFailure`): the code that looks like the same recovery there (`mainCtl.c:2033`) tests the trigger's command, or
reads the trigger's result record, which no step writes. CAMERA_INITIALIZE and
CAMERA_RELEASE go through a slot of their own, `Single`. Devices are unplugged and plugged in
at any time.

External: a device that is free can be opened, by one handle at a time. Destroying
an object, or releasing a driver, is one step. A driver that opens another device
forgets its first handle (`Lost`).

| run | instance | question |
|---|---|---|
| `HandlesDual` | 2 cameras, 2 devices, 2 command kinds, replays, 2 unplugs, CAMERA_INITIALIZE | Is a device held for a driver that is gone (`DriverHasDevice`)? Does a camera lose it to another's recovery (`Undisturbed`)? Is the library there (`LibraryRestored`)? |
| `HandlesLive` | 1 camera, 2 devices, 3 unplugs, replays, CAMERA_RELEASE | Is a lost camera opened again, if commands by themselves keep coming (`ComesBack`)? |

Bounds. Two recoveries interleave with two cameras and a fault each. `HandlesLive` starts with the
camera there, and has one camera and one kind of command: the result records are
shared, so another camera's success may clear the record that would make a camera
without a handle recover, and then nothing does.

## 8. TriggerInputs and DigitalOutputs

`TriggerInputs` is a pass of `trigCtl`, split where it looks at what others change: the edges are compared (`Check`,
or `Restart`), `poll()` waits (`PollNone`, `PollEvent`, with the first look at the input), the event is read and the
clock started (`Read`), the clock is judged and the input looked at again (`Judge`), which is compared with its edge
(`Settle`) and published (`Publish`). Between any two of these an input may change (`Flip`) and DIN_SET_MODE may change an
edge (`SetDin`). Time is in half
milliseconds: a sleep takes 1.0 or 1.5 ms, a wait up to 1 ms,
publishing 10 or 100 ms more. A pass can be blind (history `blind`): the input changes between two of its looks, so that the
second clears the event of a level the first did not see, or an edge changes after `Check`; `Debounced` exempts it,
and `StaleEdge.cfg` shows what is accepted then. External: a sysfs file reports an event after it is opened and until it is
read. The mapping from pin to table (`SetDin`), the branch of DI_TRIG2 that reads
DI_TRIG1 (`Sampled`) and the raising of every camera whose mode is 1 (`Set1`) are
as in the code. Left out: the unused delays and the queue of raw pins.

`DigitalOutputs`: a caller sets an output's level (`Manual`, `Flow`) and in another step
its time (`SetPeriod`); `ioCtl` looks at one output after another (`Look`), clears the time of one
that is over and then turns it over (`Turn`), once a millisecond (`Tick`). Time is counted
in passes. What the flow's record holds for a period, which nobody sets, is any of
`Strays`. Left out: TRIG1, TRIG2 and the LEDs blinked by the same loop.

| run | instance | question |
|---|---|---|
| `TriggerInputs` | 2 inputs, 3 changes, 1 DIN_SET_MODE; window 6 to 7 ms | Has an accepted input been steady for the debouncing time, unless a pass was blind (`Debounced`)? Does a press raise at most one trigger (`OncePerPress`)? |
| `Outputs` | 2 outputs, latch or 2 passes, 3 commands of either caller | Is an undisturbed command carried out (`LevelAsAsked`), for no longer than asked and, if its clock had been restarted, no shorter (`PulseLength`)? Does every pulse end (`PulsesEnd`)? |

Bounds. The window is shortened to keep the states few; what matters is that it is longer
than several passes and no wider than publishing. The theorems hold for the real
one. Three changes are a press, a bounce and another input's edge. Three
commands are a pulse, a second one on top, and another output's.

### Fairness

Weak fairness of each thread: the code gives them equal priority, none spins
without a sleep, and mutexes are held for a few statements. In `CommandHandoff` the
subscriber is fair only in finishing a command it has begun (`SubFinish`); that
messages or signals arrive is never assumed. In `InspectionFlow` the commands and the
triggers have no fairness at all, and `IoAutoTest` has it as the io worker's
queue. `AutoRunRecorder`: both workers, so that a method returns, with or without
success. `CameraStreaming`: the threads, and the worker in a command it has begun.
`DigitalOutputs`: `ioCtl`, and a caller that has written a level. `CameraHandles`: the
workers weakly; a device that is out comes back; and the clients send each kind of
command by itself again and again (strong fairness of `Begin(w, c, "run")`), which is what `ComesBack` is about; no
replay is assumed.
The liveness properties name the ways out the environment has (`~active`, teardown, a
thread blocked for ever).

## 9. Proofs

All theorems hold for every value of the constants that the `ASSUME`s of the
modules and, where noted, of the theorem allow. Every invariant and every action
property of the passing runs is stated by one of them.

`CommandHandoff_proofs`
- `TypeCorrect`: `TypeOK` is inductive as it stands.
- `ModeRecords`: a worker about to take a mode record finds one. Inductive
  invariant: per camera, records = tasks + commands between their enqueues (subscriber,
  flow) + a task taken whose record is not. Needed because the property mentions only
  the worker, while what makes it true is the order in which both producers fill
  the two queues.
- `TicketsSpent`: no forgotten ticket. Inductive invariant: tickets of camera `c`
  <= tokens queued + mainCtl's pass still ahead of `c` + the token the
  subscriber still owes. The property is the case where the right side is 0.
- `RecordsArePaired` (`SerialSubmissionsPair`). `ModeRecords` only counts; this says which record
  is whose. Invariant `Paired(c)`: while no two submissions have overlapped, the
  records are those of the task in hand without a record, if there is one, then of the queued tasks in
  order, then of the submission that is half done.
- `SubmittersStrandNobody` (`OnlySuspendStrands`), an action property: for each step of the subscriber or
  mainCtl, either the worker was stranded before or its resume is still to come.
  Needs the invariant of `TicketsSpent`, for where mainCtl's pass over the cameras stands, and that the
  subscriber has a camera's command in hand while it queues a task or a ticket (`ForCamera`).

`InspectionFlow_proofs`
- `RunsArePaidFor`, `AnswersArePaidFor`, `WaitingIsUnwoken`, from one invariant
  `CycleInv(c)`: an accepted trigger pays for one run and one answer; in EXECUTE
  either the wake flag is set or the run is still owed; in EXECUTE and RESULT
  the answer is still owed. `IoAutoTest` may reset `giFlow` between two writes of a
  handler, so the invariant also has clauses about `mainPc`: the handler at `poll`,
  `verdict` or `restart` owes the answer whatever `giFlow` has become.
- `TriggersConserved` (`TriggerConservation`). Inductive per step of a handler; what it takes are
  lemmas on counting: a trigger appended, taken off the front, or put back at the end
  changes the count of one camera by one.
- `RunsInTheLight` (`LitWhileRunning`), `CyclesStartClean` (`CleanSlate`), `OwnRunEnds` (`DoneMeansOwnRunDone`), for
  both cameras, restarts and commanded runs included; the properties exempt a disturbed camera (section 3). Invariant
  `OwnInv(c)`: while `c` is not disturbed, the other camera has no run, and the cycle of `c` is at one
  of its stages (`Stage`), each with what is known of the light, the wake flag, the run and its message
  (`Idle`, `Pending`, `Ended`). A restart of camera 0 that cuts no cycle off may still fall into the handler after
  it took a trigger: `Stage` has that case. The other handler may reset the status at any
  time, so `Stage` says of it only that a run that is awaited has not been reported.
- `FlowTypeCorrect`.

`TriggerInputs_proofs`
- `AcceptedIsSteady` (`Debounced`). Invariant `SteadyInv`: while the current input is
  active and no event of it is unread, it has not changed since the clock was started, unless a pass was blind since; and a
pass that is not blind compares with armed edges, holds the input's level, and has no event of it unread after `Read`, which
is what the next look may rely on. The inputs are DI1 .. DI4, as the property says.
- `TriggersArePaidFor` (`OncePerPress`), assuming `WinLo > 0` and `WinHi < WinLo + 20`: publishing,
  10 ms at least, outlasts the window. Invariant `PressInv`: triggers raised never exceed the
  presses seen, and while an event is unread, or the clock has not passed the
  window, one press is not used yet. An edge that is about to be accepted while another event is unread must leave one for
  that event: then two are not used (`MayAccept`), which `Read` establishes because it missed a change (`MissesEvent`).
- `InputsTypeCorrect`.

`CameraStreaming_proofs`
- `ThreadUsesOpenHandle`, `ThreadsDoNotOverlap`, `StreamImplementsControl`, from
  `StreamInv`: unless a close returned early, a thread that lives is the only one and uses the open handle; it has been created and not
  been told to end, or else the worker is waiting for it; and it is gone when the
  worker opens the camera anew. Two theorems say no more than that: without the exemption they are
  false of the code (`StreamTwoThreads.cfg`). The last one is the refinement, and has no exemption: `Init` maps to `GrabControl`'s,
  and each command, step and callback to `Want`, `Look`, `Turn`, `Quit` or a stutter.

`CameraHandles_proofs`
- `LibraryComesBack`, assuming that no CAMERA_RELEASE is sent: inductive with types.
- `DriversHoldOneDevice`, for a finite set of devices. Invariant `OneEach`: two devices
  of one slot are one, and a slot without driver has none, which is the property without
  cardinalities.
- `DevicesStayOpen`, of each step by itself; `HandlesTypeCorrect`.

`DigitalOutputs_proofs`: `CommandsCarriedOut` (`LevelAsAsked`). Invariant `Once(o)`: the
output of an undisturbed command has the level asked for or, once turned over, its opposite; an
output that is about to be turned over, or has been, has no time left and no caller between
its two writes, so that it is turned over once.
- `PulsesLastAsAsked` (`PulseLength`). Invariant `Ageing(o)`: the clock of a running pulse is the command's age or one
  more, as the first pass may come between the level and the period; a pass that has
  looked at an output finds its clock below the period. That holds if `ioCtl` had restarted the clock
  before the period was set (`rested`); an output that is idle has a restarted clock (`Restarted`). Otherwise the
  clock of the pulse before is measured against the new period: the pulse ends in time, but too early
  (`CutShort.cfg`). It assumes that the periods have a
  greatest (`LongestAssumption`), which they do: they are `int`s.

`AutoRunRecorder_proofs`: `DoneMeansAllSteps` (`DoneRanRecording`). Invariant `ReplayInv`: during a replay
the steps that succeeded are exactly those before the one at hand, or up to it once
its method has returned, and the recording does not change. It holds
although the flags may change at any time, because a replay reads them
only for conversions and publishing.
- `ModesAreOwn` (`OwnMode`). Invariant `ModeInv`: while the inspection flow has not triggered,
  the parsed flag is that of the command the subscriber has at hand, between its
  parse and its enqueue; and every queued command carries the mode of its own message.
- `RecordingsAreOwn` (`RecordingIsOwn`). Invariant `RecordingInv`, with `ModeInv`: unless a step of the other worker
  mixed in, no other camera is in a session or at the flags, the flags are those of the camera's own
  session, and the recording is the session's messages (`FlagsOwn`); and whatever mixed in, recording is
  on only while some camera's last mode command asked for it (`FlagsFollow`), which is what the next session starts from.
- `TriggersReportedOnce` (`OneReportEach`, the safety part of `TriggerAnswered`). Invariant `ForTrigger(c)`: a worker is at a
  trigger's steps or in a replay exactly when the task it took is a trigger.
- `LoneReplaysMeasure` (`DoneMeansMeasured`). Invariant `MeasuredInv(c)`, with types: while only camera `c` has been
  used, a replay is enabled; the image is this replay's once it has captured one, the table's
  mark once it has matched, unless a match of it found none (`OwnMark`), and so are the argument and the result of the method at hand
  (`FreshAt`); and what is published is every capture and measurement among the steps done (`Told`).
  That the camera was alone before a step when it is after it needs the theorem above: another camera that
  has been triggered has a report (`AloneBefore`).

`SharedData_proofs`, about the four machines that follow values
- `UndisturbedCallsAreOwn`, assuming that the calibration is not among
  the functions (it always fails, and returns what an earlier call left). Arguments are good when a match finds its mark. Invariant
  `LibraryInv`: a call with good arguments that is still alone finds its own
  arguments in the tool after `SetParameter` and its own result after `TestIt` (`Holds`).
- `IoCommandsAreOwn` (`IoAloneIsOwn`), all IO commands. Invariant `IoInv`: what an undisturbed command brought is
  in the structures its performer and its answer read, at each of its three stations:
  with the callback, in the queue, in the io thread's hands.
- `CommandsReadTheirOwn` (`CommandOwnArguments`), for commands but `cropCircle`, whose method reads paths its converter
  does not put there; `LoneCommandsAreAnswered` (`CommandSerialAnswered`), also without `streamCapture`, whose text buffer is
  its result structure. Each is false for the commands it leaves out (section 10). Invariant
  `CommandInv`: a queued task carries a copy of its own arguments (`Carries`); while a command is
  the only one of its kind (`Lonely`), text and result are its own; of a match that found no mark the status
  alone (`Kept`).
- `ReplaysAloneAreOwn` (`ReplayAloneIsOwn`). Invariant `GivenIsOwn(c)`: for each slot of the table that a later step reads and an
  earlier step of the recipe has filled, and for the image once captured, the value is of this run; but for the slot of the
  mark once a match of the run has found none (`OldMark`).
  The recipe is the one of `MCSharedData`; all that is used of it is that a value is
  made before it is used (lemma `RecipesOrdered`).

The rows of a table (32 commands, 25 IO commands) are expanded once each, in
lemmas of one case per row; the inductive steps use only what those say.

Only model-checked: liveness (`ResumeHonoured`, `TeardownJoins`, `TriggerAccepted`, `RunAnswered`,
`GrabsInTheEnd`, `PulsesEnd`, `ComesBack`, and that a trigger comes to an end in `TriggerAnswered`), which
needs fairness and `ENABLED` and is beyond this prover. No module declares a `RECURSIVE`
operator.

## 10. Disagreements met

What the code does and what its comments say differ here. `LostWakeup` is in the list of runs;
the others are kept as configurations (**.cfg**), or are shown by putting the property into the
configuration of the run named. Each is a few steps long, and the properties are
defined in the modules, next to the comment they quote.

| shown by | property | what happens |
|---|---|---|
| run `LostWakeup` | `QueuedTaskTaken` | A worker's own suspend erases the resume of a task just queued (`mainCtl.c:2340`, `2747`), while `resume_ip_Dual` says "tell the thread to resume". |
| **SharedStatus.cfg** | `StatusMeansDone` | Camera A goes on to its result on camera B's run: one `mp_FlowStatus` (`mainCtl.c:1325`). |
| **BrokenRecipe.cfg** | `FailIndicated` | A failing step posts -1, which also means not finished: the cycle waits for ever (`mainCtl.c:2062`). |
| **OldTriggers.cfg** | `StartDrains` | The loop that should drain old triggers runs zero times (`mainCtl.c:1251`). |
| **PingPong.cfg** | `ReadyAccepts` | Two waiting cameras can bounce each other's triggers for ever (`mainCtl.c:1290`). |
| **RecorderCaptures.cfg** | `CapturesAnnounced` | The other camera's failing trigger clears the shared activation flag; the replay goes on and sends no capture (`mainCtl.c:2078`). |
| **RecorderQuotes.cfg** | `QuotesOwnTrigger` | A measurement quotes the text, and so the msgId, of a later trigger (`IPS_CompAlgorithm.c:7946`). |
| `TriggerInputs` | `EdgeOfItsPin` | The polarity asked for input 1 is given to input 2 (`iosCtl.c:372`). |
| **LostPress.cfg** | `PressTriggers` | A pass lasts longer than the window of 1 ms, so a held press can be missed (`iosCtl.c:2279`). |
| **StaleEdge.cfg** | `AcceptedWasSteady` | An edge or a level that changes between two looks of a pass: an input is accepted by the clock of an older edge, although "Debunce" is what the clock is for (`iosCtl.c:1922`, `1939`, `2160`, `2284`). |
| `Outputs` | `LatchHolds` | A latch set between the clearing of an output's time and its turning over is turned over (`iosCtl.c:1569`). |
| **CutShort.cfg** | `OneShotLasts` | A period set in the pass after a pulse's end, before the clock is restarted, is measured by the old clock: the pulse is over in less than 1 ms (`iosCtl.c:1569`, `1576`). |
| `Outputs` | `FlowHolds` | The AutoDone output gets a period nobody set, and goes off (`iosCtl.c:1157`). |
| `Outputs` | `OffIsOff` | With outMode High, an output switched off goes on (`iosCtl.c:682`). |
| **StreamTriggerStop.cfg** | `StopStops` | A stop between the thread's test of the trigger flag and its wait is lost (`Method_HikGigECamCtrl.cpp:2597`). |
| **StreamCloseHangs.cfg** | `CloseReturns` | The release waits for a signal that was sent before it waited (line 2500). |
| `StreamLife` | `CloseAlwaysReturns` | The same where there was no thread (line 2499). |
| **StreamTwoThreads.cfg** | `OnlyOneThread` | "only one thread can be launched here" (line 2339): a wait for the end that returns without a signal is taken for the end; a second thread is started while the first lives (line 2500). |
| **StreamTakesFrame.cfg** | `CaptureAlone` | 50 ms after "Stop now" the thread may still take frames from the handle (line 393). |
| `StreamLife` | `CaptureHasImage` | A capture from an empty ring is answered as a success (line 2451). |
| **StreamOtherImage.cfg** | `CaptureIsOwn` | One ring for both cameras: a capture returns the other one's image (line 13). |
| `StreamLife` | `NoneLeftBehind` | The release of a camera leaves its thread with a destroyed handle (line 431). |
| **HandlesInitialize.cfg** | `InitializeInitiates` | CAMERA_INITIALIZE does nothing when the library is gone, which is when it would be needed (`IPS_CompAlgorithm.c:888`). |
| `HandlesLive` | `ReleaseReleases` | CAMERA_RELEASE releases the single slot, not the camera it was sent to (`IPS_CompAlgorithm.c:1256`). |
| **HandlesReplay.cfg** | `ComesBack` | A camera lost in a replay is not opened again, however often the recipe is replayed (`mainCtl.c:2033`). |
| `HandlesDual` | `LibraryThere` | A camera's recovery deletes the library's object while the other worker runs a method with it (`mainCtl.c:2285`). |
| **StaleMark.cfg** | `SuccessIsOwn` | A match without a mark in its image succeeds with the mark of an earlier call, moved to its own search region (`Method_Alignment.cpp:619`). |
| `SharedData` | `SuccessIsOwn` | A measurement succeeds with the other camera's region or result; the circle search with the arguments of the call before; the calibration always fails and says 0 (`Measure_GlueWidth_ConcreteClass.cpp:2820`, `544`; `Method_Alignment.cpp:38`). The last needs `calibration` among the methods. |
| `SharedData` | `Algo!OwnArguments` | The circle crop reads its paths from where the converter does not put them (`IPS_CompAlgorithm.c:2527`). Needs `cropCircle` among the commands. |
| `SharedData` | `Algo!AnswerQuotes` | The streaming capture writes its result over the text it quotes (`IPS_CompAlgorithm.c:7727`); every other command quotes the last message of its kind. |
| `SharedData` | `Algo!AnswerStatus` | A refused pattern match is answered with the status of the one before (`IPS_CompAlgorithm.c:1824`). |
| `SharedData` | `Algo!AnswerValues` | Both cameras' results go through one structure per command (`mainCtl.c:2260`). |
| `SharedData` | `Replay!OwnRun` | A replay converts the other camera's result (`mainCtl.c:2027`); a rectangle recipe never gets its own box (`IPS_CompAlgorithm.c:6787`). |
| `SharedData` | `Ios!PerformedAsAsked`, `Ios!AnswerQuotes`, `Ios!NotOlder` | A queued IO command is performed and answered with a later message's values (`mainCtl.c:2424`, `2670`), or with those of an earlier LED_SET_MODE (`mainCtl.c:2471`). |

The properties of an instanced machine are checked by a one-line definition in
`MCSharedData`, as those of the run are.

## 11. Not modelled

- **Modbus TCP and RTU** (`iosCtl.c`): register maps and sockets. The trigger they raise is
  `Raise` of `InspectionFlow`. **Watchdog** (`wdtCtl`): its thread is not created (line 2628). A SIGMCU
  handler raises triggers too, from whatever thread it interrupts; that it would wait for a
  lock this thread holds is not modelled. **Status LEDs**, **light
  PWM**, **GPIO**, **I2C**: output only, nothing reads their state back.
- **Image algorithms** (`cvip.cpp`, most of the `Method_` files and of
  `Measure_GlueWidth_ConcreteClass.cpp`, about 9 000 lines):
  numerical code over images. `MeasureLibrary` takes a result as a value with an
  origin.
- **MQTT connection and publishing**: libmosquitto's own thread. That a failing publish
  calls `exit` is in the hazards.
- **backend/** (about 13 000 lines): test backends of the earlier single-camera system,
  programs of their own. **i2c-tools**: third party. **utils/**: Python scripts for training
  and reporting.

The modelled lines are therefore a small share of all lines, and cannot be a
large one: algorithms, backends, drivers of hardware the product does not use and
third-party tools are half of the code, and most of the rest is parsing and formatting of JSON, one
function per command, which `AlgorithmCommands` and `IosResponder` have as one row each.

## 12. Plan

Done: all components with state of their own that another thread changes; a theorem for
each safety property the runs check; one refinement. Next:

1. Abstract specifications: a FIFO work service per worker that `CommandHandoff` implements up
   to the lost wake-up, and a per-camera cycle that `InspectionFlow` implements when
   one camera is armed; both as refinement theorems.
2. Theorems: the exclusions of `SharedData_proofs` made exact, command by command, instead of left
   out of the set; `ReplaysAloneAreOwn` for any ordered recipe.
3. Compositions: `AutoRunRecorder` with `CameraHandles`, a replay whose camera fails and what its
   recording does after that; `TriggerInputs` feeding `InspectionFlow`.
