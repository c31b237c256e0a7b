# A verification model of jcl2.0

jcl2.0 is a small C++ driver for Nintendo Joy-Con and Pro controllers: a main
program finds the controllers, one thread per controller talks to it over
Bluetooth HID through the vendored hidapi, and a class `JoyCon` offers queue
functions that other threads call.  This directory holds TLA+ modules that
model it, TLC configurations that check them and TLAPS proofs.

Contents: inventory, how the parts interact, the modules and how they correspond
to the code, the runs with their bounds and fairness, the proofs, the findings,
what is abstracted or left out, and the plan.

## Inventory

| component | state it keeps | operations | interacts with | what makes it correct |
|---|---|---|---|---|
| the object `JoyCon` and its thread (`Joycon.cpp`, `Joycon.h`) | `fq`, `do_kill`, `datamtx`, `cmdmtx`, `jcloop`, the HID handle, `batteryLevel` | constructor, `jcLoop`, `ToggleParameter`, `SetIMUSensitivity`, `GetBatteryLevel`, `Cleanup` | callers on other threads (queue, condition variables on their stacks), the main thread (`Cleanup`), the controller | commands run at most once, in order, not after the shutdown; a call that returns "notified" has been served; no closure outlives its caller unnoticed; every call and `Cleanup` return |
| the subcommand exchange (`helpers.h`, `comm` to `finish`) | `buf`, `data`, what the controller has been told | `comm`, `read_spi`, `get_stick_cal`, `get_imu_cal`, `setup_joycon`, `finish`, the bodies of the queued closures | the controller over the HID link, replies mixed with input reports | a reply is taken for the request it answers; calibration comes from the right flash block; host and controller agree on settings; the controller is left quiet |
| the registry and main loop (`run.cpp`) | three vectors of objects, `signal_caught`, `done` | `enumerateJoycons`, `FirstJoycon`, `on_sigint`, `closeEvent`, `main` | hidapi's enumeration, every `JoyCon` | every controller is registered, none twice, with distinct numbers; ctrl-c cleans up each one once and ends the program; lists are freed |
| report processing (`process`, `process_imu`, `update_imu_cal_multipliers`) | `buttons`, `rbuttons`, `dbuttons`, `stick`, `last_timestamp`, `acc_g`, `gyr_dps` | one call per input report | read by the main thread without a lock | press and release edges alternate; time steps are right across the wrap of the 8-bit timer; sticks stay in range; what is printed is one frame |
| hidapi on macOS (`libs/hidapi/mac/hid.c`) | report list, `disconnected`, `shutdown_thread`, `source`, `run_loop`, two barriers, a mutex, a condition variable | `read_thread`, report and removal callbacks, `hid_open_path`, `hid_read_timeout`, `hid_write`, `hid_close` | the `JoyCon` thread, the operating system's run loop | reports are delivered in order, the oldest dropped at the limit; a reader is woken by the removal; close ends the read thread before it frees its memory |
| hidapi on Windows (`libs/hidapi/windows/hid.c`) | `read_pending`, `read_buf`, an overlapped read, the system's ring of reports | `hid_open_path`, `hid_read_timeout`, `hid_write`, `hid_close` | the `JoyCon` thread, the system's I/O | a read that outlives its timeout is completed later, never issued twice, and loses no report |
| hidapi on Linux (`libs/hidapi/linux/hid.c`) | a file of hidraw, the kernel's ring of reports | the same, `uses_numbered_reports` | the kernel | what `poll()` saw is still true for `read()`, or fails cleanly |
| hidapi on libusb (`libs/hidapi/libusb/hid.c`) | report list, `shutdown_thread`, `cancelled`, one transfer, a mutex, a condition variable, a barrier | the same, `read_thread`, `read_callback`, `get_usage` | libusb's event handling | as on macOS; close waits for the cancellation of the transfer |
| enumeration (in each `hid.c`) | a linked list of device descriptions | `hid_enumerate`, `hid_open`, `hid_free_enumeration` | the system's list of devices | the list names the devices asked for, in order; the first that fits is opened; the list is freed |
| `dcm.h`, `getip.cpp`, `grabmac.h` | | | | a floating-point filter; unused code |

### How the parts interact

`main()` enumerates, sleeps half a second, looks at the flag `signal_caught`
that the signal handler sets, prints values and starts again.
`enumerateJoycons()` opens a device and constructs a `JoyCon`, whose constructor
starts the thread `jcLoop()`.  That thread is the only one that reads and writes
the device.  It sets the controller up, then repeats: read a report (a read with
no time limit), process it, look at `do_kill` under `datamtx`, and run every
closure of `fq` under `cmdmtx`.  A queue function appends a closure to `fq` and
waits at most 100 ms on a condition variable that is a local variable of its own
frame; the closure refers to it and notifies it.  `Cleanup()` sets `do_kill`
under `datamtx` and joins the thread.

The Makefile links one `hid.c`, that of the system; the four promise the same to
a reader, and `ReportChannel` says what.  On macOS and libusb a read thread of
hidapi's own puts reports into a list from which `hid_read_timeout()` takes
them; on Windows and Linux the system keeps them.

### Hard behaviours

- Two mutexes, one of which the thread leaves locked when it ends.
- Condition variables without predicates, on the stack, captured by reference.
- Timeouts that race with late answers: the 100 ms of a caller, the 200 ms of a
  read inside `comm()`.
- One receive buffer that is never cleared, and replies that name their
  subcommand but not the request.
- Reads without a time limit next to a shutdown flag.
- Controllers that connect and disconnect at any moment, in lists of any order.
- A barrier written without a loop around its wait; callbacks and a removal that
  race with a reader about to sleep and with `hid_close()`.
- An overlapped read that is left running by a timeout; a transfer that
  resubmits itself while another thread cancels it.
- A main thread that prints what the worker is writing.

`PROJECT.json` lists the hazards line by line with the properties about them.

## Modules

| module | models | about |
|---|---|---|
| `CommandQueue` | the promise of the queue functions | abstract specification: submitted commands are performed at most once, in order, not after the shutdown |
| `JoyconLoop` | `Joycon.cpp` | one object: worker, callers, `Cleanup()` |
| `JoyconLoopProofs` | | the proofs about it |
| `SubcommandExchange` | `helpers.h`, lines 8-229 | the exchanges of one worker with its controller |
| `SubcommandExchangeProofs` | | the proofs about the calibration, the settings and a prompt controller |
| `ControllerRegistry` | `run.cpp` | main loop, enumeration, ctrl-c |
| `ControllerRegistryProofs` | | the proofs about the devices, their numbers and their clean-up |
| `ReportProcessing` | `helpers.h`, lines 231-355, and the printing of `main()` | the worker with reports, main printing |
| `ReportProcessingProofs` | | the proofs about it |
| `ReportChannel` | what hidapi promises a reader | abstract specification: a lossy channel that gives out reports in order |
| `MacHid` | `mac/hid.c` | one open device on macOS |
| `MacHidProofs` | | the proofs about it |
| `WinHid`, `LinuxHid`, `LibusbHid` | `windows/hid.c`, `linux/hid.c`, `libusb/hid.c` | one open device each |
| `HidEnumeration` | all four `hid.c` | `hid_open()`: enumerate, search, open, free |
| `HidEnumerationProofs` | | the proofs about the list and the search |
| `HidBackends` | | composes `HidEnumeration` with the open device of the part that is linked |
| `HidBackendsProofs` | | the proofs about the composition and the refinement of `ReportChannel` |
| `HidDescriptor` | `linux/hid.c`, `libusb/hid.c` | the two parsers of report descriptors, as functions, with a reference definition |
| `HidDescriptorProofs` | | the proofs that they agree with it; induction and recursion in general |
| `MC...` | | the instances for TLC |

Operators named "Mutant: ..." in a comment are faulty variants of the definition
that follows them.  No specification uses them; putting one in the place of its
original breaks the property `PROJECT.json` pairs it with, which shows that the
property depends on that line of the code.

### JoyconLoop

`wpc` is the worker's place in `jcLoop()`; each of the two mutexes is a variable
that names its holder; `fq` is the deque, its head the closure being run.  An
element of `Calls` is one invocation of a queue function, and `FrameOf` gives
the stack address of its `consume`.  Two calls made one after the other may
share an address, which is what makes a late notification reach the wrong call.
`cpc[c]` is where the call is.  `StartWait` is separate from `PushBack`, because
`cmdmtx` is released first: the notification can be lost in between.
`NotifyAndPop` wakes whoever waits at the address, if anybody does.

`LockData`/`Process`, `LockKill`/`CheckKill` and `LockCmd`/.../`UnlockCmd` are
the three critical sections.  `CheckKill` keeps `datamtx` when it finds
`do_kill`, like the `break` at `Joycon.cpp:29`.  A whole exchange (`comm()`) is
the one step `Comm` here; `SubcommandExchange` opens it up.  `ReadReport` and
`ReadFails` are the read without a time limit: it ends with a report or with the
loss of the link, and with neither while a connected controller is silent.

The refinement to `CommandQueue` maps `pending` to `fq`, `performed` to the
history `executed`, and `open` to the worker's being before `finish()`.

### SubcommandExchange

`step` is the exchange being made (one name per call of `subcomm()` in the
set-up and in `finish()`, "command" for a queued one), `phase` the place in
`comm()`, `attempts` and `tries` the counters of the two loops.  `head` and
`reply` stand for the buffer: byte 0, and bytes 13 on.  `toCtl` and `toHost` are
the two directions of the link.  `Accepts` is the three tests of `comm()`,
`Echoed` the address test of `read_spi()`.  `ReadTimesOut` runs an attempt on
what the buffer holds, since the result of the read is ignored.  A simple input
report (0x3f) is too short to overwrite the reply, a full one (0x30) does.

The controller is external: it handles requests in order after any delay,
answers each one, may refuse it (a negative acknowledgement), and may send input
reports of the kind of its mode.

`last` in requests and replies is history: does it belong to the request sent
last?  `gaveUp`, `late`, `refused` and `unheard` are history too.

### ControllerRegistry

`pass`, `cursor`, `i`, `allct` are the state of `enumerateJoycons()`, `joycons`
the three vectors, `nodes` the list nodes that are allocated.  `HidEnumerate`
chooses any order of the connected controllers.  `Skip` is the `continue` that
does not increment `i`.  `OpenFails` is the NULL handle that
`hid_set_nonblocking()` writes through, after which the program is "crashed".
`FreeEnumeration` frees from the pointer that walked the list, which is its end.
`Cleanup` of one object is one step, which the fairness of the main thread leaves
out: it may never come, since a controller that is connected and silent keeps
`Cleanup()` waiting (finding 1).  When it does return is what `JoyconLoop` is
about.

### ReportProcessing

`wpc` is the worker's place: it reads a report, `process()` finds the edges and
scales the stick, `process_imu()` computes its time step and then writes three
axes of three frames, each axis a step of its own (`Axis`).  `main()` reads the
three axes in any order (`ReadAxis`), since the compiler chooses it, and prints
them (`PrintSample`).  A value of `acc_g` is represented by the number of the
frame it comes from.  `elapsed`, `shown` and `torn` are history: the ticks since
the last report with sensor data, the buttons that are down by what has been
printed, and whether a write came between two reads of one sample.
`last_timestamp` has no initialiser and begins as anything.

### MacHid

`pc["user"]` is the user's thread in `hid_open_path()`, `hid_read_timeout()`,
`hid_write()` or `hid_close()`, `pc["thread"]` the read thread.  `BarrierWait` is
`pthread_barrier_wait()` of this file: it waits once, without a loop, so
`BarrierSpurious` lets a thread through early and leaves the count as it was;
the history `early` remembers for which barrier that happened.  The run loop is
external: it services callbacks, sleeps, is woken, stopped, or times out after a
thousand seconds.  A reader holds `mutex` only between its test of the list and
its sleep; all other critical sections are single steps.

### WinHid, LinuxHid, LibusbHid

`WinHid`: `io` is the state of the overlapped read and `read_buf` the report it
has put there; `read_pending` tells the next call that it runs.  `LinuxHid`: a
read that may not block is the two steps `poll()` and `read()`.  `LibusbHid`:
`transfer` is the one transfer, from its submission to its callback;
`shutdown_thread` and `cancelled` are the flags; `missed` is history: the read
thread waits for a cancellation that will not come.

### HidEnumeration, HidBackends, HidDescriptor

A device the system reports has an identity, a serial number or none, and a
condition that says how the loop of `hid_enumerate()` treats it: a device that
cannot be opened, one without a node, one on another bus, one whose parent is
missing, one with two matching altsettings.  The list is a function `next` over
allocated nodes, so that freeing and leaking are visible.  `HidBackends` lets
one part be linked, runs `hid_open()` and then the device that was opened.
`HidDescriptor` holds no state: `MCHidBackends` assumes, and TLC evaluates, that
`uses_numbered_reports()` and `get_usage()` agree with a reference that knows
where the items begin, over all descriptors of up to three items of every
length, and over all their truncated prefixes; `HidDescriptorProofs` proves it
for all descriptors that consist of items.  `from` is the loop of each parser;
in `get_usage()` its argument (`Known`) is the position with what has been found
so far.

## Runs

| run | checks | result |
|---|---|---|
| `joycon_loop` | `TypeOK`, `NotifiedMeansExecuted`, `DanglingOnlyAfterGivingUp`, `BatteryNotFromEarlierCommand`, `KillHeededWithinOneRound`, `LeakedLockOnlyAfterKill`, `ImplementsQueue` | hold, 175,889 states |
| `joycon_loop_progress` | `CallsReturn`, `CommandsPerformed`, `CleanupReturnsIfSending` | hold, 31,343 states |
| `joycon_loop_ctrl_c` | `CleanupReturns` | violated (finding 1) |
| `subcommand_setup` | `TypeOK`, `CalibrationRight`, `PromptControllerIsHeard`, `SetupEnds` | hold, 2,115,524 states |
| `subcommand_commands` | `ScaleAgrees`, `QuietAtTheEnd` | hold, 1,927,544 states |
| `subcommand_own_reply` | `AcceptedIsOwn` | violated (finding 2) |
| `registry` | `TypeOK`, `NoDeviceTwice`, `NumbersUnique`, `CleanedUpOnce`, `CtrlCEnds`, `FirstIsRegistered` | hold, 59,840 states |
| `registry_second` | `EveryOneIsRegistered` | violated (finding 3) |
| `registry_freed` | `EnumerationFreed` | violated (finding 4) |
| `mac_hid` | `TypeOK`, `NoNullRunLoop`, `NoFalseAlarm`, `ImplementsChannel`, `WakesLiveThread`, `BlockedReadEnds`, `CloseReturns` | hold, 96,957 states |
| `hid_backends` | `TypeOK`, `ListRight`, `OpensFirstFit`, `AllFreed`, `ImplementsChannel`, `BlockedReadEnds`, `CloseReturns` | hold, 172,491 states |
| `report_processing` | `TypeOK`, `StepIsElapsed`, `TornOnlyDuringReport`, `EdgesAlternate` | hold, 4,776,456 states |

### Bounds

- `joycon_loop`: three calls, two of them at one stack address and both for the
  battery level, the third a sensitivity change.  Three is the least number with
  a call that gives up, a call that reuses its address, and a third party
  between them in the queue.  No spurious wakeups here: they excuse a false
  "notified", and so would hide the other causes.
- `joycon_loop_progress`: two calls on two stacks, with spurious wakeups; two
  suffice for contention on `cmdmtx` and for a queue of more than one.
- `subcommand_setup`: two attempts per `comm()` (eight in the code), two tries per
  `read_spi()` (ten in the code), one input report.  Two are the least with a
  first one that fails and a second one that decides, for the loop of `comm()` and
  for that of `read_spi()` around it, in each of the six flash reads: a reply may
  come in the try that asked for it, in the next one, or in the read of another
  block.  The theorem `CalibrationSound` covers every number of both.  `MaxBehind`
  (how many requests the controller may have left unhandled when a read times out)
  is 20, as many as this run can send (six flash reads tried twice and eight
  others), and therefore no bound: the controller may stay silent for ever.
- `subcommand_commands` begins at the last flash read of a set-up that has gone
  well, a state `Spec` reaches when every request is answered at once.  Two
  commands out of all seven, two input reports, two tries, refusals, and a
  controller at most one request behind when a read times out (`MaxBehind` 1),
  so that one stale reply at a time can be on its way, again and again.
- `registry`: two right Joy-Cons, a left one, a Pro controller, connected
  or not at the start.  Two of a type are what lists of several entries need,
  three types what the three passes need.  The violated runs of the registry do
  with three controllers.

- `mac_hid`: a list limit of 1, so that three reports fill it (the code keeps
  two more than its limit, 32 where a comment says 30), and four reports, so that
  one is dropped.  The theorems cover every limit.  Condition variables may wake
  for no reason.  The user opens and closes once and calls in between whatever
  it likes.
- `hid_backends`: a limit of 0 for libusb (two reports fill it) and a ring of 2
  for Windows and Linux, with three reports, for the same reason.  Up to three
  devices: each condition alone, before, between and after others, which is what
  a loop over a list with a pointer to the previous node can tell apart.  The
  theorems cover every limit, every number of reports and every list of devices.
- `report_processing`: three reports with sensor data, a timer that wraps at 6
  and advances by 3, so that it wraps every second report and `last_timestamp`
  passes the wrap; reports in between are read and lost.  One button and two
  positions of the stick, on either side of the center, with an ordinary
  calibration and one of zeros.  The theorems cover every wrap and every step.

No run disables the deadlock check: a program that has ended is an explicit
stuttering step (`Terminating`, `Closed`), and in the registry controllers can
still be plugged in.

### Fairness

- `JoyconLoop!Fairness`: a thread that can take a step does (weak fairness); a
  thread that keeps asking for a mutex that is released again and again gets it
  (strong fairness on the acquisitions).  That is an assumption, and the code
  relies on it: the standard does not promise it of `std::mutex`.  While the link
  holds the worker sleeps in a read between two acquisitions, which leaves the
  mutex to the others; once the link is gone its reads fail at once, it takes and
  releases the mutexes in a tight loop, and only the scheduler lets a caller or
  `Cleanup()` in.  Timed waits end.  No fairness for
  the beginning of a call, ctrl-c, a report or the loss of the link.
- `KeepsSending` (weak fairness of `ReadReport`) is an assumption of two
  properties, never of a specification: the controller, set to mode 0x30, sends
  reports all the time.  Dropping it is finding 1.
- `SubcommandExchange!FairSpec`: the worker runs and its timed reads end.  The
  controller owes nothing.
- `ControllerRegistry!FairSpec`: the main thread runs, except for the return of
  `Cleanup()`, which nothing in `run.cpp` ensures (`MainProgress` is its other
  steps).
- `CleanupsReturn` (weak fairness of `Cleanup`) is the hypothesis of `CtrlCEnds`
  and of nothing else.  `CleanupReturnsIfSending` is the reason to expect it of
  controllers that keep sending or are gone, finding 1 the case in which it fails.
- `MacHid!Fairness`: both threads run (weak fairness); a thread that wants the
  mutex gets it in the end (strong fairness of `Woken`, `TimedOut` and
  `Broadcast`), because every holder lets it go within a few statements or by
  sleeping; and a run loop that is entered again and again dispatches the
  removal (strong fairness of `RemovalCallback`), which the operating system
  promises.  No fairness for the beginning of a call, a report, the removal
  itself, a timeout of the run loop or a spurious wakeup.
- `HidBackends!Fairness`: likewise; `poll()`, `read()` and timed waits end when
  there is something to end them.
- `ReportProcessing` has safety properties only and assumes no fairness.

### Properties and the questions they answer

- `NotifiedMeansExecuted`, `DanglingOnlyAfterGivingUp`,
  `BatteryNotFromEarlierCommand`: what a caller may conclude when `wait_for()`
  ends without a timeout, and exactly which histories break it: a spurious
  wakeup, or an earlier call at the same address that gave up.
- `KillHeededWithinOneRound`, `LeakedLockOnlyAfterKill`: the shutdown flag is
  heeded within a round, and the mutex leaked by the `break` is never one that a
  thread still needs.  `CleanedUpOnce` is the other half: nobody calls
  `Cleanup()` twice.
- `CalibrationRight`, `PromptControllerIsHeard`: stale and late replies versus
  the tests of `comm()` and `read_spi()`.
- `SetupEnds`: the reads of an exchange, inside the tries of a flash read, inside
  the order of the set-up: whatever comes late, again or never, the worker gets to
  its loop.
- `ScaleAgrees`, `QuietAtTheEnd`: results that are ignored do no harm as long as
  nothing is refused and the link holds.
- `NoDeviceTwice`, `NumbersUnique`: the counter that does not advance with the
  list is enough to keep a device from being opened twice.
- `CtrlCEnds`: no place of the main loop loses a ctrl-c, and a second one during
  the clean-up does no harm, provided that every `Cleanup()` returns.

- `ImplementsChannel` (macOS, and again on Windows, Linux and libusb): whichever
  `hid.c` is linked, reports come out in order, each once, and none is lost
  while there is room, in every interleaving of callbacks, timeouts, removal and
  close.  It rules out a read that is issued twice, a report that a timed-out
  read swallows, and a list that loses its newest.
- `BlockedReadEnds`, `CloseReturns`: no wakeup is lost between the test and the
  sleep, and `hid_close()` ends whatever the read thread is doing.  On libusb
  both except a history, `missed`: the two cases in which the code never ends,
  listed below the findings.
- `NoNullRunLoop`, `WakesLiveThread`: the two barriers do their work in every
  interleaving, unless one of them wakes spuriously.
- `NoFalseAlarm`: a thousand quiet seconds or a spurious wakeup never make a
  read fail.
- `ListRight`, `OpensFirstFit`, `AllFreed`: entries that are skipped, filled in
  late or taken off again leave the list linked, and nothing is leaked.
- `EdgesAlternate`, `StepIsElapsed`, `TornOnlyDuringReport`: what is printed and
  computed from reports, across loss, wrap and an unlocked reader.

## Proofs

All are checked by TLAPS for every value of the constants that satisfies the
named assumptions (`CallsAssumption`, `ExchangeAssumption`,
`RegistryAssumption`, `MacHidAssumption`, `EnumerationAssumption`,
`BackendsAssumption`, `ProcessingAssumption`).

- `JoyconLoopProofs`.  The invariant `IInv` adds to the type invariant: frames
  in use are distinct (`FramesExclusive`); a closure is queued or has run, not
  both, and once only (`QueuedOnce`); an outcome exists only after the wait
  (`OutcomeAfterWait`); while the worker runs a closure the queue is not empty
  (`HeadWhileRunning`); the order of shutdown steps on both sides and who holds
  `datamtx` meanwhile (`KillOrder`).  `NotifiedMeansExecuted` and
  `LeakedLockOnlyAfterKill` are not inductive without them: that the woken call
  is the one whose closure runs needs exclusive frames, and that a leaked lock
  harms nobody needs the order of `SetKill` and `CheckKill`.  From it follow
  `TypeCorrect`, `NotifiedSound`, `DanglingSound`, `KillSound` and the
  refinement `QueueRefinement`: initial states map to initial states and every
  step to a step of `CommandQueue` or to a stutter.  `BatterySound` needs the
  places of the closures as well (`LevelInv`): a push adds one place and a pop
  moves none (`PushOrder`, `PopOrder`), `batteryLevel` is that of a command at or
  after every battery command that has run (`LevelFollows`), and a notified call
  reads it after its own has run.
- `SubcommandExchangeProofs`.  `CalibrationSound`: the invariant `CalInv` says,
  for each place of the set-up, which parts of the calibration have been taken
  and from where, and that the factory block is read only when the user block is
  empty or was given up on.  The lemma `EchoedBlock` is the heart: an echoed
  address in the buffer, however old the reply, is the block asked for.
  `ScaleSound` and `QuietSound`: `SettingsInv` says of each setting what it will
  be once the controller has handled all that is on its way (`WillBe`: the last
  request for it in `toCtl`, or its value if there is none).  Sending sets that
  to what is asked for (`SendWillBe`), obeying leaves it (`ObeyWillBe`), and no
  other step touches it; so it is always what the host has asked for last.
  `PromptSound`: as long as no read has timed out, only input reports are on
  their way between two `comm()`, and within one either the request is the only
  one on its way (`Asked`) or its reply is the only one among input reports
  (`AnswerComing`); attempts made and reports waiting together never exceed the
  input reports ever sent, plus the reply, which leaves an attempt for it.
  `TypeCorrect`: the bounds of attempts and tries, and that every request names a
  setting with a value of its own (`RequestArguments`).
- `ControllerRegistryProofs`.  `NeverTwice`: the strengthening `ListFresh` says
  that what remains of the list either is all skipped or holds no repetition and
  no registered device.  `NumbersSound`: `allct` is the number of all objects
  while lists are walked, so the next number is new (`Numbered`).
  `CleanUpSound`: `on_sigint()` runs once, and what it has cleaned up and what it
  has still to clean up are all objects in their order (`Cleaned`); devices of
  different types differ (`Typed`).  Both rest on where the objects of one vector
  are among those of all three (`Concatenation`).
- `MacHidProofs`.  The invariant `IInv` describes each barrier by its count and
  the places of the two threads around it (`StartBarrier`, `ShutdownBarrier`:
  before it, at it with one waiting, past it), what the read thread has created
  by where it is (`Created`), when it exists (`ThreadLives`), and each thing on
  the way from a cause to a flag (`Alarm`: the signal, the stopped run loop, the
  flag).  The lemma `OrdinaryOrNot` sorts the steps into those of the barriers,
  the opening, and the others, so that each part is proved once for all of the
  others.  From it follow `NoNullRunLoopHolds`, `WakesLiveThreadHolds`,
  `NoFalseAlarmHolds`, `TypeCorrect`, and the refinement `ChannelImplemented`,
  for every limit of the list and every number of reports.
- `HidEnumerationProofs`.  The invariant `EInv` says that there is a sequence of
  nodes, all that are allocated, which the pointers link from the root on
  (`Linked`), and what it holds at each stage (`Stage`): the names of all devices
  looked at so far (`Growing`), all but the copies of the newest that are still to
  come (`Filling`), no node in front of the search that fits (`Searching`), the
  first that fits as the one to be opened (`Found`).  There is a lemma for each way
  to change the list: attach at the end, take the last one off, free the first.
  `FreshIsFree` counts the nodes: an address for the next one exists.  The walk
  along the list and the list of the names that should be in it are recursive;
  what they yield is proved by induction (`ReachedAll`, `UptoStep`).
- `HidBackendsProofs`.  `DInv` adds to the types of the three open devices what
  their code relies on without a test: on Windows `read_buf` holds a report just
  when the read has finished (`WindowsTypes`), no read runs that `read_pending`
  does not tell of, and the ring is empty while one runs (`ReadInOrder`); on
  libusb the thread exists only with an open device, and a report on its way to
  the list is not yet counted (`ThreadInOrder`); the parts that are not linked
  stay as they were (`NotLinked`).  With `EInv` it is inductive for the
  composition, and `TypeCorrect`, `ListSound`, `OpensFirstFitHolds` and
  `AllFreedHolds` follow.  `ChannelImplemented` is the refinement: every step of
  every part is a step of `ReportChannel` or a stutter (`WindowsChannel`,
  `LinuxChannel`, `LibusbChannel`).  What the reader can still get (`Readable`)
  includes the report of a finished overlapped read, so a report that arrives at
  a full buffer drops the first, the second or the last of it, and a removal
  keeps all of it or less: those are the cases of the proof.
- `HidDescriptorProofs`.  `Layout` says where the bytes of item k are in a
  descriptor: behind those of the items before it (`Start`).  At the start of an
  item the parser moves to the start of the next one, or beyond the end of a
  descriptor that is cut off (`NextIs`, `NextWhole`).  `NumberedSound` is an
  induction from the last item back, `UsageSound` one from the first item on,
  with the invariant that the parser has the last usage page and the last usage
  so far, as long as one of them is missing (`UsageUntil`).  That the two loops
  are functions at all is `Recursion`: they come closer to the end with every
  item.  The only hypothesis is that an item is as long as its key says
  (`Items`).
- `ReportProcessingProofs`.  `EdgesAlternateAlways` from the invariant that what
  is shown is what is held down; `TornOnlyDuringReportHolds` from `FramesOK`
  (`acc_g` is the last frame of a report outside of `process_imu()`, and becomes
  so again axis by axis) and `SampleOK` (an untorn sample is still what `acc_g`
  holds); `StepIsElapsedHolds` from `TimerOK`, which relates the timer to
  `last_timestamp` by at most two turns, for every wrap and every pattern of
  lost reports; `TypeCorrect`.

Only model-checked: all liveness (`CallsReturn`, `CommandsPerformed`,
`CleanupReturnsIfSending`, `SetupEnds`, `CtrlCEnds`, `FirstIsRegistered`,
`BlockedReadEnds`, `CloseReturns`), because fairness and ENABLED are beyond the
prover.  Every other property of a passing run is stated by a theorem.

Induction over data is done over a set of natural numbers: the set of those for
which the claim holds contains 0 and with n also n + 1 (`SetInduction`, from the
well-foundedness of < on the natural numbers).  The theorems of the library take
an operator instead, which the provers here cannot instantiate.

## Findings

1. `Joycon.cpp:20`: ctrl-c does not end a program whose controller is connected
   and silent.  The handle is in blocking mode, the worker never looks at
   `do_kill`, `Cleanup()` joins it for ever.
2. `helpers.h:52`: `comm()` takes a stale reply for the answer to its request,
   since it looks at the buffer even after a read that timed out.
3. `run.cpp:70`: once one controller of a type is registered, a second one of
   that type that connects later never is.
4. `run.cpp:102`: the enumeration lists are never freed; the pointers passed to
   `hid_free_enumeration()` have been walked to NULL.

Observations without a run, from reading and modelling.

In the program: a controller that disconnects after it was listed cannot be
opened, and the NULL of `hid_open_path()` goes to `hid_set_nonblocking()`, which
writes through it (`run.cpp:73`; the model ends in the state "crashed"); the
announcements at `run.cpp:74,86,98` print the number before it is incremented;
`get_battery_level()` stores its value before it asks for it (`helpers.h:225`;
the model keeps that order); `process_imu()` computes `dt` but uses no result of
it, and sets it to 1 within the loop over the axes; `last_timestamp` and the
`acc_g` printed before the first report are memory nobody has initialised;
`rbuttons` keeps the last releases when nothing changes; a stick at its center
with a calibration of zeros is NaN.

On macOS: a read may return an error after the removal while reports still wait,
which later reads return; the list keeps 32 reports although the comment says 30;
`IOHIDDeviceClose()` may be called for a device that has gone but whose removal
has not been dispatched.

On Windows: `hid_close()` cancels the overlapped read and frees its buffer
without waiting for the cancellation; `hid_open()` compares a serial number that
may be NULL; the test for a driver accepts any device of the HID class.

On Linux: `poll()` reports the hang-up although reports are still in the ring; a
device without a node that fits ends the search; a file descriptor of 0 is taken
for a failure.

On libusb: `hid_close()` never returns if the first submission has failed, so that
the cancellation finds nothing, which a comment calls OK (`libusb/hid.c:842`); nor
if both cancellations fall between the end of the transfer and its callback, which
submits it again (`libusb/hid.c:790`).  A second altsetting with the same path can
free the device whose read thread runs (`libusb/hid.c:931`).  The comment of
`get_usage()` speaks of the first usage page, the code returns the last one before
the first usage.

## Abstractions

- `comm()` is one step of `JoyconLoop`; the locks and callers are absent from
  `SubcommandExchange`.  The exchange touches nothing but the worker's own
  buffers, the device, and `batteryLevel`, which `JoyconLoop` has.
- A reading of `batteryLevel` or of the multipliers is represented by the call
  that wrote it last.
- A negative answer to a flash read echoes its address like a positive one:
  `comm()` does not accept it, but `read_spi()` looks at the echo only
  (`helpers.h:93`) and takes it for the block.
- Flash contents are represented by the name of the block; the bytes of an IMU
  report never spell the address of a block; the buffer, which has no
  initialiser, begins with something that is no reply.
- The controller's sensitivity at the beginning is the default that
  `setup_joycon()` computes its multipliers for; `setup_joycon()` never sends
  it.
- Counters of the packets (`packet_count`), printing, and the values `main()`
  prints are left out.
- Integers that the code keeps in bytes (`jc_num`, `allct`) are natural numbers:
  there are never as many controllers.

- A report of hidapi is its number in the order of arrival; what it says, and the
  write and feature calls beyond their effect on control, are left out.
- On Windows a read fails only once the device has gone; on libusb the branch of
  `hid_read_timeout()` for an error of the timed wait other than a timeout is left
  out.
- `get_usage()` is compiled only with `INVASIVE_GET_USAGE`, which the file leaves
  undefined; it is modelled as it stands.
- Strings, their conversion, languages, `hid_error()` and the parsing of uevent
  files change no state and are left out; so is loading `hid.dll`.
- `gyr_dps` is written and printed next to `acc_g` and represented by it.

Not modelled: `dcm.h` (floating-point filter with no control state), `getip.cpp`
and `grabmac.h` (not called), `isConnected()` (returns 0), the getters of raw
data (no state change; what `main()` reads through them is in
`ReportProcessing`).

## Plan

Modelled, checked and proved about: the object and its thread, the exchange, the
registry, the processing of reports, the open device of all four `hid.c`, their
enumeration and the two parsers.  What is left:

1. A composition of `JoyconLoop` with `MacHid`, in place of its abstract read:
   what the worker does between the removal of the device and `Cleanup()`.
2. A refinement between `ReportChannel` and the read of `JoyconLoop`, so that the
   four parts of hidapi are shown to serve its worker alike.
