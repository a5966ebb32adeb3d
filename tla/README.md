# A verification project for lcd4linux on a smart watch

The repository shows a PC's lcd4linux display on a Sony SmartWatch: `lcd4linux` (C) draws into
the frame buffer of a virtual display, `drv_Bluetooth.c` pushes it over an RFCOMM socket to the
Android app `LinuxAndC` (Java), which broadcasts every frame, and an extension of Sony's watch
framework shows it. lcd4linux itself is a program for some seventy kinds of displays. This
directory holds TLA+ modules translated from that source, TLC configurations that check them on
small instances, and theorems that TLAPS proves for every value of the constants. `PROJECT.json`
maps each definition to its lines and lists components, runs, hazards, mutants and theorems.

## 1. Inventory

| component | state | operations | interacts with |
|---|---|---|---|
| timer queue, `timer.c` | `Timers`: slots that are re-used, marked active or not | `timer_add`, `timer_add_late`, `timer_remove`, `timer_process` | called by the main loop; calls callbacks that call it |
| main loop, `lcd4linux.c` | `got_signal`, the delay | `drv_init`, then `timer_process` and `event_process` for ever, `drv_quit` | all of lcd4linux |
| timer groups, `timer_group.c` | `TimerGroups`, `TimerGroupWidgets` | add a widget, walk a group, drop the empty group | one generic timer of the queue per group; widgets add themselves again in their update |
| event table, `event.c` | `events`, with the position in the array that is polled | `event_add`, `event_del`, `event_modify`, `event_process` | libdbus' watches (`plugin_dbus.c`), `drv_TeakLCM.c` |
| exec threads, `plugin_exec.c`, `thread.c` | processes, shared buffers, semaphores | create, run, lock, copy, kill | a hash; the expressions of widgets |
| hashes and sampled data sources, `hash.c`, `plugin_*.c` | items with rings of slots | look up, put, age, rate | the clock; the expressions of widgets |
| expressions, `evaluator.c` | the token that comes next, the tree | the lexer, twelve levels of operators, commands | widgets, the configuration |
| configuration and layout, `cfg.c`, `layout.c`, `widget.c` | entries sorted by key, `Widgets` | arguments, lines, migration, `widget_add` | drivers' classes of widgets |
| text widgets, `widget_text.c` | a string, its place and scroller | update, scroll | timers, named events, the driver's draw |
| text displays, `drv_generic_text.c` | `LayoutFB`, `DisplayFB`, chars to define, bar segments | draw text, icons and bars; blit | the drivers' write and defchar |
| drivers of text displays, `drv_HD44780.c` and 28 others | where the display writes next | clear, write, define a char, repeat | the display |
| drivers that talk with their displays, `drv_TeakLCM.c`, `drv_Crystalfontz.c` | state machine and shadow; ring buffer and the packet waited for | connect, read, send, wait | event table, timers, keys |
| graphic displays, `drv_generic_graphic.c` and the blits of eleven drivers | layers of pixels, what was sent | draw, blend, blit, flush | timers, devices |
| start and end of drivers, `drv.c`, all drivers, the generic ports | open ports, lock files, greetings | `init`, `quit`, open, lock, clear, close | the main program, other programs |
| pid file, `pid.c` | a file, shared by processes | `pid_init`, `pid_exit` | other lcd4linux processes |
| frame pipe: `drv_Bluetooth.c`, `DataShifter.java`, the receiver in `SWControlExtension.java` | frame buffer, dirty flag, socket, the bytes collected, the pause flag | draw, flush, push, read, broadcast, show | lcd4linux' timers, the activity's button, the watch |
| phone activity and server: `MainActivity`, `BluetoothServer` | button, server, shifter, the queue of AsyncTasks | toggle, accept, hand over the shifter, stop | frame pipe, watch extension service |
| watch extension service: `ExtensionService` and its subclasses | controls per host application, receivers, registration task, queued request, last start id | intents, runners, registration results, `stopSelfCheck`, `onDestroy` | host application, Android's service manager, `MainActivity` |

What is hard in it:

* lcd4linux has one thread, but callbacks change the very tables that are being walked: timers
  from timer callbacks, widgets from group walks, descriptors from event callbacks, packets from
  the expression of a key. Slots are re-used, moved or reallocated under the caller.
* The queue, the hashes and the scrollers live on the wall clock, which jumps; time passes
  within callbacks; C integers end.
* Memory may give out between the steps of one registration (timer, group, widget, thread).
* Widgets, the layout buffer, the display buffer and the display each hold a picture, and only
  differences are sent: where two of them disagree, nothing repairs it.
* Frames are cut by sockets, paused, and broken off; the writer blocks in the only thread. Bytes
  are lost on serial lines, displays restart, USB transfers fail or lose only their answer.
* The phone's activity is created again while its tasks run; the service is started, killed,
  restarted, stopped by itself or by the activity while intents for it are under way.
* Several processes use one pid file or lock file with system calls that are not atomic together.

What makes each component correct: the queue never loses, delays or repeats a trigger and never
sleeps over one; a widget is in one group, a group has its timer, and both come to an end
together; an event callback gets its own descriptor's events, and all of them in the end; the
text of a command is one it printed; a rate is that of the values before; a layout is what was
written, an expression means what its grammar says; a display shows what its widgets drew last
and is left in order; the pid file names the daemon that runs; the watch shows whole pictures of
the PC in order, and the last one; the button tells what it will do; controls follow the host
application, receivers follow controls, the service ends when it may and no earlier.

## 2. Modules

| module | models | composition |
|---|---|---|
| `SlotTable` | the growable table with re-used slots, as pure operators | used by `TimerQueue`, `TimerGroup` |
| `CInt` | the `int` of C, which wraps at `IntMax` | used by `TimerQueue`, `TimerWidth` |
| `TimerQueue` | `timer.c` and the main loop | extends `SlotTable`, `CInt` |
| `TimerWidth` | `timer_inc` in ints up to `IntMax` and floats with a mantissa up to `Mantissa` | where `TimerQueue` has exact numbers |
| `TimerGroup` | `timer_group.c` and the widgets' registration | extends `TimerQueue` and works on its `Timers`; implements it (`QueueSpec`) |
| `EventTable` | the table of `event.c` and its clients | - |
| `ExecThreads` | `plugin_exec.c` over `thread.c` | - |
| `HashTable`, `Samplers` | `hash.c` as functions; the plugins that keep values in a hash | `Samplers` extends `HashTable` |
| `Evaluator` | lexer classes and parser of `evaluator.c`, and a grammar to compare with | - |
| `Layout` | `cfg.c`, `layout.c`, `widget_add` | - |
| `TextWidget` | `widget_text.c` | - |
| `TextDisplay` | `drv_generic_text.c` against a display whose chars are defined | - |
| `HD44780`, `TextDrivers` | controllers and addresses; 29 drivers' sizes, writes, chars and repeats | `TextDrivers` extends `HD44780` |
| `GraphicDisplay` | `drv_generic_graphic.c` and the blits of drivers | - |
| `TeakLCM`, `Crystalfontz` | two drivers that talk with their displays, and those displays | - |
| `TextDriverSteps`, `GraphicDriverSteps` | the steps of each driver's open, start, init and quit, under the source's names | used by `DriverLife` |
| `DriverLife` | `drv_init` to `drv_quit` with greetings, clears, ports and lock files | extends both step modules |
| `PidFile` | `pid.c` and the calls of `main` | - |
| `PictureFeed` | abstract: whole pictures, in order | - |
| `FramePipe` | driver, socket, `DataShifter`, image receiver | implements `PictureFeed` (`FeedSpec`) |
| `PhoneServer` | the activity's button, the server, AsyncTasks | extends `FramePipe` and drives its pauses and stops; implements it (`PhoneUsesPipe`) |
| `WatchExtension` | the watch extension service | - |
| `MCTimerQueue`, `MCTimerGroup` | constants for TLC | - |
| `MCDaemon`, `MCScreen`, `MCSmall` | instances of several modules: `part` says which one is at work in a behaviour, and the variables of the others rest in a fixed initial state | extend what they check |
| `*_proofs` | theorems; `Timer_proofs` about the queue, the groups and the width of integers, `Daemon_proofs` about events, exec threads, pid file and the Teak LCM, `Displays_proofs` about graphic and text displays, `Recursion_proofs` lemmas for them | extend the modules they are about |

The composites ask nothing that couples their parts: the state space is the sum, not the product, of those
of the parts, and each fairness condition is that of the part's own specification while it is at
work. They keep the number of runs small.

How state and actions correspond to the code:

* **TimerQueue.** `Timers` is the array; its length is `nTimers`, slots count from 1. `pc` is
  where the main loop is (callbacks of events, `timer_process`'s scan, a timer's callback,
  `ppoll`). A callback is the interval between `ProcessCall` and `ProcessReturn`, in which
  `TimerAdd`, `TimerAddLate` and `TimerRemove` may happen any number of times, and `Tick` and
  `SetClock` as everywhere. `ProcessReturn` works on whatever is in the slot then, as the code
  does. `ProcessSelect` is the end of the pass with the skew correction. Real timers never
  remove themselves; only libdbus' timeouts (`Timeouts`) are removed or added late. The difference
  that the loop takes for its delay and for the skew is an int (`Wrap`); what `timer_inc` multiplies and
  divides is exact here, and in ints and floats in `TimerWidth`.
* **TimerGroup.** A group's timer is known by the cell that holds its interval; a cell belongs to a
  slot of `TimerGroups` for good, so the slot number stands for it. The functions of
  `timer_group.c` call each other within one step; they are operators on a record of the three
  tables, with their early returns when memory gives out. `GroupUpdate` is one widget's update in
  a walk, after which the code retires the entry it used.
* **EventTable.** A step of the scan in `event_process` is an action, and so is each call of a
  client, in the main loop or in a callback. `fds_id` is kept as the code keeps it, stale ones
  included. A client that removes one watch of a descriptor removes all of them before it
  returns, which is how libdbus closes a connection.
* **ExecThreads.** Processes are "main", children, zombies, strangers with a re-used pid. The text
  that a command prints is a pair of halves, each with the number of its run, copied and written
  half by half; a signal may break off the wait for the semaphore. `Fault`s are those that the
  code tests: `shmget`, `semget`, `fork`, `realloc`.
* **HashTable, Samplers.** A key has a rank (what `strcasecmp` sees) and a spelling. A source is a
  record of what its plugin does: how old values may be, what happens when the file cannot be
  read, which hash keeps the age. Time is the clock of the system, which may be set back.
* **Evaluator.** `Level` and `Level12` are the functions `Level01` to `Level12` on the rest of the tokens;
  `Meant` is a separate definition, from a table of precedences, of what an expression means.
* **Layout.** A key is a sequence of words; a word its name, its argument and the zeros before it,
  which `sscanf` passes over (`PlaceOf`). `Added` is `cfg_add` with locks, `Migrate` the renaming
  of old-style rows and columns; a section with a dot in its name is one of several words.
* **TextWidget.** `Update` and `Scroll` are the callbacks of two timers, on a string and the place
  between its affixes.
* **TextDisplay.** `LayoutFB`, `DisplayFB`, the chars and the segments have the code's names. The
  glass is in the model: displays that want `INVALIDATE` keep the look that a char had when it was
  sent.
* **HD44780, TextDrivers.** An address holds which run was written and which column of it. Each
  driver has its own `write` and `defchar` as lists of transfers; a fault loses a request, or only
  its answer, or is one that the display answers as not understood. What `LCD2USB` keeps in its buffer is
  `queue`.
* **GraphicDisplay.** A pixel is dark, light or transparent. Each driver's blit is a set of what it
  sends and what it counts as sent.
* **TeakLCM, Crystalfontz.** The state machine and the packet buffer of the drivers, with a model
  of the other side made from the commands and modes the drivers know. `astray` records that a
  display asked again before it had its answer, or that stale bytes were taken for a command.
* **DriverLife.** `todo` is the list of steps that `init` or `quit` has still to make: for each
  driver that of its source, in its order. A step opens a port, sends something, changes what is
  seen, or may be refused. A display has an area that greetings are written to and one beside it;
  how a driver decides what to send is its `way`. Programs end at any step, with what the kernel
  closes and what it leaves.
* **PidFile.** One action per system call: `Link`, `Open` (open, read, scan), `Kill`, `Unlink`.
  A process in the foreground takes no pid file, but removes it at its end, as `main` does.
* **FramePipe.** A frame has `Units` parts; `Read(n)` takes as many as are there; a picture is a
  number, and a frame records which picture each part is of, so that a torn frame shows.
* **PhoneServer.** `Activities` are the activity's objects, one after the other; the button is
  static, the other fields belong to an activity. AsyncTasks run one after the other, the
  registration of the watch extension service included. Each activity's server may be connected to: by
  the run of lcd4linux whose frame pipe is followed (`Accept`), or by others before or after it (`AcceptOther`).
* **WatchExtension.** The main thread's looper is a queue of messages; `insts` are the service
  objects. `OnStartCommand` posts a runner, `HandleIntent` is that runner, with `stopSelfCheck` at
  its end, as in the code. Throwing on the main thread is `Crash`.

## 3. Runs

| run | question | bounds, and why they suffice |
|---|---|---|
| `queue_forward` | triggers are not lost, overdue, slept over, when passes are late and the clock jumps ahead | 3 timers (one called, one before and one behind it), intervals 1 and 2, clock to 4 with steps of 2: several missed intervals of the shorter one |
| `queue_setback` | the loop does not freeze when the clock is set back; libdbus adds and removes timeouts in callbacks; interval 0 | 2 timers, one step of 3 back, beyond the threshold; ints up to 4, so that the difference to a trigger of the longer interval wraps |
| `queue_lost` (violated) | see section 6 | 2 timers |
| `group_plenty` | widgets change groups during walks, groups come and go | 3 widgets (two that re-arm, one periodic), 2 groups, 5 widget slots: the old and the new entry of each re-arming widget and the periodic one |
| `group_scarce` | the same without memory for all, with interval 0 | fewer timers and slots than asked for |
| `group_unlinked` (violated) | see section 6 | 2 widgets |
| `watch` | intents, kills, crashes, registrations in any order | one host application, 5 intents, 2 waiting, one mishap, 2 service objects |
| `watch_exit` (violated) | see section 6 | 4 intents |
| `phone` | the button, the shifter and the tasks over activities that come and go | 2 activities (the one that is left and its successor), to both of which a PC may connect; one registration, 2 pictures of 2 parts |
| `daemon` | clients change the table under `event_process`; threads are created, killed and read; a display restarts | 3 watches, two of one descriptor, 5 additions or changes, any number of deletions; one key with room for two threads, 2 faults, 2 pids; 1 restart, 1 write, 2 requests (the second while the first is under way, or behind a restart), 1 key; reads of up to 32 bytes, as many as the driver asks for |
| `screen` | layouts, expressions, sources, what displays show, lost bytes, start and end of every driver | 5 lines and 1 argument; 5 tokens out of eight alphabets, two of them with strings; 4 questions, 2 pauses or steps of the clock, 1 error, 3 slots to a ring; 2 x 3 cells with 1 or 2 chars for more segments than that; 2 pages of 12 columns, 3 drawings of 4 widgets by 9 drivers; 2 sends, 3 keys, 1 lost byte; all 66 entries of `Driver` |
| `small` | pictures, scrolling, the pid file, integer widths, cells of 29 drivers | 3 pictures of 3 parts, 4 parts in the socket: a frame and a part of the next, 2 broadcasts; widths 1 and 3, strings shorter and longer; 3 processes, the foreground one included, 4 starts; ints up to 31, floats with a mantissa up to 16, a lateness up to 60: beyond both; 61 panels, 2 runs at their edges, one of the first three transfers lost or refused |

`screen`, `daemon` and `small` take about two minutes each.

What the passing runs show:

* Queue and groups: `HorizonBound`, `NoneOverdue` (no trigger further away than an interval, none in
  the past behind the scan), `SleepHonest`, `SleepBounded` (as long as an int counts the milliseconds), `DueIsServed`; `MissedSkipped` (as long as ints and floats count them);
  `WidgetsGrouped`, `GroupsLinked`, `WidgetServed`, `QueueSpec`.
* Daemon: `WatchesKept` until `event_modify`, `OnlyReported`, `ReadyIsHandled`; `WholeTexts`,
  `ThreadsOwned` (only own processes are killed, one thread to a key, with the exceptions named in
  it), `MainReturns`; `ShadowShown` and `ShownAgain` after a display's restarts and requests, unless something went `astray`.
* Screen: `LayoutAsWritten`, `ParsesAsMeant`; `RatesHonest` (a rate is that of two values and their
  times, and no old value is told twice); `TextsShown`, `BarsShown`, `PixelsShown`; `IntactKept`: no packet that arrived whole is lost or served
  twice; `ShowsLayout`, `HandedOver` for every driver but the exceptions named beside them.
* Small: `LockHeld`; `FeedSpec`, `LastPictureShown`; `EveryPartShown`; `CellsShown`,
  `LossRepaired`.
* Phone and watch: `PhoneUsesPipe`, `ButtonTellsPause`, `NoOrphan`, `ButtonComesBack`;
  `ControlFollowsHost`, `StopsSelfAtRest`, `RegistrationServed`.

Each is stated in a sentence above its definition. An exception in a property is a place where the
code does something else; section 6 lists them. For each property `PROJECT.json` names a plausible bug
(a variant of a mapped definition, beside it in the module) that violates it.

Stated and proved (section 4), but not the property of a run: the type invariants of the modules
that section 4 lists, `OwnSlotKept`, `NoEmptyGroup`, `WalkBounded`, `NoTornFrame`, `ReceiverHeld` and
`NoIdleService`.

Deadlock is checked but in `daemon`, `screen`, `small`, `watch` and `watch_exit`, where a part may
really come to rest: `ppoll` waits and no client has anything left to do, all processes have
ended, the bound of a clock, of intents, lines, drawings or starts is reached, a display has failed.

### Fairness

* `TimerQueue`, `TimerGroup`: weak fairness of the loop's own actions and of time. The program is
  sequential and its callbacks return. None is assumed of clients, descriptors or clock steps.
* `EventTable`: of the loop, and of a client that is in the middle of closing a descriptor. `ppoll`
  always returns, since lcd4linux always has a timer, and a descriptor that is ready stays so.
  The number of additions is bounded, so `ReadyIsHandled` says what happens once clients settle.
* `ExecThreads`: weak fairness of what the processes do, strong fairness of the main process' lock:
  the kernel keeps a queue for a semaphore, so a thread that takes it again and again does not
  starve the other. None of faults.
* `TeakLCM`: the main loop reads what can be read, the one-shot timer fires, the display obeys.
  `TextWidget`: the scroller's timer fires. Both rest on the timer queue's `DueIsServed`.
* `FramePipe`: both programs run on, the timer calls the driver, Android delivers. None of users,
  the watch or the link; where a property needs the link to hold or the pause to end, it says so.
* `PhoneServer`: started threads run, AsyncTasks that can end do. `accept` need never return.
* `WatchExtension`: the main thread handles its messages. That background tasks end is not assumed
  but a condition of `RegistrationServed`: a getter may hold their thread for ever (section 6).

Properties of the form `[]<>P` say that P holds again and again; the bounds then only end the inputs, not the loop.

### Assumptions on code that is not here

Android's looper delivers in order; a started service is created once; `stopSelf(startId)` counts only
for the latest start; a sticky service that is killed is restarted with the starts it has not seen,
or with a null intent. Sony's host application resumes, pauses, touches and stops only what it
has started. libdbus adds, removes and toggles watches and timeouts at any time, also from its
own handlers. `realloc` may fail at any point that the code checks. Displays do what the commands
that the drivers send are named for. A signal is delivered when it is sent.

## 4. Proofs

TLAPS checks these theorems from the constants' named assumptions alone:

* `Timer_proofs`, of the queue: `TypeCorrect`, `Horizon`, `Overdue`, `OwnSlot`, `HonestSleep`,
  `BoundedSleep`, from `Inductive`, and `Skipped` of `TimerWidth`. `BoundedSleep` has the condition of its
  property: an int counts the milliseconds to every trigger (`Countable`), and then no difference wraps; `Skipped` that
  an int and a float count the lateness (`Counted`), and then no quotient is rounded up to the next number. None of the invariants is inductive
  by itself: that a returned
  callback leaves a trigger no further away than one interval needs that the timer was due when
  it was called, also if the callback re-used the slot (`CalledDue`), which needs that a pass
  never works with a time later than the clock has shown (`NowBound`); that only removals give away the
  slot of a running callback needs that it is active until then (`CalledActive`). `IInv` is their
  conjunction. The clock enters through `clock + setback`, which no step makes smaller.
  What `timer_inc` computes is a lemma on integer division (`GoodTrigger`) for each sign of the
  difference and for interval 0. What placing and retiring an entry of a slot table changes and
  keeps is stated there too, for the groups' proofs as well.
* `Timer_proofs`, of the groups: `GroupTypeCorrect`, `GroupsUseQueue` (`GroupSpec => QueueSpec`) and
  with it `GroupHorizon`. The groups' steps are steps of the queue since each adds at most one
  timer, whose handler is a slot of `TimerGroups`: `GInv` carries that every timer's cell belongs to
  such a slot (`HandlersExist`), through the chain of functions that a widget's update calls.
  Then `WidgetsInOneGroup` and `GroupsHaveTimers`, from `GWInv`: no two groups have one interval
  (`Apart`), every registered widget has a group (`Homed`), and no widget has two entries but the
  one whose entry the walk has yet to retire (`OnceBeside`, `Marked`). The walk is where
  this breaks for a while: an update registers its widget again before the old entry goes. That
  needs widgets to be of one class (`KindsAssumption`), as a widget's class decides whether it
  is registered once and for all or by each update. `WidgetsGrouped` holds
  whatever memory there is; `GroupsLinked` and `NoEmptyGroup` (`GroupsPeopled`) are proved under `Plentiful`, as without memory
  `timer_add_group` keeps a group whose timer was refused, and `timer_add_widget` a group whose
  widget was. That walks come to an end (`WalksEnd`, `WalkBounded`) rests on `WalkKept`: a
  widget overtakes the walk only while all slots that the walk has passed are in use; the slot it leaves
  is then the first free one, and whatever is added later goes behind the walk (`Gap`).
* `Daemon_proofs`, of the event table: `EventTypeCorrect`, `TableKept`, `CallsAsReported`, from `EInv`. `event_del`
  looks for a descriptor, not for a watch, and takes the first entry that it finds. While a client closes a
  descriptor, the table therefore has as many entries for it as there are watches left, but maybe not theirs;
  `OneEach` counts them. In a pass an entry's `fds_id` still names a poll entry of its
  descriptor (`Numbered`), also after others before it were deleted or added, and that is why a callback gets what was
  reported for it.
* `Daemon_proofs`, of the pid file: `PidTypeCorrect`, `Held`, `NeverTwo`. `LockHeld` is inductive together with the
  types: only `link` makes a daemon, and it does so only if there is no pid file, so that no other
  daemon runs; whoever removes a file either robs a live process, which `robbed` records, or
  removes that of a dead one, and then no other daemon runs either.
* `PhoneServer_proofs`: of the pipe `PipeTypeCorrect`, `NeverTorn` and `PipeFeeds`
  (`PipeSpec => FeedSpec`), of the phone `PhoneTypeCorrect`, `PhoneIsPipeUser` (`PhoneSpec => PhoneUsesPipe`),
  hence `PhoneFeeds`, and `ButtonTruthful` and `OrphanOnlyPending`. `read` cuts frames anywhere; that none is torn
  needs that the collected bytes followed by those in the socket are frames in their order (`Framed`, of `Travelling`), of which the
  first may be short of its beginning only if it is collected, and that the writer continues
  the last one (`WriterKept`). Pictures rise along all of it, to what the PC has drawn (`InOrder`). The button tells the truth because
  the frame pipe's PC is accepted by the server of one activity, each activity has one getter, whose result
  comes once (`OneOwner`, `OneGetter`, `OneResult`), and getters end and results are handled in the order of the
  activities (`InTurn`, `OneOpen`): until the owner's result the button is disabled (`ButtonKept`), but where a late
  result of an older activity enables it; `early` records that it was then used, the exception of the property.
* `Daemon_proofs`, of the exec threads: `ExecTypeCorrect`, `TextsWhole`, `OwnThreads`, from `ExecInv`. The main process
  reads a text in two halves and a thread writes it in two; between `semop` and `semop` there is one
  of them, and a torn text stays in the buffer only while the semaphore is down for good, since
  the thread that held it died (`BufferKept`). Threads have the place they were created with, also
  if the array moves (`Placed`). That only own processes are killed needs that pids in the array
  are not re-used (`PidsKept`), which holds until somebody else reaps a dead thread or pid -1
  was killed.
* `Daemon_proofs`, of the Teak LCM: `ShadowKept`, from `LcmInv`. A connected driver has under way whatever the display
  does not show: the last frame for a line carries the shadow's, and a display that will only be
  connected by a frame on its way gets both lines behind it (`Promised`), since the
  driver sends them when it is connected itself. That no answer to an older frame connects it too early
  needs that the display asks only when no earlier request, and no answer to one, is under way, and that nothing
  was reset behind that (`AskedOnce`). A read is followed frame by frame (`FrameKeeps`), also where it ends within one
  and the bytes behind it are old ones; only when those are taken for a command does it go `astray`. No bound on
  reads, requests, restarts or keys is assumed.
* `WatchExtension_proofs`: `WatchTypeCorrect`, `ControlsFollow`, `ReceiversHeld`, `NeverIdle`,
  `StopsAtRest`, from `WatchInv`. `stopSelf` counts only for the latest start id, so that a
  service does not stop over an intent: start ids rise along the looper, first those that are posted and
  then those still to be posted, up to the last one given out (`Numbers`). A control follows its host application
  through the intents that are still queued: they lead from the state it has to the one that is
  shown (`Follows`), through a restart that keeps only the starts not yet seen, in their order
  (`Redelivers`). There is one live service object at most (`Lives`), a request is owed only by
  it and behind a registration (`Owes`), and one that has handled its last intent has a control
  (`Resting`). With these, a service that stops itself has nothing left (`AtRest`); crashes and
  kills are told apart by `mishaps`, which is a number in all behaviours.
* `Displays_proofs`, of graphic displays: `PictureOnDisplay`, that the display shows the blended layers, for every size of
  display, byte and page, any number of layers and any widgets, from `GraphicInv`. It has a link
  for each of the copies between widgets and glass: the driver's first buffer is the picture of the layers
  (`CopyKept`), since a widget changes nothing outside its window and blending is by pixel; the display agrees
  with that buffer except in what waits for a timer or was lost (`DisplayKept`); and drivers that compare with
  a second buffer count there exactly what the display shows (`SentKept`). For each driver a lemma shows that
  what it sends reaches all pixels that changed (`PictureKept`), whatever gaps it closes and wherever its ranges
  end: for the `T6963` that the bytes of a row lie between those of its first and last column
  (`DivisionRises`), for the `LPH7508` that a byte beyond the last column belongs to no pixel, for the
  rectangle and column drivers that the least and greatest changed rows and columns enclose the
  change. What is sent beyond that is right as well, as it is read from the buffer.
* `Displays_proofs`, of text displays: `TextsOnDisplay`, that the display shows what texts and icons drew last, as it looks now,
  for any display, driver, widgets and values, from `TextInv`. The layout has what was drawn, and where
  texts and icons may draw it has nothing but their chars (`LaidOut`), which needs that bars stay in their
  cells (`BarsInPlace`); for each of these cells, what `DisplayFB` claims is what the display
  shows, or something that is in no layout (`OnTheDisplay`); and each icon has a char of its own whose bitmap
  the display knows (`IconsApart`). The hard part is that a bar never
  defines an icon's char. It does not by counting: packing leaves at most `BarChars` segments
  behind the fixed ones (`RoundsLeft`: each round drops a segment or
  turns to the second pass or is the last), and so each new segment finds a char that none of
  the others has, by the pigeonhole principle. That uses no more of a round than how many segments it leaves, so that
  `TextsShown` holds also where segments were replaced by themselves or could not be replaced.
  `SetupsAssumption` says what users of a display have to see to: texts and icons have cells of their
  own, texts do not use the chars that icons and bars define, and where a driver wants `INVALIDATE` no complement of such a char is in use,
  which is so for `Cwlinux` and `picoLCD`, whose chars are 1 to 16 and 0 to 7. Recursion is along rows, segments and rounds.
* `Samplers_proofs`: `RatesTold`, that widgets are told the rates of what was read, and nothing for long that was
  read long ago, for any keys, sources, number of slots, values and clock, from `SamplerInv`. Rates need that
  from its index on the ring of an item holds the last that was put, in its order, and then nothing
  (`RingsHold`); a full slot is told from an empty one by its time, which is after the epoch (`PutLater`). The search
  of `hash_get_delta` for the first slot that is old enough or empty is then the search for the youngest
  value that is old enough (`DeltaIsRate`). The item is found because sorting by insertion keeps
  the items and puts them in order (`InsertedSorts`), and each half of a binary search that is left
  has all items of the rank, one round less to go (`Searched`), so that a key without a twin in capitals is found
  wherever it is. That nothing is told for long that was read long ago needs that
  an item's time is that of the clock as it is or that from before the clock was set back, and in that case the
  value seemed young to whoever was told first (`TimesKnown`). `NamesAssumption` says that two keys have two
  spellings, `SourcesAssumption` that no source waits for more than five seconds, as those of the code.
* `Recursion_proofs` has the lemmas on recursion and numbers that the other modules cite. The induction theorems
  of the library take an operator; `Induction` takes a set of numbers, `Iteration` says that a function exists which is
  defined by iterating a step, and `Stays` that what each step keeps holds at its end.
* `Layout_proofs`: `LayoutUp`, that there is one widget for each key of the arguments and the file
  that names a place, for any
  number of arguments and lines, any depth of sections, any keys and any limit of widgets, from
  `CfgInv`. It follows an entry through three forms. While the table is filled it holds exactly what was
  said, and the lock tells an argument from a line (`EntriesSaid`). The migration renames entries whose
  new name is free: that the result asks for what was meant (`RenamedMeans`) needs that a renamed entry is found
  again under one key only and that the key which chooses the layout is never renamed. Then each
  entry of the list that is done has its widget, as far as there is room (`WidgetsKept`); no key is
  done twice, and it names one place (`OnePlace`). Names of words are those that the
  code looks for; the chosen layout must be a name (`LayoutAssumption`).

TLC has checked each of the inductive invariants as well, on the instances of section 3 (`WatchInv`
with 3 intents).

Only model-checked: every liveness property, which is out of the prover's reach (`DueIsServed`,
`WidgetServed`, `ReadyIsHandled`, `MainReturns`, `LastPictureShown`, `ButtonComesBack`,
`RegistrationServed`, `ShownAgain`, `EveryPartShown`); what bars look like on text displays (`BarsShown`), the drivers of all
but graphic displays and the Teak LCM, the start and end of drivers, and text widgets. `Evaluator` and
`Crystalfontz` (`Taken`) declare RECURSIVE operators and stay with TLC, and so does what
recursion over data computes.

## 5. What is not modelled

The components with status `not_modelled` in `PROJECT.json`, and the "left out" in the notes of the others:

* Formats: fonts and colours, printf formats, what the text of a source means, numbers in
  expressions, `qprintf`, `rgb.c`. They only decide which of a few values a model's datum has.
* Wires and waits: bytes and signals of buses, delays, backlight, contrast, key matrices.
* The evaluation of expression trees, and plugins that compute a value from a file or a server
  without keeping it.
* The registration of the extension: rows in the database of Sony's host application.
* Sony's sample and the parts of its library that the app does not use.
* Within modelled components: rounding of `float` in the whole queue (`TimerQueue` is exact, as the code is for timers
  that are called less than 2^24 ms late; `TimerWidth` has the rounding, for one timer), intervals of 24 days and
  more, the half-made group when `malloc` fails for its cell, `POLLHUP` and `POLLERR`, named
  events, notification and widget intents, the touch handler's intents to the host application,
  errors of the file system in `pid_init`, lines of the configuration that are longer than 256
  chars, which `fgets` cuts, the search for the phone by SDP, the race of two programs for a stale
  serial lock file (as in `pid.c`; `DriverLife` takes it over in one step), `drv_Sample`'s graphic
  twin (`drv.c` does not list it).

Hazards of the code that are not in `PROJECT.json`'s list because nothing here covers them:
`timer_add_late` tests the result of `timer_add` the wrong way round (`timer.c:304`); `malloc` fails
after `realloc` (`timer_group.c:206`); `DataShifter` turns in a loop at the end of the stream
(`DataShifter.java:67`), and its `isPaused` is not volatile (`:20`); `onResume` sends no image
(`SWControlExtension.java:151`); a named event that is triggered by its own widget is called within
itself (`event.c:295`); a pid file is empty after a power loss (`pid.c:117`); `AddFunction`'s `realloc`
invalidates pointers in trees (`evaluator.c:501`).

## 6. Where the code does other than it says

Shown by runs:

* `queue_lost`: `timer_process` retires a one-shot timer that its callback put in the slot of
  the one that was called, without having called it (`timer.c:380`).
* `group_unlinked`: `timer_remove_group` asks for the address of the pointer instead of the
  pointer (`timer_group.c:272`), so no group's timer is ever unlinked; each leftover
  goes on triggering the cell, whoever uses it then.
* `watch_exit`: the activity stops the service while a posted intent waits; it is handled after
  `onDestroy`, and its receiver is never unregistered (`SWControlExtension.java:131`).

Met while modelling; the models have them, and properties name them as exceptions where they touch one:

* **Events, threads, pid file.** `event_modify` drops the last entry of the table (`event.c:188`).
  exec's error path kills pid -1 (`plugin_exec.c:185`); two keys may share a CRC-16, and with it a
  semaphore (`:252`); `semget` is called with mode 0 (`thread.c:100`). The stale pid file is
  unlinked by name (`pid.c:131`), and a foreground process removes the daemon's
  (`lcd4linux.c:380`).
* **Sources.** `xmms` rereads every 200 msec and says 100 (`plugin_xmms.c:74`).
  `wireless` asks for the age of another key than it puts (`plugin_wireless.c:199`);
  what has gone keeps its last rate; `apm` never recovers from an error; `i2c_sensors` tells the old
  value when it fails; `loadavg` and `uptime` stand still after the clock was set back; new slots of
  a ring are not initialised (`hash.c:425`).
* **Expressions and layout.** The 256th variable dereferences NULL (`evaluator.c:430`, `864`);
  garbage and a trailing comma are accepted; conditions and assignments do not nest. An empty string
  that begins an expression, or follows a whole one, is taken for its end (`evaluator.c:1397`, `1406`):
  `'' . 'a'` has no tree, `1 ''` the tree of `1`, and nothing is said (`TakenForEnd`). An entry that
  is overwritten keeps its lock; where neither of two keys may exist, the older one is dropped; row
  0 and column 0 become index -1. `row1` and `row01` are two keys of one place (`layout.c:154`), so of two
  such lines not the last one counts: both get a widget. The section is cut at its last dot
  (`cfg.c:618`): a file with a dot in a section's name and balanced braces is refused for unbalanced ones.
* **Text widgets.** `widget_text.c:290` says "so we do nothing here" of a condition that is always true; an icon
  with speed 0 stops for ever; the scale of bars never shrinks.
* **Text displays.** Where segments are merged, one may be merged with itself
  (`drv_generic_text.c:823`); merged ones stay merged; a bar to the west is built in a buffer that is
  not initialised (`:858`); north and south bars show one of their two values; `INVALIDATE` writes
  beside the buffer (`:496`, `:990`).
* **Drivers of text displays.** `BeckmannEgle` sends four of five bytes of its type (`:319`),
  `Trefon` len+5 of len+6 (`:183`); `M50530`'s 5x11 chars overlap (`:252`); `MatrixOrbital` clears with
  the row as column (`:152`); `SimpleLCD` (`:179`) and `WincorNixdorf` (`:94`) address columns with a colon;
  16x4 displays of `IRLCD`, `Pertelian`, `Newhaven` and 16x1 ones of `RouterBoard` have rows at
  other addresses; `ASTUSB` repeats no commands; `ULA200` does not repeat what could not be written and drops the run
  (`drv_ula200.c:208`), and waits without end for an answer that does not come (`:230`); others repeat text when only the answer was lost;
  `HD44780` both adds `CROWS` and subtracts (`:853`), so that rows of a third and fourth controller are misplaced. The
  clear of `LCD2USB` stays in a buffer of four bytes (`:355`) until something is written or a char is defined.
* **TeakLCM, Crystalfontz.** Nothing tells the answer to one request for a connection from that to
  another: when a display asks again, say after a restart, while an earlier CONNECT or the ACK for it is
  under way, a CONFIRM may make the driver CONNECTED although the display has been asked anew; `flush_shadow`'s lines are
  dropped, the ACK that follows in state CONNECTED flushes nothing, and writes stay lost until the next restart. Behind a
  data frame `fsm_handle_bytes` goes on with one byte too many (`buflen - ri`, `drv_TeakLCM.c:349`), so that behind the frames of
  several keys in one read old bytes may be taken for a command. Both are `astray`, the exception of `ShadowShown` and
  `ShownAgain`. A NACK after a checksum error is never sent; a nested send takes the outer one's acknowledgement
  (`drv_Crystalfontz.c:343`), and comment 214 is not kept.
* **Graphic displays.** `LPH7508` leaves out an "extra row for symbols" (`:171`) that its buffer of 64 rows
  (`:332`) does not have, so that the last row of the picture is never shown; `T6963` sends and counts one byte more than it compares; a failed transfer is never
  repeated; an icon or image that is not visible is drawn in the display's background colour, not the
  widget's.
* **Start and end.** `Crystalfontz` 633 clears the display but not its line buffer (`:808`), so
  that the greeting comes back with the first widget; `mdm166a` (`:477`) and `picoLCDGraphic` (`:549`)
  greet into a frame that their clear does not erase, and their goodbye waits for a timer that
  does not fire any more. `GLCD2USB`, `LUIse`, `st2205`, `vnc` and `SamsungSPF` show rubbish beside the
  widgets after a quiet start. `PICGraphic` drops a picture that comes too early, also the last
  one. `GLCD2USB`, `Image`, `Bluetooth`, `LEDMatrix`, `X11` leave the last picture,
  `picoLCD`, `mdm166a`, `picoLCDGraphic` their outputs, `RouterBoard`, `Image`, `X11` what they
  opened; `LCD2USB`, whose clear is still in its buffer when the device is closed (`:668`), leaves widgets if no
  goodbye is said, and shows what was there before, after a start, until a widget draws. A start that
  fails behind the serial port leaves its lock file.
* **Timers.** A clock that is set back by more than 24 days makes the difference of `timer.c:443` wrap: no skew is
  seen, and the loop sleeps for as long as the clock was set back. And a timer that is called more than four hours and a half
  late, as when a board without a battery learns the date, has its missed intervals counted in a `float`: contrary to
  the comment (`timer.c:145`), some of them may be left, and beyond 24 days the next trigger may be anywhere.
* **Phone.** A late result of an older activity enables the static button (`MainActivity.java:318`) while the open
  activity's own result still waits; if the user pauses then, that result checks the button of a paused
  shifter (`:320`). A getter that waits for a PC holds up the one AsyncTask thread, and with it the
  registration of the extension (`MainActivity.java:305`).

## 7. Plan

Everything that was planned to be modelled is here, and the safety properties of the queue, the
timer groups, the event table, the exec threads, the pid file, the frame pipe, the phone, the watch,
the Teak LCM, graphic displays, texts and icons on text displays, data sources and the layout are proved. What TLC alone
checks has a reason each:

* `TextDisplay`: `BarsShown` depends on what each round of packing replaces by what, with the diagonal of errors
  as it is left behind.
* `Crystalfontz` drops garbage byte by byte, `Evaluator` parses: recursion over data. `IntactKept` also depends on check sums, which
  garbage might have by chance.
* `DriverLife` and `TextDrivers` have a fixed list of drivers, all of which TLC goes through; a proof
  would add nothing.
