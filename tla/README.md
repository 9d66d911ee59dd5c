# serial_bridge in TLA+

This directory is the formal model of `serial_bridge`: a ROS 2 process that
finds micro-controllers on USB serial ports, bridges each one to the topics
`serial_rx_<id>` and `serial_tx_<id>`, and copes with devices that are plugged
in, moved, unplugged or hung while it runs; and the firmware at the other end
of the cable.  The modules are model-checked with TLC on small instances, and
the ones about the core are proved with TLAPS for every value of their
constants.

Paths below are relative to the repository (`src/bridge_node.cpp` is the file
of the ROS package, `firmware/...` the micro-controllers').

## 1. The system

```
 users, USB          scanner thread              executor threads          ROS
 -----------         --------------              ----------------        ------
 plug, move, ---->  list / open / read_frame     update()  timer 5 ms -> serial_rx_<id>
 unplug, hang       of every port not in         tx_callback()        <- serial_tx_<id>
                    known_ports; then adds       (one mutually exclusive
                    or replaces nodes            callback group per node)
      |                      |                          |
      |                      +---- node_map, known_ports, is_connected()
      v                                                 |
 firmware: send_frame, receive_frame   <---- frames ----+
           tasks that use Rx_16Data and fill Tx_16Data
```

### Components

| component | state it keeps | operations | hard because |
|---|---|---|---|
| hot-plug core (`src/main.cpp`) | `node_map`, `known_ports`, `running`, the executor's node list | scan, add node, replace node, shut down | three kinds of threads; `known_ports` is copied before a scan of seconds; a replacement is four steps while callbacks run |
| port scanner (`src/port_scanner.cpp`) | a descriptor while it reads; the result map | list, skip, open, `read_frame`, close | starts anywhere in a stream; a timeout that counts reads in vain |
| `SerialBridgeNode` (`src/bridge_node.cpp`) | `fd_`, `connected_`, `rx_buffer_`, `last_rx_time_`, `last_reconnect_attempt_`, status counters | `update`, `try_open_port`, `close_port`, `tx_callback`, `maybe_log_status` | retries and timeouts in real time under a late executor; frames cut by reads; lost and damaged bytes |
| frame protocol (both ends) | none | encode, decode, checksum | signed words in two bytes; an XOR checksum that does not cover START |
| firmware reception (`serial_task.cpp`, `serial_frame.cpp`) | `rx_state`, `rx_id`, `rx_len`, `rx_buf`, `rx_index`, `rx_checksum`, `Rx_16Data` | `receive_frame`, `send_frame` | a byte is never looked at twice; two versions of the state machine |
| firmware tasks of ESP32, ESP32-S3, XIAO (`main.cpp`, `pin_ctrl_*.cpp`, `pid_task.cpp`) | `Rx_16Data`, `Tx_16Data`, local copies, pins, pulse counters | output, input, PID, sensors, each a FreeRTOS task; one set of tasks for each mode | words shared by two cores without a lock; tasks configure pins at their own time; a counter read and cleared in two calls |
| Robomas CAN control (`robomas.cpp`) | encoder totals, control state per motor | receive CAN frames, control step, send currents | unwrapping of a 13-bit angle when the driver's queue loses frames |
| FOC control (B-G431 `main.cpp`) | controller and target of the motor, `last_rx_ms`, `last_tx_ms` | loop | commands pile up, and are cut off by a full buffer; the documented command timeout is not there |
| SDM15 lidar (`SDM15.cpp`) | packet under way | parse | no resynchronisation |
| STM32 and Arduino loops (`io.cpp`, `main.cpp`) | `Rx_16Data`, `Tx_16Data` | one loop: receive, outputs, inputs, send | the same words in another order, other pins |
| terminal dashboard (`graphical_ui.hpp`) | lines per device and section, `initialized`, `g_anim_running`, `g_anim_thread` | set, erase, render, animate, shut down | set and erased from different threads; a thread started by the first drawing and joined at the end |
| parameters, launch files | none that changes | read at start | they are the constants of the models |

### Interactions

* Scanner and nodes meet in `known_ports` (which ports a scan skips), in
  `node_map` (which nodes exist) and in `is_connected()`, which reads an atomic
  that `update()` writes on an executor thread.
* Nodes and firmware meet only in the byte stream of the serial line.
* The main thread waits in `executor.spin()` until a signal, then sets
  `running` and joins the scanner.

### What would make it wrong

* Core: two readers on one port or one device; a port lost from, or stuck in,
  `known_ports`; a device that is there but never bridged; a shutdown that
  hangs; a node destroyed while it executes.
* Node: a live link closed, a dead one kept; bytes of two sessions in a frame;
  retries without pause; data published that was not sent, or withheld.
* Firmware: a command taken over that was not sent, a byte stored outside
  `rx_buf`, reception that never comes back after damage.
* Scanner: a device not recognised, or recognised as another; a scan that never
  ends.
* Tasks: an output set from an old command after a newer one, or from half of
  one; the last command missed; a pin another unit took; half a measurement.
* Shafts: a turn or a pulse lost or counted twice.
* Dashboard: a row that tells the wrong state for good, a hidden cursor or a hung
  or aborted process at the end.

`PROJECT.json` lists these hazards at their lines, with the properties that
cover each.

## 2. Modules

| module | what it is | code |
|---|---|---|
| `PortRegistry` | abstract: IDs are bound to free ports, never to excluded ones | promise of `src/main.cpp` |
| `Hotplug` | scanner thread, executor, main thread, devices | `src/main.cpp`, the control flow of `src/port_scanner.cpp` and of the node's callbacks |
| `HotplugProofs` | proofs about it, and of its refinement of `PortRegistry` | |
| `BridgeLink` | one node's connection in time | `update`, `try_open_port`, `close_port`, the failing `write` of `tx_callback` |
| `BridgeLinkProofs` | proofs about it | |
| `FrameCodec` | frames, words, checksums | `tx_callback`, `send_frame`, the decoders |
| `Messages` | the size of messages, for both ends | |
| `BridgeRx` | the node's parser, between a driver buffer and `publish` | `update` |
| `McuRx` | the firmware's receiver, both versions | `receive_frame` |
| `ReceptionProofs` | proofs about the codec, `McuRx` and `BridgeRx` | |
| `ReadFrame` | the scanner's reader | `read_frame` |
| `ReadFrameProofs` | proofs about it | |
| `FocLoop` | the motor firmware's loop in time | B-G431 `loop`, `apply_rx`, `serial_task_update` |
| `FocLoopProofs` | proofs about it | |
| `McuSteps` | the words in which images are written down | |
| `Esp32Images`, `Esp32S3Images`, `SmallBoardImages` | what each task of each mode does, step by step | `main.cpp`, `pin_ctrl_init.cpp`, `pin_ctrl_task.cpp`, `pid_task.cpp`, `robomas.cpp`, `io.cpp`, `defs.hpp` of the boards |
| `CommandRegister` | abstract: each output follows one command word, never backwards | promise of the firmware |
| `McuTasks` | a board that runs one image, its tasks interleaved | the shared words, `serialTask`, `xTaskCreate`, `send_frame` |
| `McuTasksProofs` | proofs about it, and of its refinement of `CommandRegister` | |
| `Shaft` | positions from CAN frames and from pulse counters | `twai_receive_feedback`, the loop around it, `pid_control` |
| `ShaftProofs` | proofs about it | |
| `Dashboard` | the dashboard and all threads that draw on it | `graphical_ui.hpp`, `maybe_log_status`, `close_port`, the threads of `main.cpp` |
| `DashboardProofs` | proofs about it | |
| `MC...` | instances for TLC | |

`MCHotplug` extends `Hotplug`, which has an `INSTANCE` of `PortRegistry`;
`McuTasks` has one of `CommandRegister`, and `MCMcuTasks` gives it the images of
all boards.  `BridgeRx` and `McuRx` extend `Messages`, which extends
`FrameCodec`, as `ReadFrame` does.  `ReceptionProofs` extends both ends, so that what it
shows of the codec serves both; this is why the specification of `BridgeRx` has names of
its own (`BridgeSpec`, `BridgeNext`).  The connection
(`BridgeLink`) and the bytes (`BridgeRx`) of a node are modelled apart: they
meet in `rx_buffer_`, which `BridgeLink` keeps as the set of sessions its bytes
are from, and in `Reopen` of `BridgeRx`, which is what a reconnection does to
the parser.

Operators whose names add a word to that of the operator after them
(`KnownWithNone` before `KnownWith`, `SizeOfShort` before `SizeOf`) are
plausible mistakes: the operator with the mistake, kept beside the right one
and used nowhere.  `PROJECT.json` names, for each property, the mistake that
violates it.

### Hotplug

* `idOf`: the `DEVICE_ID` flashed into each device, one of the possible
  `Flashings`; it never changes.
* `at`, `silent`: where each device is plugged in and which firmware is hung;
  changed by the user and the firmware at any moment (`Plug`, `Unplug`, `Hang`,
  `Resume`).  `events` counts these, and the failures of `open` and of a frame
  that is read; `MaxEvents` bounds their number for each flashing.
* `port`, `fd`, `connected`, `stage`: the node of each ID in `node_map`, its
  descriptor (a device, `Gone` once the device was unplugged, or `Closed`), its
  atomic and which callback executes.  A callback is two or three steps, so the
  scanner can come in between: `CallbackBegins`, then `CallbackReturns` or
  `CallbackCloses`, or `UpdateOpens` (up to the successful `open`) and
  `UpdateConnects` (from there to `connected_ = true`).
* `scanPc`, `todo`, `scanPort`, `scanFd`, `found`: the scanner.  `ScanBegins`
  copies `known_ports` and lists the ports; `ScanOpens`, then `ScanDetects` or
  `ScanFails`, for each port left; `ScanEnds`; then the merge in ID order:
  `MergeNew`, `MergeKeeps`, or `MergeFindsLost`, `MergeRemoves`,
  `MergeReplaces`; `MergeEnds`.
* `executing`, `known`: the executor's nodes, `known_ports`.
* `orphans`, `leaked`: callbacks that execute in a node that was destroyed, and
  descriptors such a node left open.  An orphaned callback goes on with its
  copy of the state, or brings the process down (`OrphanCrashes`): reading a
  destroyed object is undefined.
* `ok`, `proc`: `rclcpp::ok()` and the main thread.  `MergeNew` and
  `MergeReplaces` after `ok` is false crash: a node cannot be constructed in a
  context that has been shut down, and nothing catches the exception.
* `map_mutex` is left out: only the scanner thread takes it.

What decides whether a retry interval or a timeout has elapsed is a choice
here; `BridgeLink` has the clock.

### BridgeLink

One tick is one timer period.  `steady_clock` time points are ages, capped at
`Horizon`, beyond which no comparison of the code tells them apart.  `late`
counts the ticks since `update()` last looked at the data and never exceeds
`MaxLate`: this stands for a busy executor, and for the errors of `read()` that
make `update()` return early.  `kernel` and `rxBuffer` hold tags, `"now"` for
bytes of this session and `"before"` for older ones; `tcflush` may fail, and
`flushed` remembers it.  One `read()` takes 512 bytes at most and the driver holds
some 4096: `backlog` counts the reads that what it holds still takes, up to
`MaxReads`, and each of them sets `last_rx_time_`, however old its bytes are.  `silence`, `waited` and `retried` are observers: they
appear in properties only.

### FocLoop

One tick is a millisecond.  A loop is cut at `serial_task_update`: `Serial`
(receive one frame's bytes, send when due), `Apply` (`apply_rx`), `Move`
(`motor.move()`, `update_tx`, the next `loopFOC`); at most `LoopTime` passes
between two `Serial`.

* `first`, `second`: the receive buffer.  A loop reads 52 bytes, one frame's, and the
  buffer has 63, so it holds what two loops read.  Of such a batch the model keeps
  whether a whole command ends in it, and whether a frame is cut off at its end (`torn`):
  `Tears` is the buffer getting full in the middle of a frame, which takes `FillTime`
  since the last read.  `Init` has the batches that `setup()` can leave, during which
  nobody reads: a command and the beginning of another, for example.
* `astray`: `receive_frame` may be in the middle of a frame that was cut off.  It then
  takes the next frame for the rest of it, so this one may be lost; after it the state
  machine is in step again.  What this rests on of the bytes is said at the head of the
  module; other damage is `McuRx`'s.
* `rxAge` and `txAge` are the differences `millis() - last_rx_ms` and
  `millis() - last_tx_ms`; `draining` is the time until there is room for a frame.
* `SetupTime` is the time since the last frame of `setup()`: a `delay(50)`, and then as
  long as `initFOC` takes.
* `sent`, `began`, `frameAge`, `latest`, `latestAge` and `exposed` are observers;
  `exposed` says that the last command came behind one cut off.

### FrameCodec, BridgeRx, McuRx, ReadFrame

A byte has `Base` values, a power of two up to the 256 of the code, and a word
`Base * Base`; the instances use 3-bit bytes and 6-bit signed words, which keeps
carry, sign and the accidental equality of data and header.  Encoding, decoding and
checksum are the code's, with XOR bit by bit.

`BridgeRx` keeps the driver's buffer, `rx_buffer_`, and what was published.
`Parse` is the loop of `update()`, a `Turn` at a time, with as many turns as there
are bytes (each takes a byte or ends the loop); `Deframe` is a reference that knows
nothing of reads: it takes the stream as a whole.  The state of `McuRx` is that of the
C++ state machine, field by field; the variable `strict` chooses the version
(ESP32, STM32 and Arduino, or B-G431).  `ReadFrame` starts at any position of a
device's periodic stream.

### McuTasks and the images

An image is data: for each task a sequence of steps done once (`boot`) and one
repeated for ever (`loop`).  A step is one access to something shared: a word of
`Rx_16Data` is copied, an output is set from the copy, a sensor goes to a word of
`Tx_16Data`, pins are configured, a task is started, a frame is received or sent.
The three image modules are the tasks and `setup()`s of 15 modes of five kinds of boards,
with the pins of `defs.hpp`; the STM32 mode is there once for each board of its
`platformio.ini`, which makes 16 images.  `Serial` is a peripheral like others: its pins
are the board's (UART0, the USB port of the chip, the port to the ST-Link), and receiving
and sending need it.  Pins are those that `defs.hpp` and the README name; the numbers
the Arduino core gives them are its own matter.  `McuTasks` runs the steps: each is an action, so two
tasks interleave at any point, as on two cores; `setup()` and `loop()` of STM32 and
Arduino are a single task.

* `pc`, `started`: where each task is, which ones were created.
* `frames`, `storing`, `rx`: a command frame is accepted as a whole
  (`FrameAccepted`, what `McuRx` shows of the bytes), with any number of words,
  which are stored one by one (`StoreWord`).  A word, a copy and an output hold the
  number of the frame their value comes from.
* `copy`, `out`: local variables of the tasks, outputs.
* `wired`: which peripheral each pin was last configured for.
* `tx`, `echo`, `sending`, `high`: telemetry words and the frame `send_frame` is
  making of them, a byte at a time.
* `accepted`, `overwritten` are observers.

Only `RxWatched` and `TxWatched` words are followed; steps about others are left
out of `Program`, and the words do not interact.  Which task has what priority is
left out: the ESP32 has two cores, and a task blocks in every pass.

The ESP32-S3 modes `MODE_ROBOMAS` and `MODE_ROBOMAS_AD` are not images: the second
refers to an `Output_Task` this firmware does not have, and in the first a motor may
be sent the current it reported and not the one commanded (see below), so "an output follows a word" says
nothing of it.

### Shaft

One state machine for the two ways a position is kept; `pc` tells which task it is
in, and the two never mix.  In the first, `Millisecond` turns every motor by at most
`MaxStep` and puts a frame of each into the driver's queue, which keeps the oldest
`QueueLen`; `TakeFrame` and `SkipFrame` are the rounds of the receiving loop;
`ticks` bounds a pass to `PassTicks` before its `vTaskDelay`.  `sampled` and
`slipped` are observers.  In the second, pulses come at any moment, also between
`GetCounter` and `ClearCounter`; `gap` counts these.

### Dashboard

A function of `graphical_ui.hpp` takes `g_mutex`, changes a line and draws before it
leaves: one step, possible while `lock` is free.  The animation thread is three
(`AnimTests`, `AnimLocks`, `AnimDraws`), because it is started and stopped by others
in between.  A node's callback goes through `step`: closing a port is `fd_` and
`connected_` first, the line afterwards; a status line is composed from `connected_`
and drawn later.  Callbacks of replaced nodes go on as `orphans`, and draw.  Of a
row, `[ON ]` or `[OFF]` is kept.  `StartAnimation` has the rule of `std::thread` that
assigning to a joinable thread ends the process, `Exits` that destroying one does.
`present` means plugged in and sending; `Opened` lets an `open` fail or succeed
against it, which is an event.

## 3. Runs

| run | question | bounds |
|---|---|---|
| `hotplug` | Are readers, ports and `known_ports` right in every interleaving, do bindings implement `PortRegistry`, is an ID whose device stays served in the end, does SIGINT end the process? | 2 devices, 3 ports (1 excluded); 3 events with an ID each, 2 with one ID for both |
| `hotplug_swap` (violated) | May a device use the port of another, lost one? | 2 events |
| `hotplug_replace` (violated) | Is replacing a node harmless? | 2 events |
| `foc` | When does a command drive the motor, when is telemetry sent? | period 3, loop 2, fill 2, drain 5, setup 6 ticks; 4 commands, 2 batches |
| `foc_stop` (violated) | Is the motor stopped when commands stop? | fill 3, drain 2, timeout 4 ticks |
| `link` | Timeouts, retries, sessions | timeout 4, interval 3, lateness 2 ticks |
| `bridge_rx` | Is what is published what was sent, however reads cut it? Does reception recover? Does a complete frame wait only when `MAX_FRAMES` ended the update, never before damage, and does it come out then? | frames of 8 bytes, some with a frame of 4 in their data, reads of up to 8, 16 bytes in the driver, `MAX_FRAMES` 2, 1 damaged frame |
| `mcu_rx` | The same for commands, both versions | 16 bytes on the line, 1 damaged frame |
| `read_frame` | Is a device recognised, as itself? Does the read end, if start bytes come or the port falls silent? | 3 frames, pauses of up to 2 reads, timeout 5, 2 damaged bytes |
| `mcu_tasks` | In every image: pins (unless `Miswired`), outputs that follow one word, whole measurements, the abstract register, the last command | 16 images, 2 command frames with any number of words, 4 command and 3 telemetry words |
| `shaft` | Are positions exact, when are turns lost, which pulses? | 3 motors, 8 counts per turn, a queue of 4 frames, a pass of 1 tick, positions up to 11, 2 pulses |
| `dashboard` | Does the process end clean, do rows tell the truth in the end? | 1 device, 2 events |

Why the bounds are enough.  Two devices make every conflict of the core: two
IDs for one port, one device at two ports, two devices with one ID; a third
repeats one of them.  Three events are a device unplugged, plugged in elsewhere
and hung or unplugged again, or two devices changed in turn; with one ID for
both, two events are the loss of one and a move or hang of the other.  The
proofs remove these bounds for safety.  In
`link` an interval shorter than the timeout and a lateness of more than one
tick give every order of the deadlines; the proofs hold for all values.  In
`bridge_rx` a read is up to a frame and the driver holds two, so frames are cut at
every byte and joined with the next; `TurnsSuffice` holds, as it does in the code, where
64 turns exceed the 10 own frames, of 52 bytes each, that a read of 512 bytes and the
rest of one frame can hold.  Damage can turn data into 64 frames without words, of 4
bytes each, in one read: then `MAX_FRAMES` ends the loop, and the rest waits for the next
update that reads something.  The run has this case: a damaged LEN makes a frame out of
data, with no words, an odd LEN or too long a one, and in states TLC reaches a complete
frame does wait behind `MaxFrames` others.
In `read_frame` two damaged bytes can be start bytes before anything: before a LEN that
is too long, before bytes without the checksum, before each other.
In `foc` the buffer can fill in a loop, and a frame takes longer than a period to drain,
so that `send_frame` finds no room and the bound on the gap is met with all its terms.
One damaged frame is followed by any number of good ones, which is what
`Resynchronises` needs.

`mcu_tasks` watches the first word of each group of `frame_data.hpp` (motor 1,
5 and 9, 17), and in telemetry words 0, 1 and 11: tasks treat the words of a group
alike, one after the other, and words do not interact.  With two command frames there
is an old and a new value for every step of a task to mix.  The proofs hold for any
images that meet the `ASSUME`s of `McuTasks`, any words and any number of frames.
`shaft` scales the 8192 counts, the queue of five frames and four motors down to 8
counts, 4 frames and 3 motors: the queue still has room for one frame of each motor
and not for two, so it overflows in a pass that takes one more tick, and the motor
that is looked at is the one to lose its frames.  Positions run over more than one
turn each way.  With `PassTicks = 2`, or with `EncoderMax = 6`, `NeverSlips` fails:
the bound is sharp.  `dashboard` also passed, on the side, with one device and three
events and with two devices and one event; a second device shares the lock and
`initialized` only.

Type invariants are checked in `hotplug` and `link` and proved for `Hotplug`,
`BridgeLink`, `McuTasks`, `Shaft`, `FocLoop`, `Dashboard`, `McuRx`, `BridgeRx` and
`ReadFrame`.

Deadlock is checked in every run; terminated processes stutter by an action of
their own (`Terminated`, `Returned`).

### Fairness

* `Hotplug`: the scanner thread and the main thread run (weak fairness); a
  timer comes again and again (strong fairness of `CallbackBegins(i, "update")`,
  because the callback group may be busy with a message at any given moment); a
  callback that has begun returns (weak); and one that keeps being able to open
  the port or to notice that the device is gone or silent does so at last
  (strong: the interval and the timeout elapse, `BridgeLink` shows by when).
  Nothing is assumed of users, nor of messages.
* `BridgeLink`: time passes, the timer fires, and a port tried over and over
  while its device is plugged in opens.
* `BridgeRx`, `McuRx`: senders send periodically, receivers run periodically.
* `ReadFrame`: the loop runs on.
* `McuTasks`: every task runs on (weak fairness): it blocks in each pass
  (`vTaskDelay`), so a task of lower priority is not starved.  That a whole frame is
  received is not assumed; `MaxFrames` ends the commands.
* `Dashboard`: every thread runs, and one that waits for the lock gets it in the end,
  because the animation sleeps most of its period without it (strong fairness); the
  status period elapses, and again and again a read ends between two frames, which
  `maybe_log_status` needs (bridge_node.cpp:208, see below); a scan ends.
* `Shaft`: none, all its properties are safety.

### Disagreements found

* `hotplug_swap`: a lost node keeps its port in `known_ports`, so a device with
  another ID plugged into this port is never scanned, and the lost node reopens
  the port and drops every frame of it.  These bytes keep the node connected,
  so its own device, plugged in elsewhere, is not bridged either.  README.md
  says another port "is handled transparently".  `EventuallyBridged`, which
  holds, leaves such ports out by `PortsOwn`.
* `hotplug_replace`: `remove_node` does not wait for a callback that executes.
  The node is destroyed under it, or destroyed with a port it has just opened:
  there is no destructor that closes `fd_`.  The comment at `main.cpp:89` says
  the race is harmless.  The conjuncts `orphans = {}` and `leaked = {}` are
  violated each on its own.
* `foc_stop`: nothing uses `CMD_TIMEOUT_MS` and nobody calls
  `serial_last_rx_ms`: the motor goes on with the last command for ever.
  config.hpp and the firmware's README say that it is stopped.

In the same firmware `FORCE_VELOCITY_MODE` (config.hpp:53-55: `RX_MODE` is
ignored) and `ALLOW_IMPLICIT_ENABLE` are 1 and not used either, the target
angle is passed to SimpleFOC in degrees, and the slots for target, mode and
voltage limit are never written.

### Disagreements without a run

Found while modelling; most were seen in TLC on an instance of these modules.

Bytes and frames:

* After a lost byte, reception may not come back.  The checksum covers ID, LEN and
  DATA by XOR, which does not depend on their order.  If data contain START, a byte
  and LEN again, the frame rotated to this START also has a right checksum.  The
  receivers of ESP32, STM32 and Arduino can follow the rotated frames for as long as
  the data stay the same, although serial_task.cpp:47 says START is there to recover
  from damaged frames.  With such `Payloads` the conjunct `CommandsResume` of
  `Resynchronises` of `McuRx`, and `BridgeResynchronises`, fail.
* For the same reason a scan that begins inside such data reports the device under an
  ID it does not have (`IdentifiedRight` of `ReadFrame` fails).
* Each read in vain of `read_frame` takes VTIME (100 ms) and a millisecond but counts as
  one, so a silent port takes 2000 x 101 ms, not `timeout_ms = 2000`.
* The first retry after the constructor's failed `open` comes with the first
  `update()`, not `reconnect_interval_sec` later as the warning says (`RetriesPaced`
  leaves this one out by `retried`).
* Only reads in vain count towards the timeout of `read_frame`
  (port_scanner.cpp:130-142), so a port that sends on and on without a start byte, as a
  sensor at another rate may, holds the scanner for ever.  `Ends`, which holds, asks for
  start bytes or for silence; without this it fails in TLC on such a stream.
* The receive buffer of the B-G431 firmware overflows in `setup()` in the middle of a
  command, and `receive_frame`, which has no timeout within a frame, takes the next one
  for the rest of it.  If that is a stop, the motor goes on with the command before until
  another comes, also in a state TLC reaches, although the firmware's README.md:56 says
  that `enable=0` sets the velocity target to 0.  `CommandsPrompt`, which holds, leaves
  the first command after one cut off out by `exposed`.
* `update()` returns at an incomplete frame without `maybe_log_status`
  (bridge_node.cpp:208), the only such path: a node whose reads always end within a
  frame shows no status line.
* `SerialBridgeNode` has no destructor that closes its port or erases its line.

Tasks:

* A telemetry word can be torn: `send_frame` reads it once for each byte
  (serial_task.cpp:145-146), and `Input_Task` can write it in between.  `WordsWhole`
  of `McuTasks` fails: high byte copied, word sampled, low byte copied.
* `HC_SR04_Task` writes flag, distance and width one after the other, and a frame can
  be made in between: flag 1 with distance 0.  `MeasurementWhole` is about the words
  between two passes, not about frames.
* Five of the 16 images are `Miswired`, and `Configured` leaves them out; none of them
  would pass (`MiswiredAssumption`).  `Input_Task` reads SW5 to SW8, which are pins of
  encoders 3 and 4 and configured as such: `MODE_INPUT` and `MODE_ROBOMAS_PLUS_INPUT` of
  the ESP32.  In its `MODE_DEBUG`, `PID_Task` reads counters and drives pins that nothing
  configured; the S3 has `md_enc_init` for this.  And both
  STM32 images lose Serial, whose pins `io_init` gives to switches 2 and 3 on the F767ZI
  (PD_8, PD_9) and to servos 3 and 4 on the F446RE (PA_2, PA_3): defs.hpp:162 says that
  the pins avoid Serial.  On the F446RE the LED (PA_5) is also pin B of encoder 5, on the F767ZI
  (PB_0) the direction of motor 1; nothing uses the LED after `setup()`.
* `Output_Task` gives the servo words their initial angles when it starts, after
  `serialTask`: a command accepted before is lost (`overwritten` in `CatchesUp`).
* In `MODE_ROBOMAS_PLUS_INPUT` words 11 to 16 are written by both `M2006_Task`
  and `Input_Task`, switches and angles in turn.
* Commands never time out on any board.
* XIAO: config.hpp:32 speaks
  of GPIO 43 and 44, the pins are 4 and 3.  S3: the lidar and CAN share pin 3.

Motors:

* `gm6020_Task` takes its targets from `Rx_16Data[0..3]`, the comment at robomas.cpp:306
  says 5 to 8.  Its feedback accepts 0x205 to 0x207, so a fourth motor is never heard.
* S3 `M2006_Task` copies the commanded currents to `c_m2006`, where feedback received next
  stores the measured ones; these are sent then.
* `twai_transmit` may block for 20 ms.  The driver's queue of five frames then keeps
  the oldest, and turns can be lost (`NeverSlips` with longer passes).
* Pulses between `pcnt_get_counter_value` and `pcnt_counter_clear` are lost; angles
  are cut to 16 bits without a check.
* SDM15: packets are taken nine bytes at a time from wherever the stream is; once out
  of step, only chance brings it back.

## 4. Proofs

Assumptions are the `ASSUME`s of the modules.  `Hotplug`, `BridgeLink`, `FocLoop`: IDs and ports are
numbers, `NoPort` is not a port, devices and descriptor states differ; timeouts,
period and lateness are positive; `setup()` of the motor firmware sends its last frame
a period or more before the first loop, and it has drained by then (`delay(50)`).  `McuTasks`: the steps
of an image name words, tasks and outputs that exist; an output is driven by one task,
once in a pass; words are preset by the task that copies them, before its loop; a task
copies a word before it drives from it and does not break off such a pass; one task
measures and then samples what it measured (`MeasureAssumption`); and each peripheral a
task uses is given its pins by an initialisation that comes after every other claim to
one of them, and that the task does itself or is started after (`WiringAssumption`, for
the images that are not `Miswired`).  TLC evaluates these on all images of the
repository.  `Shaft`: an even number of counts.  `Dashboard`: `NoNode` is no node.
`Messages`, `BridgeRx`: the length of `Rx16Num` words fits into a byte, and
the frame into the driver's buffer (52 bytes in 4096).  Nothing else is
assumed of the constants: any number of devices, ports, IDs (also shared IDs), words,
tasks, motors, frames and events, and any bytes.

Some theorems need more, which they state.  It is about sizes, speeds and devices,
and it holds in the instances that TLC checks:

* `TurnsSuffice`: `MAX_FRAMES` frames are more bytes than a read and the rest of a
  frame.  In the code 512 + 52 <= 64 * 52.
* `RoomAndTime`: the driver's queue has room for a frame of each motor, and a motor
  turns less than half a turn in two passes and a millisecond,
  `(2 * PassTicks + 1) * MaxStep < HALF_ENCODER`.  With passes that last up to a
  millisecond before their delay that is 1365 of 8192 counts in a millisecond, a rotor
  below 10000 rpm; at the 18000 rpm an M2006 can reach (2458 counts) it holds only
  if a pass is over within the millisecond it began in.
* `PlainDevice`: what a device must be like for a scan to find it.  Each start byte it
  sends begins a frame of its own, sound and short enough for `buf`, with no other start
  byte inside; and it pauses only between frames and for less than the timeout.

**Hotplug.** `IInv` is inductive: type correctness; where the scanner is and what it
may hold then (`ScanShape`); the ports of a scan are different from each other
(`ScanDistinct`); a node of `node_map` is in the executor except while it is being
replaced (`NodeShape`); a live descriptor leads to the device at the node's port
(`DescriptorsLive`); and the safety properties themselves.  The heart of it is
`ScanAvoidsNodes`: `known_ports` is only copied when a scan begins, but bindings
change only by the scanner's own merge, after the scan, and each merge step binds a
port that is found, hence neither bound nor found twice.  This is why the stale copy
is safe, and why `ScanDistinct` is needed to pass from one merge step to the next.

* `TypeCorrect`, `Inductive`
* `PortsNeverShared`: `ScanAvoidsNodes`; `KnownPortsAlwaysExact`; `PortsAlwaysDistinct`
* `ExcludedNeverTouched`: `ExcludedUntouched`
* `OneReader`: `SingleReader`, from `IInv`
* `ImplementsRegistry`: `Spec => RegistrySpec`; every step that changes `port` is a
  `Construct`, which is a `Claim`
* `BindingsExclusive`: the registry's `Exclusive`

**BridgeLink.** `LinkInv` is inductive: how old the last byte read can be
(`Freshness`: less than the timeout plus the lateness), what an unread byte says of
the last arrival (no more than a lateness for each read done, `Residue`), that
`kernel` and `backlog` agree (`Backlog`), that the silence is at least the age of the last read
(`Arrivals`), which sessions are in the buffers (`Sessions`), and that the time
since a loss is at least the age of the last attempt (`Pacing`).  The clocks are
bounded, so `AgedAge` and `HorizonFar` say that the cap is beyond every comparison.

* `LinkInvariant`, `TypeCorrect`
* `DeadLinksClose`: a dead link is closed within
  `RxTimeout + (MaxReads + 1) * MaxLate`; with a bound one tick lower TLC finds a
  counterexample, so it is exact
* `TimeoutsJustified`: a live one only after `RxTimeout` of silence
* `NeverSpliced`: `NoSplice`
* `AttemptsPaced`: `RetriesPaced`

**FocLoop.** `FocInv` is inductive: `Queue` says how old the latest command can be by
its batch (a loop more in the first than in the second), that the state machine is in
step when it comes to it unless the command is `exposed`, and that without a
command in the buffer the latest has gone on to `rx`, then to the motor.  `Telemetry` says that
before the first frame of `loop()` everything is as old as `setup()` left it, and that
afterwards `last_tx_ms` is the time of the last frame, or of an attempt that found no room
while this frame was still draining: no two refusals add up to more than that.

* `FocInvariant`
* `Prompt`: `CommandsPrompt`, within three loops
* `Regular`: `TelemetryRegular`, for any time a frame takes to drain and any `SetupTime`
* `Spaced`: `TelemetrySpaced`, a period apart and never without room

**McuTasks.** A command travels from `accepted` to `rx`, to a copy, to an output.
`RegisterInv` says that each is at most as recent as the one before (`Newest`,
`CopiesOlder`, `OutputsOlder`); presets set a word back, which is harmless only because
nothing was copied from it yet (`PresetsFirst`).  It is what makes an output, set from a
copy that may be stale, never go backwards.  For `DriversAgree` a second invariant,
`Shows`, follows a pass: outputs already set in it, and all outputs before the word is
copied again, have the value of the copy.

* `TypeCorrect`, `RegisterInvariant`
* `ImplementsCommandRegister`: `Spec => ImplementsRegister`; `StoreWord` is an `Accept`,
  `DriveOutput` an `Apply` or a stutter, every other step a stutter
* `DriversAlwaysAgree`: `DriversAgree`

A sensor task writes its words one after the other, so the invariant for
`MeasurementWhole`, `MeasureInv`, says what a pass has done so far: the words already
sampled in it are of the last measurement (`SampledNow`), before the first sample all
are of the same one (`SampledBefore`), and an image without a measurement never has one
(`NothingMeasured`).  For `Configured`, `WiringInv`: once a task is past the step that
secures the pins of a peripheral they stay its own (`PinsSecured`: every other claim
came before it), and a task that depends on the step is not started before it
(`UsersWait`).

* `MeasurementAlwaysWhole`: `MeasurementWhole`
* `AlwaysConfigured`: `Configured`

**Shaft.** `AngleInv` says that the frames in the queue carry the angle within the turn of the
position they were made at, and that the last angle taken and the turns counted add up to
`sampled`, for motors that have not slipped.  The step is arithmetic modulo the counts of
a turn: of two positions less than half a turn apart, the difference of the angles
tells the turn.

* `AngleInvariant`, `AnglesAlwaysExact`: `AnglesExact`
* `PulsesAlwaysKept`: `PulsesKept`

That no turn is lost although the driver loses frames needs to know which it
keeps.  `SlipInv` says of each motor that the frames of it in the queue are near each other
(`FramesNear`), and how far it may have turned since the last of them (`LagBound`): by
less than half a turn when the queue is empty, by what two passes allow otherwise.
The first frame of a pass finds an emptied queue with room for one of each motor, so a
motor is never more than two passes without a frame kept.

* `NeverSlipsInTime`: `RoomAndTime => (Spec => []NeverSlips)`
* `PositionsExact`: with it, the position of every motor is that of the last frame taken

**Dashboard.** `IInv` adds to the type: the animation runs exactly while the dashboard is
initialised, and is joinable exactly while its thread is there (`AnimationShape`); when main
is past `spin()` no callback is left, past `join()` the scanner has ended (`MainShape`), so that
nobody can draw after `shutdown()`.

* `DashboardInvariant`, `ExitAlwaysClean`: `ExitClean`

**The codec.** XOR, checksum and `FlattenSeq` are recursive functions.  `Induct` is
induction over the natural numbers as a statement about a set, which follows from
`WFMin`; with it the values of these functions are shown to exist and to be what their
equations say (`XorExists`, `SumOf`, `FlatOf`), and then what reception rests on: a byte
added to a checksum and added again is gone (`XorSelf`), a frame's bytes are bytes
(`FrameBytes`), and a word put into two bytes and back is the same word
(`WordRoundTrip`), for bytes of up to eight bits.

**McuRx.** `RxInv` is inductive: types; the running checksum is that of the bytes
read of the frame (`SumInv`); what each state says of the length (`LengthInv`, with
a LEN of 0 for which a data byte is stored all the same); and `CommandsExact`:
what has been read of a frame, with the line, is the frames of the messages not taken
over.  One lemma for each state takes a byte on: on an undamaged line the byte read is the
one that the frame has at this place (`NextByte`), so a checksum always fits and the words
are the message's (`FrameComplete`).

* `Invariance`, `TypesRight`
* `NeverOverrun`: `BufferInBounds`, for any bytes
* `NothingLost`: `CommandsExact`
* `TakenInOrder`: `CommandsInOrder`

**BridgeRx.** The loop of `update()` is treated by the rule for loops: what each `Turn`
preserves, `Parse` does (`LoopRule`), and it ends because it ran out of turns or of
whole frames, never for want of bytes to count (`LoopEnds`).  For an undamaged line,
`BridgeInv` says that what has arrived and was not published is the frames of the messages
sent; a turn takes one frame, or waits if it is cut (`OfStream`).  For any
bytes at all, the reference `Deframe` of a stream is one message and `Deframe` of the rest
when it begins with a whole frame (`TakeFrame`), and that of the rest when a byte is
dropped (`DropByte`); both because scanning a suffix is the same as scanning from a later
place (`DeframeShift`).  So a turn keeps what was published with what a scan finds in the
rest (`TurnFinds`), whatever is still to arrive.  `BridgeRest` and `BridgeRoom` say what an
update leaves in `rx_buffer_`.

* `MessagesWhole`: the type invariant, for any bytes
* `FeedbackExact`: `StreamExact`
* `AnyChunks`: `ChunkingIndependent`, for any bytes and any reads
* `WithheldOnlyAtLimit`: an update that publishes fewer than `MAX_FRAMES` withholds
  nothing, for any bytes
* `NothingLeftWaiting`: `TurnsSuffice` => `NothingWithheld`, which adds that before damage
  no update publishes as many

**ReadFrame.** `ReadInv` says that `buf` is empty or holds the bytes of the stream from
one of its start bytes on (`InsideFrame`), and that the reads in vain so far are those of
at most one pause (`OnePause`): so a `PlainDevice` is found before the timeout, from
wherever the scan begins.  That `buf` is never overrun needs none of this.

* `NeverOverrun`: the type invariant, with the bounds of `buf`, for any device
* `DeviceRecognised`: `PlainDevice => (Spec => []Recognised)`
* `DeviceIdentified`: `PlainDevice => (Spec => []IdentifiedRight)`

Only model-checked: liveness (`EventuallyBridged`, `ShutdownCompletes`, `StreamConnects`,
`Resynchronises`, `BridgeResynchronises`, `Ends`, `CatchesUp`, `RowsTell`, `ShutdownEnds`), which rests on
fairness and ENABLED, and these the prover does not handle.

## 5. Not modelled

* The counters of the status line, log texts, layout and colours: no behaviour depends
  on them.
* The regulation loops (PID of `pid_task.cpp` and `robomas.cpp`): floating-point arithmetic
  on values the models do not have; they change no state that others read except outputs.
* The packets of the SDM15 lidar: a library taken over, of which the tasks see a good
  frame or none.
* ESP32-S3 `MODE_ROBOMAS` and `MODE_ROBOMAS_AD`, see `McuTasks and the images`.
* termios settings and `poll` internals; `write()` that is short or fails with
  another error: the frame is dropped or cut, which is `WriteCut` of `McuRx`.
* Parameters are constants; `launch` files start the process.
* PWM, servo, ADC and sensor drivers: register and library calls with no state of
  the program.
* Generated, vendored and documentation files.

## 6. Plan

What could follow, in this order:

1. A composition of `BridgeLink`, `BridgeRx` and `McuRx`: a message published while
   connected arrives, or the connection is lost; and of `FocLoop`'s telemetry with
   `BridgeLink`: `TelemetryRegular` is what keeps a live link from `rx_timeout`.
2. `McuTasks` with the bytes of `McuRx` in place of `FrameAccepted`.
3. The lidar's parser, nine bytes at a time.
4. `Hotplug`: tell a crash at shutdown from a clean end; prove the absence of orphans
   under a hypothesis about the executor.
