# LateralRoot (taproot) in TLA+

`src/src/tap` is taproot: the drivers, the command scheduler and the communication code that a RoboMaster robot's
program is built on. This directory models the parts that keep state and decide something, checks them with TLC and
proves what matters most with TLAPS. Paths below are relative to `src/src/tap`.

A taproot program is one thread: the main loop calls `Remote::read()`, `CanRxHandler::pollCanData()`,
`RefSerial::updateSerial()`, `CommandScheduler::run()` and so on, one after the other, for ever. Protothreads, which
are resumed from the same loop, send to the referee system and talk to the IMU. Only the receive interrupts of the
ports and of the CAN controllers run beside it, and they only fill queues. What is hard here is therefore rarely a
data race. It is a virtual function that is asked again and answers differently half way through a loop; objects that
call back into the object that is calling them; state left over from an earlier use; commands, motors and listeners
that are constructed, added, refused, evicted, ended and added again in an order that no test has; bytes and messages
that are lost, late or cut; a protothread that is resumed in a world that has changed; timers that compare with a clock
that has gone on.

## 1. Inventory

**CommandScheduler** (`control/command_scheduler.*`, `subsystem.*`, `command.*`). State: three 64-bit bitmaps
(registered subsystems, subsystems associated with a command, added commands), the verdicts of the hardware tests, the
master flag. Operations: `registerSubsystem`, `addCommand`, `removeCommand`, `run`, the four hardware test functions.
It calls `isReady/initialize/execute/isFinished/end` on commands, `refresh/refreshSafeDisconnect` on subsystems and
the virtual `safeDisconnected()`. Correct if commands that share a subsystem never run together, the bitmaps agree,
`initialize()` and `end()` alternate, a disconnected robot stops, and default commands come back.

**Registrar** (static part of the same files). State: the array of live commands, `maxCommandIndex`, the identifier
of each command, the flag of the master scheduler. Schedulers index their bitmaps with the identifiers. Correct if two
live commands never share a bit and the iterators see every scheduled command although they stop at
`maxCommandIndex`. The subsystem registrar is the same code.

**Composed commands** (`control/sequential_command.hpp`, `concurrent_command.hpp`, `governor/*`). Commands that hold
other commands and pass the scheduler's calls on. Correct if each child gets `initialize, execute..., end` in this
order, no call twice and none missing, however the parent is interrupted and added again.

**Setpoint and comprised commands** (`control/setpoint/*`, `comprised_command.hpp`, `algorithms/ramp.*`). Commands that
move a subsystem along a ramp, notice that it is jammed, and move it to and fro until it is free. Two of them have a
scheduler of their own for a move and an unjam command. Correct if the inner commands get their calls, a move that is
over does not push on into a jam, and unjamming ends.

**Mapper and mappings** (`control/command_mapper.*`, `*_command_mapping.*`, `remote_map_state.*`). State: held, pressed,
toggled, counters. `Remote` calls the mapper with each frame, and with an empty one when it is lost; mappings add and
remove commands. Correct if nothing runs that no mapping wants, and what is held runs again after a loss.

**Menus** (`display/*`). A scrolling list over the scheduler's commands, its hardware tests or the motors, redrawn when
it notices a change. Correct if the screen shows what was so at the last poll, but for what a menu does not compare,
and OK acts on the line that is marked.

**Terminal** (`communication/serial/terminal_serial.*` and its handlers). Assembles lines from what arrives, finds the
handler by the first word, and goes on streaming. Correct if a line does what it says, whatever was typed before.

**TCP server** (`communication/tcp-server/*`). One client at a time; messages written and read in as many system calls
as it takes. Correct if the client gets each message whole, once and in order.

**Remote** (`communication/serial/remote.*`). Frames without a marker; a read timeout and a disconnect timeout; bits.
Correct if only whole frames are parsed, silence disconnects and each field is what the driver did.

**DJISerial** (`communication/serial/dji_serial.*`, `algorithms/crc.*`). A receive state machine with CRCs. Correct if
messages are frames of the line in their order and the receiver finds back into step.

**Referee system** (`communication/serial/ref_serial*`, `communication/referee/*`). Decoders that store what they get;
the damage tracker; senders of messages between robots and of graphics, which share a semaphore and a delay; indicators
on the operator's screen. Correct if every field is that of the last message, the damage per second is recent, messages
keep their distance, and the screen comes to show the state.

**CanRxHandler** (`communication/can/can_rx_handler.*`). Tables of pointers to listeners that attach and remove
themselves. Correct if no dangling pointer stays in a table and each message reaches its listener.

**Motors** (`motor/dji_motor*`, `double_dji_motor*`, `motor/sparkmax/*`). Tables of the motors on each bus; messages
that carry the outputs of four motors each; queues of parameters. Correct if each motor gets what it was asked for last.

**Encoders** (`communication/sensors/encoder/*`, `motor/*encoder*`, `algorithms/wrapped_float.*`). Turns counted from
readings that wrap; encoders aligned with each other. Correct if the position is that of the shaft.

**IMUs** (`communication/sensors/imu/*`). A conversation over a bus that configures two sensors, and a calibration that
may be asked for at any time. Correct if a sensor that counts as connected was configured, the offset is the mean of
its samples, and bytes are read as what was measured.

**Computation** (`algorithms/*`, `control/chassis/power_limiter.*`, `motor/servo.*`). Transforms between frames,
controllers, filters, predictors, the power limiter, odometry, the ramp of a servo. Correct if limits and books are
kept and equations solved.

**Timers, profiler and errors** (`architecture/*timer.hpp`, `timeout.hpp`, `profiler.*`, `errors/error_controller.*`).
Used by everything above. Correct if a timer fires when it should, the extremes are those of the calls, and the index
that the terminal prints is the one it removes.

How they interact: interrupts fill queues that `Remote`, `DJISerial`, `CanRxHandler` and the terminal empty. `Remote`
drives the mapper, the mapper and the menus the scheduler, the scheduler commands and subsystems, subsystems motors.
`CanRxHandler` calls motors and encoders back. `RefSerial` feeds the power limiter and lends its semaphore to the
transmitters, indicators draw through these. Everything raises its errors in one list, which the terminal shows.

### Not modelled

With the reasons; `PROJECT.json` has the same list.

- *UART and GPIO drivers, CAN driver*: register-level input and output generated for a board, or thin layers over
  `modm`. Their queues are external parts of the models that read from them.
- *The motor simulation*: a numeric simulation for hosted builds.
- *Distance, current and voltage sensors, limit switch, buzzer, IMU heater*: one floating-point formula each of a value
  that is read when it is needed. The heater passes its temperature through `SmoothPid`, which is modelled.
- *Kalman filters, Butterworth and lag-lead design, Mahony's filter, ballistics*: their results are real numbers, which
  TLC does not have, and no discrete state decides anything. `strtok` is abstracted by `TerminalSerial`.
- *Terminal devices, layout of menus and tables*: they carry or format bytes and decide nothing.
- *Storage*: an adapter to the vendored littlefs. *Boards and build*: generated.
- *Left out of components that are modelled in part*: `CalibrateCommand`, which keeps one flag;
  `getRefSerialReceivingData()` and `operatorBlinded()`, which compare two times, and two decoders that nothing calls;
  the values in the frames a REV motor reports, of which only the arrival is modelled; the filter behind an IMU and its
  mounting transform on floats; menus that only show numbers; the rolling average of the profiler; the setters of
  `SmoothPid`, and its Kalman filters with a measurement noise.

## 2. Modules and code

| module | models |
| --- | --- |
| `SubsystemOwnership` | abstract: each subsystem has at most one owner; a command takes all it requires at once, or gives up all |
| `CommandScheduler` | the scheduler; implements `SubsystemOwnership` |
| `CommandScheduler_proofs` | theorems about it |
| `CommandRegistrar` | identifiers, bitmaps of several schedulers, the master flag |
| `CommandLifecycle` | what was called on a child command, and which calls were out of order |
| `SequentialCommand`, `ConcurrentCommand`, `GovernorWithFallbackCommand` | the composed commands |
| `Ramp`, `MoveUnjamCommand`, `MoveUnjamIntegralCommand`, `MoveAbsoluteCommand` | the setpoint and comprised commands |
| `CommandMappings` | what a mapping asks for; the mapper and the four kinds of mapping |
| `Menus`, `TerminalSerial`, `TcpServer` | the ways to commands other than the remote |
| `RemoteReceiver`, `RemoteInfo` | when a frame of the remote is whole; what its bits say |
| `DjiSerial`, `Crc` | framing, with theorems; what the two CRCs see |
| `RefSerial`, `RefSerialMessages` | the damage tracker; the decoders and the handlers of robot-to-robot messages |
| `RefSerialTransmitter`, `RefSerialGraphics`, `StateHUDIndicator` | messages to the referee system, their senders, graphics, indicators; theorems about the indicators |
| `CanRxHandler` | listeners and dispatch |
| `DjiMotor`, `RevMotor` | motors and their transmit handlers |
| `WrappedFloat`, `WrappedFloatLaws`, `WrappedEncoder`, `MultiEncoder` | numbers on a circle, encoders |
| `Imu`, `ImuRegisters` | initialisation and calibration; registers, scales and bytes |
| `Transforms`, `Controllers` | the computation of every loop, on exact numbers; the servo |
| `Timers`, `ErrorController` | the building blocks, and the profiler |
| `MC...` | constants for TLC, and modules that put components side by side; in `MCSerial` and `MCReferee` also theorems about the remote, about damage and about what is said to and by the referee system, and what those of the other parts say of the whole, in `MCDevices` the theorems about all of its objects |
| `MCControl_proofs`, `MCComposedCommands_proofs` | theorems about what `control` and `composed` put side by side |

Functions, fields and constants of the code keep their names (`addCommand`, `rxBuffer`, `CAN_BINS`); names that begin
with a capital are steps of a longer function or operators of the model. Operators marked *Mutant* are wrong on purpose:
put in the place of the definition they precede, they must break a property.

**CommandScheduler.** A bitmap is the set of its bits. Calls from outside are actions that need `pc = "idle"`. `run()`
is cut wherever it asks `safeDisconnected()` and at every command and subsystem it visits, since that virtual function
may answer differently each time (`ConnectionChange` is always possible): `RunBegin` decides between executing and
removing, `ExecuteNext`/`RemoveNext` visit a command, `TestNext`, `Refresh`, `DefaultNext`, `AddDefault` a subsystem.
`Schedule` is the tail of `addCommand` with its evictions, `Remove` is `removeCommand`. Readiness and finishing are the
command's own affair and nondeterministic, except that the result of `isFinished()` of a test command is kept
(`finished`), because `run()` looks at it long after the command has ended. `depth`, `executed`, `refreshed`,
`shutDown`, `steady` and `untested` are history. Commands do not call the scheduler from `initialize()`, `execute()` or
`end()`; the comprised commands do that with a scheduler of their own.

**Composed commands.** `child` holds, for each command, whether it is between `initialize()` and `end()` and which of
the three calls came when they must not. One `run()` of the scheduler is one step, `execute()` and then `isFinished()`
and `end()`. `GovernorWithFallbackCommand` follows `addCommand` exactly: `isReady()`, which selects, comes before the
`end()` of the command that may still be scheduled. With `limited` it is `GovernorLimitedCommand`. The run history
`turn` makes each `execute()` a change, so that fairness speaks of calls of `run()` and not of children that happen to
finish.

**Setpoint commands.** `MoveUnjamCommand` is the comprised command with its inner scheduler, both inner commands, the
jam checker and the subsystem; a `run()` is one step through all of them and `refresh()`. Between two, time passes and
the subsystem moves, jams or loses its connection as it likes, within `Reach`. Positions are integers.

**CommandMappings.** A frame is one step, through all mappings in their order; so is the empty frame of
`Remote::reset()`. The scheduler is reduced to which commands run. `mappedCommands` is what `std::remove_if` without
`erase` leaves in the vector.

**Menus.** A program polls the menu on top: `hasChanged()`, then `draw()` if it says so. A screen is the set of its
lines; a line has the fields that the code prints: the verdict and the state of a test, the number of those that run,
ON, OFF or NULL of a motor. What the menu shows changes between polls; `fresh` tells whether nothing has since the last
one, and `since` what has happened since the screen was drawn. The two bytes that the menu of the motors compares with
are not initialized by its constructor (`motor_menu.cpp:38-46`), so that they begin as anything. A test that is started
may be refused, or evict others; `run()` may take a verdict of a test that does not run.

**TerminalSerial.** A key is a word, a space or Enter; each takes one place of the buffer. `asked` is what the line says
when it is read as a whole; `printed` what the handler named.

**TcpServer.** One step per system call; `call` is where the function stands that makes it.

**RemoteReceiver.** Ticks of time. `read()` is cut behind the disconnect timeout, because bytes arrive by interrupt
between its parts. The two reads of the clock in one part are taken at once. `RemoteInfo` packs a driver's sticks into
bits as the transmitter does and unpacks them as `parseBuffer()` does, shift by shift. `IsDriven` is all that a driver
can do at the remote.

**DjiSerial.** A byte is its frame and its place in it; a head byte may also occur in the data. The CRCs are taken to
be perfect: they accept the bytes of one frame in order and nothing else. Each call of `updateSerial()` is one step in
the state it stands in and reads what the port has. `Crc` is the codes themselves, from the tables of the source, with
a line that damages neighbouring bytes.

**RefSerial.** Only the hit points are kept of a message. `OtherMessage` is any message without them: it updates the
tracker all the same, because `messageReceiveCallback()` does so before it looks at the type.

**RefSerialMessages.** A decoder is a table of the bits each field is read from. A field's value is the set of messages
its bytes came from, so that a byte left from an older message shows. `latest` and `heard` remember the last message of
each type and of each identifier that has a handler.

**RefSerialTransmitter, StateHUDIndicator.** A resumable function is cut where it yields. The semaphore is taken and
given back between two yields. Clocks count down. `wire` is what was written last, with the lengths and the codes that
were computed for it; a change between the computing and the writing spoils it.

**CanRxHandler.** A store maps a bin to a chain of listeners. The walk along a chain longer than one is not modelled:
an identifier is accepted once, the accepted identifiers of one kind (0x201 to 0x208, 1 to 8) have different bins, so
that a chain never has two nodes. REV messages whose identifier is none of 1 to 8 but has the bin of one are left out.

**DjiMotor, RevMotor.** Outputs are words of `OutputWord` values with their wrap. What a motor of the table hears is
computed from the data sheet's places (`Hears`, `Heard`), independently of the handler's. A Spark Max is an external
part that obeys the messages that name it; one that missed a message is `failed` and nothing is claimed of it. What
comes from the motors is another part of `RevMotor` (`Listening`): frames of any identifier, the two timeouts they
restart, and the heartbeat that keeps the controllers listening.

**WrappedEncoder, MultiEncoder.** `shaft` is where the shaft is, in ticks; it turns by less than half a revolution
between two messages. REV encoders compute their reading from a float of the motor, in words of `RevWord`.

**Imu.** The whole conversation with a sensor is one step; one register may not keep what is written to it (`broken`).
`ImuRegisters` has the settings as sets of bits and the bytes of a measurement.

**Transforms, Controllers.** Integers, fractions and quarter turns: the matrices of a quarter turn are exact, and so
are the laws that a composition has to obey.

**Timers.** `Timeout` is a set of operators on a record. The clock is `time % ClockPeriod`. The profiler has a counter
of its own, which starts near its wrap. Its `push()` and `pop()` may nest in any way; the times of a name that runs
twice at a time mean nothing (`overwritten`).

## 3. Runs

| run | what it asks | size |
| --- | --- | --- |
| `scheduler` | type, exclusion, agreement of the bitmaps, alternation, at most once and at least once per `run()`, disconnect, defaults, tests, refinement; a lost connection ends everything, default commands come back | 128 000 states |
| `composed` | calls of the children in order, sequences whole, no pushing into a jam, all that should end ends | 115 000, 1 min |
| `control` | identifiers, iterators, masters; mappings; menus; lines of the terminal and messages of the server | 885 000, 1 min |
| `serial` | whole frames, silence and sticks of the remote; DJI frames in order, back in step | 1 226 000, 1 min |
| `referee` | recent damage; what is said is understood; messages spaced, one of the senders goes on; indicators are current | 137 000, 1 min |
| `devices` | listeners, timers, profiler, errors, encoders, motors, IMUs, computation, codes | 339 000, 2 min |
| `passed_tests` | violated: a test reported as passed was started | |
| `concurrent_again` | violated: a concurrent command that is scheduled twice finishes once | |
| `governor_again` | violated: a governed command added while it is scheduled drives its children | |
| `can_removal` | violated: a refused listener removes only itself | |
| `encoder_aligned` | violated: an aligned encoder keeps its position | |
| `encoders_average` | violated: a mean is of encoders that are aligned with each other | |

`composed`, `control`, `serial`, `referee` and `devices` put components that share nothing side by side: the initial
state chooses which one is used, the others stay as constructed, and the states add up instead of multiplying. A
property of such a run may be the conjunction of one statement per part; the parts are named in the MC module, and each
has a mutant of its own.

**What the properties say.**
- *Scheduler.* `NoSharedSubsystem`, `AssociationExact`, `ScheduledOnRegistered` and `LifecycleAlternates` hold at every
  cut of `run()`. `AtMostOncePerRun` and `EverySubsystemRefreshed` are about the iterators, which go on while the sets
  they run over change under them. `SafeDisconnectStops` says that after a `run()` that began disconnected nothing is
  scheduled until the connection changes. `DefaultsInControl` and `FinishedTestRecorded` hold only if default commands
  require nothing but their own subsystem (`DefaultsAreOwn`); without it a later default evicts the command of a
  subsystem that was visited before, and TLC shows it. `ImplementsOwnership` says that subsystems only ever change hands
  as a whole.
- *Composed.* `ChildrenDriven` is the lifecycle of every child, of five kinds of parent. `EndsWhenItShould` is
  liveness: a fallback that is to stop for ready governors does, so does a governed command that a governor wants to
  stop, and unjamming ends, whatever the subsystem does; and a concurrent command finishes when all of its children, or
  in a race one, have. `PushesNoFurther` says that a ramp is never ahead of its time and starts where the subsystem is,
  and that a move that is over holds, or stops, where the subsystem stands.
- *Control.* `HeldResumes` leaves out commands of toggle mappings: a toggle that was on when the remote was lost sees
  the first frame as the next press. `MenusShow` speaks of a menu that was polled since the last change: the one of the
  scheduler shows all as it is. The other two compare less than they draw, and a screen need not be right in all of its
  lines if, since it was drawn, one of four things happened (`Noticed`): as many tests ended as started, the verdict of a
  test changed that did not run, a motor that is offline was created or destroyed, or a motor came or went before the
  first poll. TLC finds a stale line for each of them. Even then the number of running tests is right and, but for the
  last, ON is said of the motors that are online and of no other. `OKActsOnMarked` allows that the test which OK starts
  evicts others. `LinesCarried` speaks of lines that are short enough and of messages that are returned without an error.
- *Serial.* `InStepAgain` says how soon: `Awaited` is as many bytes as a receiver that is out of step may still wait
  for, counted from the last lost byte or, while it is out of step, from the last byte that looked like a head. One
  byte less is too few. `BytesUnderstood` puts the remote together: when a frame is taken for one, and what is in it.
- *Referee.* `DpsIsRecentDamage` is not claimed once the tracker has overflowed. `ShownIsCurrent` leaves out what
  is lost on the way: a state that was set in the middle of a drawing, whose frame is spoiled (section 6).
  `NotAllWait` is liveness: of the threads that wait to send, one goes on; the code's delay promises no single one its
  turn.
- *Devices.* `MotorsObey` compares the bytes of a message with the places the hardware listens to, and speaks for a
  double motor while its two motors agree on being online. `EncodersFollow` needs a shaft that turns by less than half
  a revolution between messages. Of several encoders used as one it says that those a mean is of agree, and
  `PositionContinues` that the mean goes on where it was, as long as they are not `mixed`. That is set by the two
  events that `syncEncoders()` gets wrong with three encoders, and stays until the next reset: the primary comes back,
  and with it an encoder that the loop reaches before one that is still aligned (`Crossing`), or another encoder goes
  and comes back while the primary is away, so that nobody takes it off the list (`Straying`). `encoders_average` shows
  what they do; with two encoders neither can happen (`TwoNeverMix`). `PromisesKept` is what the smaller objects keep
  to over time, the IMU among them: `ImuCalibrates` says of a calibration, whichever it is and whatever the offsets
  were, that it ends with the mean of its own samples; values read while it goes on are another matter (section 6).
  `ComputesRightly` is about formulas: what a transform, a filter, a predictor, a table or a controller returns solves
  the equation it is there for, and `DamageIsSeen`, of the codes of DJISerial and of the referee system, every burst of
  up to the width of the code.

**Bounds and why they are enough.**
- `scheduler`: three subsystems and five commands are enough for a command that evicts two others, a default command
  that reaches into a neighbour, a test that shares its subsystem with a default, and a command whose requirements
  overlap with each of the others without being equal. The proofs cover all other numbers.
- `composed`: four commands in a sequence (first, last and two in between), six side by side, two governors; a
  concurrent command is scheduled once (`MaxSchedules`), since the second time is the subject of `concurrent_again`.
  Moves of two units in two ticks, unjamming of two with thresholds of one, one cycle and the time for two more;
  positions within `Reach` of 2, so that the subsystem may stand at, before and behind every threshold.
- `control`: four commands for three slots, so that the array fills up, has holes, is used again, and asserts. One
  mapping of each kind, with a command shared by two of them, neg keys, a command that is sometimes not ready, and a
  null pointer; `MaxStarts` is beyond what any mapping may start. Menus of two lines for up to five entries, so that
  they scroll both ways, with two tests that may start, end and evict each other between two polls, and three motors.
  Lines of up to 11 characters of words of up to 9: too long by one, by more, and not. Two clients and messages of 0
  and 2 bytes with lengths modulo `Word`; `MaxSent` and `MaxWrites` end the conversation.
- `serial`: frames of three bytes with a period of eight ticks. In the program a frame has 18 bytes, the gap is about
  12 ms and the read timeout 6 ms, so that `TimingAssumption` lets the main loop stall for about 3 ms; with one tick
  more frames are mixed. Four DJI frames, of which some are too long, and two lost bytes: one to lose the step, one
  while out of it. 162 frames of a driver, every stick at both ends and in the middle, two in a row.
- `referee`: a tracker of two and up to four hits, so that several expire at once. Every pair of messages, each with
  its own length and three others. One indicator and one other thread with a delay of three; three configurations of a
  graphic, the least that go back to a kind.
- `devices`: two listeners of one identifier, one of the same identifier on the other bus, one REV listener and the one
  with identifier 8; queues of two. Clocks stop before they wrap (`Horizon` < `ClockPeriod`), see section 6 for what a
  wrap does; periods and timeouts shorter, equal and longer than the gaps between calls; one error more than the list
  keeps. Three encoders used as one, as `DoubleDjiMotor` has them (`double_dji_motor.hpp.in:85`), with two offsets that
  they may come back with. Encoders of five ticks, on a shaft that goes `ShaftReach` to both sides. Four DJI motors, at
  both ends of both messages, two of them a double motor with one inverted, one on the other bus in current control,
  with outputs in and beyond a word of eight values. Two REV motors of one bus with two requests between them. Samples
  of three values, two per calibration. Three functions for a profiler of two, whose counter wraps after two ticks.
  Messages of up to four bytes under codes with all 256 entries of the tables, damaged in one byte or two neighbouring
  ones. `MaxUpdates`, `MaxSteps`, `MaxReads`, `MaxCalls` end what would go on for ever.

**Deadlock** is checked in `scheduler` and `serial`. In the others parts come to their end: a failed
assertion stops the program, a counter is at its bound, the clock at `Horizon`, the program has halted.

**Fairness.** *Scheduler*: weak fairness of its steps, since a loop of the scheduler goes on until it ends; strong
fairness of `RunBegin`, since the main loop calls `run()` again and again, whatever else it calls in between. Nothing
is assumed about calls from outside, about commands that finish or about the connection. *Composed*: weak fairness of
`Run` while the command is scheduled, which follows from the same, and of the clock. *Referee*: weak fairness of each
thread, which the main loop resumes in every turn, and of the clock.

## 4. Findings

| run | the code |
| --- | --- |
| `concurrent_again` | `concurrent_command.hpp:81` does not reset `finishedCommands`: scheduled a second time, the command finishes at once and never ends the children it has initialized |
| `governor_again` | `governor_with_fallback_command.hpp:74` selects in `isReady()`, which `addCommand` calls before it ends a command that is scheduled already: the wrong child is ended |
| `can_removal` | `can_rx_handler.cpp:185` removes by identifier: the destructor of a refused listener removes the accepted one |
| `passed_tests` | `command_scheduler.cpp:203` takes the verdict from `isFinished()` alone, so that a refused test passes by an earlier one |
| `encoders_average` | `multi_encoder.hpp:156-182`: with three encoders, one that appears together with the primary is aligned with it before the primary is aligned with the third, and one that returns while the primary is away is not aligned at all; the mean is then of positions that differ |
| `encoder_aligned` | `wrapped_encoder.cpp:80` adds the difference to the home position, which is subtracted from the next reading: an aligned encoder jumps to the other side with its next message |

## 5. Proofs

`CommandScheduler_proofs` proves, for any numbers of commands and subsystems and any requirements, defaults and tests:
`TypeCorrect`, `Exclusive`, `AssociationCorrect`, `OnRegistered`, `LifecycleCorrect`, `AtMostOnce`, `EveryRefreshed`,
`DisconnectStops` and `Refinement`. Assumed are only the types of the constants (`CountAssumption`,
`ReqsAssumption`, `DefaultAssumption`, `TestAssumption`, `ReadyAssumption`).

The inductive invariant is `IInv == TypeOK /\ Position /\ Core`. `Core` is the conjunction of the four statements about
the bitmaps. None of them is inductive alone: clearing the requirements of a removed command keeps `AssociationExact`
only because no other scheduled command shares them (`NoSharedSubsystem`), and a new command keeps `NoSharedSubsystem`
and `LifecycleAlternates` only because those that conflict have been removed. `RemoveCore` and `ScheduleCore` prove it
for the two operations that write the bitmaps; every action is one of them or leaves the bitmaps alone. `Position` says
that the iterator stands on a registered subsystem while `run()` works on it, which types the index that `AddDefault`
uses. `RunHistory` relates what a `run()` has executed and refreshed to where its iterator stands (`Visited`), and gives
`AtMostOnce` and `EveryRefreshed`. `Stopping` is `SafeDisconnectStops` with what holds while the loop still removes: a
command below the iterator is gone, and nothing comes back while disconnected. `Refinement` maps the owner of a
subsystem to the scheduled command that requires it, which `Core` makes unique: `Schedule` is `Acquire`, `Remove` is
`Release`, and all other steps stutter.

`DefaultsControl` and `TestsRecorded` are about the end of a `run()` that stayed connected. What has to hold while the
loop still goes over the subsystems is `Settled`: each one below the iterator that has an always ready default of its
own is controlled, and a finished test has its verdict, or its subsystem is still free. Adding a later default takes
nothing away from the subsystems before it, because it requires its own subsystem only (`DefaultTakesOwn`);
`DefaultsAreOwn` is the precondition of both properties, and TLC shows that they need it.

`MCControl_proofs` proves what the run `control` checks of three of its parts. A behaviour of `ControlSpec` is one of
the mapper and one of the menu, or leaves them alone (`RunsMapper`, `RunsMenu`), so that what is proved of a part holds
of the whole; the theorems about the registrar are about its own specification.
- *Registrar*, for any number of commands, slots and schedulers: `UniqueIdentifiers`, `IteratorsComplete`,
  `MasterUnique`. To `IdentifiersUnique` the invariant adds `Below` (no taken slot at or above `maxCommandIndex`) and
  `BitsExact` (a scheduler's bits are the slots of its commands): together they make the iterators complete, and
  `BitsExact` needs that a command which takes a slot is scheduled nowhere.
- *Mapper*, for any mappings, frames and commands: `MappingsKept`. A frame is carried out by three loops one inside the
  other (mappings, commands of a mapping, repetitions). They are recursive functions over the positions of a sequence,
  and the lemma `Induction` gives induction for a set of numbers that contains 0 and with each of its members up to a
  bound the next one. `Adding` and `Repeating` say what a mapping's loop does to the commands that run; one lemma for
  each kind of mapping (`HoldDid`, `PressDid`, `RepeatDid`, `ToggleDid`) says what it leaves behind, `ExecutedAll` that
  no later mapping spoils it, and `MapperInv` ties `pressed`, `toggled` and the number of starts to the last frame.
  `MapperAssumption` gives the types of the constants.
- *Menus*, for lists and screens of any size: `MenusTell` and `OKMarked`. That the marked line is visible is not
  inductive alone: `Scrolls` adds that the window starts at the top or is full, which a list that shrinks under the
  cursor needs. `Drawn` says what the screen was drawn from, which is more than `previous` remembers of it, and what
  `since` tells of the difference: as long as no test started, those that run are among those that were drawn, and as
  long as none ended the other way round, so that sets of the same size are the same set (`TestsDrawn`,
  `TestsDrawnOn`); the motors that were drawn as online are what `previous` holds, once the menu was polled
  (`MotorsDrawn`). `PollRedraws` and `PollKeeps` are the two outcomes of a poll. `Registered` says that no command runs
  without a subsystem, without which the first drawing of the scheduler's menu could be stale, and that no motor is
  online which is not in the table; `TestsOpened` that a menu of tests lists at least the entry for all of them.
- *Terminal and server*: `LinesKept`. Of the terminal, for lines of any length: `Buffered` says that the buffer holds
  what was typed, but for a space that comes first, until a line gets too long (`TypedOn`), and words are the same with
  and without that space (`LeadingSpace`). The loops over the arguments are recursive functions; `Looping` gives the
  sequence of the states that they go through. `MotorsRead` and `SubjectsRead` say what a handler has found after any
  number of arguments: all pairs so far, or where it stopped and why that makes the line unreadable. `HandlersPrint`
  compares the end of that with what the line names as a whole (`Named`), and `Obeyed` carries it through streaming.
  `TerminalAssumption` says that a null pointer is none of the words. Of the server, for any clients and messages, one
  system call at a time: what a client was written is what it got and what the call that runs has still to write
  (`Writing`), and what was read comes right before what is still to come (`Numbered`, `Reading`). `ServerAssumption`
  is that lengths are natural numbers: one that is beyond the width of the parameter is cut (`tcp_server.cpp:223` takes
  16 bits of 32), and the model cuts it.

`MCComposedCommands_proofs` proves, for any number of commands and any order of ticks, `CommandsDriven`,
`SequenceOrdered`, `MovesHold` and `FinishesTheFirstTime`. `CommandsDriven` has two hypotheses, and both are findings
rather than conveniences: a concurrent command is scheduled at most once (`MaxSchedules <= 1`) and a governed command is
not added while it is scheduled (`~AddedWhileScheduled`). The runs `concurrent_again` and `governor_again` show what
happens without them; `FinishesTheFirstTime` states what is right about the concurrent command before it happens.

`DjiSerial` proves, for any sizes of frames and buffers, whatever bytes are lost and whatever the data look like,
`FramesInOrder` and `BackIntoStep`, and `MCSerial` carries them over to the run. Assumed are the sizes
(`SerialAssumption`), and in the model that the CRCs are perfect.
- `FramesInOrder`: the invariant `OrderInv` does not say where the receiver is in the line; it says that the bytes of
  `newMessage`, those of the port and the next one of the line are in the order of the line, and that every frame
  handed over began before all of them.
- `BackIntoStep` states `InStepAgain` and needs where the receiver is. `StepInv` is about the bytes ahead of it, those
  of `newMessage` and of the port, and about the places among them from which it may come to read (`Start`): the first
  one if it has found a head, and every byte that looks like a head and will not be skipped with a frame that has to be
  received. What is read from there ends at `Ending`, after a header that is refused or after a message as long as an
  accepted header says. `StartsEnd` says that a start is a whole frame, or ends before the next frame that has to be
  received and before `clean` reaches `Awaited`; `InStepWhole` and `NoneMissed` say that those frames are whole and
  still ahead or handed over; `Reading` ties the state to the header that has been read. A new byte may complete the
  header of a start and make its ending later, which is why `Awaited` has to bound both lengths (`AwaitedIsEnough`).
  `Largest` gives the maximum of a bounded set of numbers, by the pigeonhole theorem. `FrameAssumption` says of the
  constants that a frame is more than its header, that the buffer has a size and that some frames fit.

`StateHUDIndicator` proves, for any number of transmitters, indicators, states and delays, `RateKept`, `StateShown` and
`FramesWhole`; `MCReferee` carries them over to its run. `Spacing` says that what is left of the delay
is what is missing of it since the last message was written. `Pending` relates what a transmitter waits with to what the
indicator was drawing, `Seen` what the operator sees to the indicator's state and to whether it knows of a change.
`WholeFrames` says that the length and the
codes in a frame are those of what is written with it, for every kind of graphic.

`MCReferee` also proves `SaidUnderstood`, that is `SaidIsUnderstood`, for any lengths, identifiers, handlers and graphics.
- *What the referee says.* Of every decoder the lemmas `Decoders...` say that each field has bits of its own, that
  the data of an accepted message have them, and which fields it writes; `Owned` that no field is in two messages. Hence
  `DecodersServe`, and that a message disturbs no field of another one (`MessageReceived`). `MessagesInv` adds to
  `FieldsUpToDate` what the bytes of the buffer are after a message (`Arrived`). `HandlersUpToDate` says that a
  handler has the
  last message of its identifiers; what makes it inductive is that nothing was heard of an identifier that has no handler
  yet, and that nothing heard is newer than the last message.
- *What a graphic shows.* `ShowsLastDrawing` is inductive as it stands: `ShapeShown` and `GenericsShown` say that neither
  kind of function writes the fields of the other, `StoredField` what is left in a field that is too small for
  a number, `ValueShown` and `Parts` that 32 bits are put together from the three fields of the union as they were taken
  apart. `DrawingsAssumption` gives the types of the arguments; the layer is between 0 and 9
  (`ref_serial_transmitter.hpp:80`).
- *What is written* is `FramesWhole`, above.

It proves `DamageCounted` too, for any hit points, any size of the tracker and any length of the second.
`DamageInv` says that the tracker has the hits but for the first ones, that those are too old and stay so, and that what
it has adds up to `receivedDps`, unless it has lost one. The hits are noted in the order of their times, which is why
looking at the oldest ones is enough. `Damage` is a recursive function: `Summed` finds it by `Induction`, and `SumOf`
says that whatever obeys its equation has its value, which gives the damage of a tracker that loses its first events or
gets one more.

`MCSerial` also proves `RemoteUnderstood`, that is `BytesUnderstood` for any length and period of the frames, any timeouts
and stalls that keep to `TimingAssumption` (the gap between two frames is longer than the read timeout and two stalls,
and a frame comes before the remote counts as lost), whatever bytes are lost, and for all that a driver can do.
- `RemoteInv` is about the bytes that `read()` has in its buffer and in the port (`Pending`). They are of one frame, in
  the order of their places and none twice, though some may be missing (`OfFrame`); so a buffer that is full is one whole
  frame (`OfFrameFits`). That needs that no byte is kept until the next frame begins (`KeptInTime`): what is in the port
  came since the last `read()`, and what is in the buffer is discarded by the read timeout. `Heard` bounds how long it
  can have been silent while the remote counts as connected.
- `FromFrame` says that what is known of the remote is nothing, after `reset()`, or what was parsed from the last frame,
  and that the mapper was told of it. `DriverIsRead` is about the bits: 48 of them, of four sticks and two switches that
  do not begin where a byte does, make six bytes (`StickBytes`), and the shifts and masks of `parseBuffer()` find each
  number in the two or three bytes it is spread over (`FirstOfThree` to `LastOfThree`), with what else is in these bytes
  falling out of the remainder. A number is the sum of its bits (`BitsOfStick`), and the sixteen keys those of one word
  (`KeysOfBytes`). `DrivenAssumption` says of the constant what the hardware can send (`IsDriven`): eleven bits for a
  stick, two for a switch, sixteen with a sign for the mouse.

`MCDevices` proves what is said of its objects over time. The proofs stand with the instance of the object they
are about; the last lemmas (`StepOfEach`, `DevicesStep`) compose them: a step is one of one object and leaves the others
as they are, so that `DevicesInv`, the conjunction of their invariants, is one of `DevicesSpec`.

*Listeners*, any of them in any order of construction and destruction: `NoDangling` and `Dispatch`.
The invariant `Housed` says that every chain is empty or holds one live listener, in the bin, the kind and the bus that
are its own. It is `OneIdentifierPerBin` that keeps chains that short: of the identifiers the handler accepts, two of
one kind with the same bin are equal, so that the second one is refused. `Dispatch` assumes of the messages that
extended identifiers are those of REV motors (`ExtendedAreRev`), as section 2 says.

*Encoders*, of any resolution from three ticks on, any home position, offset and word, inverted or not
(`EncoderAssumption`): `EncodersFollowShaft` and `MeanContinues`. `CircleNumbers`, `PlusAdds`, `MinusSubtracts` and
`ShorterWay` are the laws of `WrappedFloat` they rest on: a number on a circle stands for an integer (its value and its
revolutions), sums and differences of numbers stand for those of the integers, and the smallest difference is the one
below half a circle. They need that the remainder of a division is unique (`Division`, `FewTurns`). `EncoderInv` says
that an encoder and its home position are together a whole number of turns away from where the shaft was seen, which is
what makes the smallest difference to the next reading the turn of the shaft. Of encoders used as one, the theorems are
about up to three, any of which but the primary may be null, as many as the code ever puts together
(`double_dji_motor.hpp.in:85`): the loop is written out (`SyncedOfThree`), and `LoopSyncs` says that it leaves all
encoders it counts with one offset, that of those that were seen and have missed nothing, unless they are `mixed`
(section 3).
`MultiInv` says that the encoders that are seen and have missed nothing have one offset, that of the mean.
`TwoNeverMix` is why `mixed` is needed for three only: with one encoder beside the primary, which is a double motor
without an external encoder, it never becomes true.

*Motors*, any number of them with any identifiers, outputs, torques and slots: `MotorsAlwaysObey`. Assumed are the types
of the constants, that a word has an even number of values, that two motors are the double one, and that of REV motors
two on one bus have different identifiers (`MotorAssumption`, `RevAssumption`).
- DJI: `DjiTyped` says that the output of a motor of the table is the last one it was given, limited and mirrored;
  `PlaceOfMotor` and `QuarterTellsPlace` that the identifiers 0x201 to 0x208 have different quarters of two frames, so
  that the loop over the table writes each one's own. `DjiReported` relates the answers of a double motor to the last
  reports of the two that are online.
- REV: messages may be lost, and between asking and sending there is a queue. `RevInv` says what a Spark Max holds that
  missed none: for every parameter what it knows, or, while a message for it is under way, what the last one of them
  asks for (`LastAsked`), which is what the program asked last; and that the status frames it was told to send and those
  still queued are all five, of which none is missing once it has obeyed a command (`Framed`). `IdsDiffer` says that
  no two messages of the protocol have the same
  identifier, from the bits of its fields; that is why a Spark Max takes what is meant for it and nothing else.

*The smaller objects*: `SmallPartsKeepPromises`, and of the IMU alone `ImuAlwaysCalibrates`.
- Timers, for any periods and timeouts: `PeriodicInv` says that the next expire time is a whole number of periods after
  the start, in the period after the one it last fired in; that the loop of `execute()` finds it after any number of
  missed periods is `LoopFinds`, with `Least` (every set of natural numbers has a least one). `ConditionalInv` says that
  the timer runs out the timeout after the condition was last seen not to hold. `TimerAssumption` says that periods and
  timeouts are positive, and that the clock stops early enough not to wrap (`Horizon` and a timeout are below
  `ClockPeriod`). Neither is a convenience: section 6 says what happens otherwise.
- Profiler, for any names, any size of its table and any nesting of calls, on a counter that does wrap: a call that runs
  has the place of its name and the time it was pushed at, unless there was no place (`Remembered`), and the extremes of
  a name are among its times and bound them (`Spans`).
- Errors, for any list size: the number of an error is its place (`Numbered`). `removeSystemErrorAtIndex()` turns the
  list around once and leaves one out; `AfterSteps` says what the list is after each step of that turn.
- Numbers on a circle, of any size and bounds: a number stands for the integer its steps led to (`FloatInv`), and sums,
  differences, shifts of the bounds and limits are what they are of integers.
- IMU, for any samples, any number of them and any offsets: `SensorSums` says that while it calibrates the offset is the
  sum of the raw samples so far, whatever it was before; `RegistersInv` that the registers hold the settings,
  that bytes are read as what was measured and turned as it was mounted. `RegisterAssumption` says that a reading has 16
  bits and a temperature 11.
- Control loops, for any gains, errors, powers, displacements and targets: the output and the integral of the controller
  stay within their limits; `LimiterInv`, the buffer of the limiter is what was last heard less what was used since;
  `OdometryInv`, the tracker is where the chassis drove while both its observers were valid; `ServoInv`, the PWM moves
  from where it was towards its target by its speed, and never out of its limits. `LoopAssumption` gives the types.

**Only model-checked.**
- Liveness and fairness (`DisconnectEndsAll`, `DefaultsResume`, `EndsWhenItShould`, `NotAllWait`), which are out of the
  prover's reach.
- `HeldResumes`: it is true of the mappings of the run and not of all. A mapping without keys is always held, and of
  mappings that evict each other's commands in a circle none resumes.
- `ComputesRightly`: of the codes it rests on two tables of 256 numbers and on `MapThenSumSet` and `FoldLeft`, of the
  filters, tables and matrices on products of several unknowns. Neither is what the provers do.

## 6. Divergences met while modelling

They are in the code at the lines given, and no run is spent on them; the modules follow the code, or leave out the
case and say so.

Scheduler, commands and mappings:
- `command_scheduler.cpp:170-214`: `run()` ends the commands before it calls `refreshSafeDisconnect()`;
  `subsystem.hpp:102` says the latter comes before removing commands.
- `command_scheduler.cpp:109`: after destroying commands in the middle, `maxCommandIndex` is not the smallest bound, as
  `command_scheduler.hpp:362` says. With it, `command_scheduler.cpp:48` asserts although a slot is free.
- `command_scheduler.cpp:108`: a command that is destroyed while a scheduler runs it leaves its bit behind. The next
  command with its identifier counts as scheduled and is executed without `initialize()`. Nothing in the code checks
  it; the model demands that the program does not do it.
- `command.cpp:39`: `1UL << id` has 32 bits on the robot; subsystems may have 64 identifiers.
- `sequential_command.hpp:101`: interrupted before its first `execute()`, or between two commands, a sequence ends a
  command that was never initialized. `ChildrenDriven` allows that one misuse.
- `command_governor_interface.hpp` says `onGovernedCommandInitialized()` is called when the governed command is
  scheduled; `GovernorWithFallbackCommand` never calls it.
- `unjam_command.cpp:46-47`: the absolute value is taken of the parameters after the members have been set.
- `hold_repeat_command_mapping.cpp:43`: the count goes up even if the scheduler refused the command.
- `command_mapping.cpp:38`: `std::remove_if` without `erase`: null pointers at the end of the list stay.
- `command_mapper.cpp:62`: `addMap` accepts a mapping equal to an earlier one, against `command_mapper.hpp:64`.

Menus, terminal and server:
- The menu of the scheduler does not remember its first drawing and draws twice. The one of the hardware tests compares
  only the number of running tests (`hardware_test_menu.cpp:94-102`), not which and not the verdicts it draws: one that
  evicts another leaves both lines stale. The one of the motors does not notice a motor that is offline and created or
  destroyed (`motor_menu.cpp:122-150`), and compares with uninitialized bytes at first: a motor that came or went between
  the drawing by `push()` and the first poll may go unnoticed. `MenusShow` says what is right nevertheless. The menu of
  tests sizes itself once; a single motor's ignores the speed. After `setSize(0)` the cursor is -1 for ever.
- A line of one space, or one that is too long by exactly one key, hands a null pointer to `strcmp()`
  (`terminal_serial.cpp:94`). The rest of a line that is too long is executed as a line of its own though "throwing
  away data" is printed; a space that is dropped at a full buffer throws the line away. The IMU takes `-h` for a sensor
  once it streams.
- `tcp_server.cpp:199`: when the first `read()` fails its -1 becomes 65535 and `readMessage()` returns a buffer nobody
  read, against `tcp_server.hpp:112`; at the end of the stream the loop never ends; lengths are cut to 16 bits;
  `getConnection()` twice leaks a descriptor; after a failed write the next message follows a partial one.
  `readInt32()`, which nothing calls, shifts once too often.

Remote, framing and referee system:
- `remote.cpp:43`: while the remote is lost every `read()` discards what has arrived, so that a frame is noticed only if
  it comes between two parts of one call. `remote.cpp:131-138`: a stick beyond ±660 raises an error and is used.
- `ref_serial.cpp:512`: a full damage tracker drops its newest event, whose damage is never subtracted. It takes more
  than 20 hits in a second.
- `ref_serial.cpp:445` reads a byte behind the end of the radar's message; `ref_serial.cpp:461-462`: two fields of the
  sentry share bit 14; `ref_serial.cpp:275` reads two bits of an enumeration with five values.
  `decodeToProjectileSupplierAction` and `decodeToAerialEnergyStatus` are never called.
- `ref_serial_transmitter.cpp:387` refuses the identifier 0x2FF that a handler may be attached for; `382-385` raise an
  error for a message of one byte and send it. While the robot does not know who it is, `sendGraphic` drops messages
  without a word. `configCharacterMsg` may announce more characters than the 29 it copies.
  `getWaitTimeAfterGraphicSendMs` is cut to 33 ms, the semaphore's delay is rounded up to 34 ms.
- `state_hud_indicator.hpp:152`: a state that is set while `draw()` waits spoils the frame, whose CRC is computed, and
  counts as drawn; one that is set before `initialize()` is forgotten.

CAN, motors and encoders:
- `can_rx_handler.cpp:138`: the bin of REV identifier 8 is 0, compared with 8: such a listener never gets a message, and
  `REV_MOTOR8` can never be initialised, since the table has eight places from 0. `getCan2Motor` compares with it.
- `can_rx_handler.cpp:102`: a poll takes one message of each bus; `can_rx_handler.hpp:130` says it clears the queue. A
  main loop slower than the bus works on older and older messages until the queue overflows.
- Negating the least output, or encoder reading, of an inverted DJI motor gives itself: it turns the wrong way, and the
  two of a double motor work against each other. `DoubleDjiMotor::getTorque` adds the last torque of a motor that is
  offline and divides by those that are online.
- The destructor of a DJI or REV motor removes whoever has its place in the table.
- `rev_motor.cpp`: the smart modes are sent as duty cycles; `setControlMode` keeps the old value in the new units; a
  parameter has left the queue before it is known that it was sent; `setMotorPID` called in every loop starves the
  control message; voltage and current of a status frame are read from bits that overlap (102-103).
- A `RevMotorEncoder` jumps when its reading falls below 0 or reaches 65536.

IMUs:
- `abstract_imu.hpp:56-57` says that values are 0 while calibrating; they are not: what is read meanwhile is corrected
  by the sum so far, and still there once the state is calibrated, when `abstract_imu.hpp:72` calls the data valid.
  `CalibratedIsValid` in `Imu` states that and does not hold.
- `Mpu6500::initialize` with another `WHO_AM_I` leaves the state at `IMU_NOT_CALIBRATED`, and its temperature is read
  unsigned. Setters of `Bmi088` have no effect after `initialize()`.
- `Bmi088::getAccelerationSensitivity` is in m/s² per count and not in g, so that its calibration removes gravity.
- `bigEndianInt16ToFloat` reads little endian and `LITTLE_ENDIAN_INT16_TO_FLOAT` big endian; `MPU6500_USER_CTRL_DATA`
  has its bits in reversed order, and the bit of `MPU6500_CONFIG_FIFO_MODE` is masked away.

Computation:
- `Transform::updateAcceleration(Vector)` writes the velocity. `updateTranslation` and `updateRotation` with velocities
  leave `isDynamic()` as it was; `projectForward` of such a transform does not move it. `getRollVelocity` and
  `getPitchVelocity` are swapped. The accelerations of `compose` are not associative about different axes. At a pitch of
  ±90° roll and yaw read 0. `CMSISMat` computes inside `assert()`.
- `wrapped_float.cpp`: `rangeOverlap` is wrong for a lower bound that is not 0; `limitValue` leaves `*status` as it was
  if the limits are equal.
- `SmoothPid` subtracts the derivative of what its parameter calls the derivative of the error; its anti-saturation also
  stops integrating inwards, so that a pure I controller may stay at its limit for ever; `abs(error)` may be that of
  integers. `DiscreteFilter::setSteadyState` is steady only for a gain of 1. A predictor that is given an older time
  drops the value and sets its slope to 0.
- The power limiter charges a gap of the referee's messages with the last power, and its ratio jumps at the threshold.
  The odometry loses what is driven while the yaw is not valid and reads an uninitialised yaw before the first.

Timers:
- `timeout.hpp:91` compares absolute times: near a wrap (49 days of milliseconds, 72 minutes of microseconds) a timeout
  expires at once or a period late, and `periodic_timer.hpp:81` does not leave its loop when the clock shows its
  largest value.
- `periodic_timer.hpp:40`: a timer that was never given a period has period 0, with which `restart()` and `execute()`
  would not leave their loops.
- `conditional_timer.hpp:84`: with a timeout of 0 `execute(false)` returns true. `PromisesKept` speaks of positive ones.

## 7. What the models leave out

The 32 or 64 bit width of identifiers; the order of commands within one `removeCommand` of several; `modm`'s drivers,
which are queues here; CRC collisions in `DjiSerial` (`Crc` says what the codes see); the rounding of floats; nesting of
composed commands in each other (each gets its calls from a parent that behaves like the scheduler, and behaves so
towards its children, which is what the lifecycle properties show); a wrap of the clocks; several overloads of
`sendGraphic` on one transmitter, which `ref_serial_transmitter.hpp:47-49` forbids; a reset of the microcontroller,
after which all state is initial. Whole parts of the repository that no module models are in section 1.

## 8. Plan

1. A composition of `CommandMappings` with `CommandScheduler` in place of its reduced scheduler, and of a comprised
   command with `CommandScheduler` as its inner scheduler.
2. `CalibrateCommand`; the setters of `SmoothPid`.
