# A verification of the OSCP IMU ROS 2 driver

TLA+ modules of the driver for the OSCP inertial measurement unit, TLC
configurations that check them on small instances, and theorems that TLAPS checks
for every value of the constants.

Source abbreviations: N = `src/oscp_imu_driver/src/oscp_imu_node.cpp`,
P = `src/Libraries/oscp_imu_libraries/src/oscp_imu.c`,
H = `.../oscp_imu_libraries/oscp_imu.h`, C = `.../src/cobs.c`,
T = `src/oscp_imu_driver/src/counter_tracker.cpp`,
G = `src/Libraries/magcal_wrapper/magcal_wrapper_py/`.
`PROJECT.json` maps every definition to its lines.

## 1. The system

### Components

| component | state | operations | module |
|---|---|---|---|
| COBS codec (C) | none | encode, decode | `Cobs` |
| Frame checksum (P) | a table | crc16 | `FrameCrc` |
| Byte-stream parser (P) | `buf`, `synced`, statistics | init, feed, reset, stats_reset | `FrameParser` |
| RS-422 line and unit's stream | the bytes on their way | sends, loses, changes bytes | `SerialLink` |
| Node start-up and shutdown (N:20-600) | `fd_`, `stop_serial_thread_`, `startup_received_`, `startup_info_`, `publish_enable_` | constructor, configure_imu, verify_startup_config, read_transport, destructor | `DriverStartup` |
| Frame handling and publishing (N:600-1200) | `latest_*`, `has_*`, `last_*_counter_` | on_frame, publish | `FramePublisher` |
| Services (N:1200-1575) | calibration thread, zeroing flags and references | stationary_calibrate, zero_orientation, apply_mag_config, get_config | `Services` |
| Watchdog and statistics timers (N:285-325) | `last_frame_time_` | timer callbacks | `Watchdog`, `SilenceDetector` |
| Parameters, translators, start-up information | `config_` | declare, parse, encode, compare, get_config | `ParameterTables`, `Configuration` |
| Decoder of CAN-FD messages (P:371) | none | `oscp_frame_decode` | `FrameParser` |
| CAN-FD transport (N:362-470) | socket | open, read, write | `Configuration` |
| Counter monitor (T) | last counter, lost frames | one subscription callback | `CounterMonitor` |
| Magnetometer calibration action (G) | `calibrating`, samples | goal, cancel, execute, raw callback | `MagCalAction` |
| Sample store and ellipsoid fit (G `core.py`) | samples | reset, add, fit | `MagCalAction`; the fit's linear algebra is left out |

### How they interact

Three threads run in the node's process. The **main thread** constructs the node,
then is the executor: it runs timer and service callbacks one at a time, and at the
end the destructor. The **serial thread**, started in the constructor, reads the
transport, feeds the parser and, from the parser's callback, stores frames and
publishes. A **calibration thread** is started by one service request and joined by
a later one, or by the destructor. They share the port, the parser, the latest
frames (`frame_mutex_` covers the stores), the zeroing flags and references (no lock),
the time of the last frame and a few atomics. The unit at the other end of the line keeps a state (OPERATING or
CONFIG), its settings and the settings it has saved; a command has no checksum, and
the driver waits for no reply to one.

Two further processes subscribe to the raw topic. The counter monitor follows its
counters. The calibration action collects its samples, on an executor with two threads,
of which a goal being executed keeps one.

### What is hard

* The main thread calls `read_transport` while the serial thread is in it: the
  parser, the port and the startup frame are shared without a lock (N:257, N:579).
* The verdict on the configuration rests on one startup frame, on flags that an
  earlier one may have set, and on commands that may all have been lost (N:586-596).
* The parser has to find its way back after any loss, insertion or overflow (P:325-365).
* `publish` is called for a frame of any kind and looks at all of them (N:842-1150);
  counters have one byte, start anywhere, and start again with the unit.
* Zeroing, unzeroing and publishing happen in three threads (N:1308, N:1397).
* A thread object that is assigned to, joined and destroyed (N:1325-1345, N:328-340).
* A watchdog that measures, in an executor that other callbacks delay, a time that another
  thread stamps (N:287-298).
* A setting passes five tables before the unit has it, or before the node believes so.
* A flag set by one callback and checked by others, with goals, samples and cancellations
  between (G `magnetometer_calibration.py`:41-104).
* Registers of the unit written one by one, and saved by either of two threads.
* Steps that fail, are lost, or come too late without anyone looking at a result.

### What makes each component correct

* Codec, checksum, parser, line: a chunk between two delimiters is judged as a whole,
  once; a clean frame is delivered; nothing is delivered that was not sent, nor twice,
  nor out of order.
* Start-up: a node that publishes has a unit configured as asked; the frame it judged
  by is current; the constructor and the destructor come to an end; the unit is not
  left in CONFIG.
* Publishing: no sample twice, none older than the last; no frame kept back twice in a
  row for its counter; the parts of a joined message belong together.
* Services: one calibration at a time, and always another; published orientations are
  corrected by one reference, the latest; what is answered as saved is saved; callbacks end.
* Watchdog: a silence longer than the timeout, and no shorter one, stops the node, within
  the timer's period and one wait of the executor.
* Parameters: what a launch asks for is what the unit has and what `get_config` answers,
  through all the tables; every topic is fed.
* Monitor: what is received and what is counted as missed add up.
* Calibration action: the flag follows the goal, samples stay within bounds, a success
  rests on samples of its own session, accepted and cancelled goals end.

The hazards, each at its line and with the properties that would catch it, are listed
in `PROJECT.json`.

## 2. Modules and how they correspond to the code

```
Cobs <- FrameParser <- SerialLink  (+ FrameCrc in MCSerialLink)   refines FrameChannel
 ^-- CobsProofs <- FrameParserProofs (which extends SerialLink too)
FramePublisher <- CounterMonitor <- FramePublisherProofs
DriverStartup <- DriverStartupProofs      Services <- ServicesProofs
Watchdog <- WatchdogProofs                refines SilenceDetector
MagCalAction <- MagCalActionProofs
ParameterTables <- Configuration <- ConfigurationProofs
```

(`A <- B`: B extends A. Every module that is run has an MC module with its constants.)

**Cobs, FrameCrc.** The encoder and decoder as recursive functions over the position of
a block, the checksum with its table rebuilt from eight entries. The destination of the
codec is large enough, as it is for the parser (P decodes into a buffer of the same size).

**FrameParser.** `Feed` is `oscp_parser_feed`, `Verdict` the whole of `parser_buffer`:
decode, match a reply by its suffix, length by type, checksum. `Reset` and `StatsReset`
are the other two operations. Statistics wrap at `StatMax`. `called` is what the
callback got in the last step; `framed` and `tail` are history that remembers the raw
stream. `FrameDecode` is `oscp_frame_decode`, the decoder for whole messages. One
thread calls the parser; what two do to it is in DriverStartup.

**SerialLink.** The unit's stream and the line (external) on one side, the parser on the
other: bytes are lost, changed, repeated, inserted; the unit restarts in mid-frame; the
first frame is joined in the middle. **FrameChannel** is the abstract specification: a
channel that only loses frames. `inFlight` is the refinement mapping's queue.

**DriverStartup.** The constructor with `configure_imu` and `verify_startup_config`
(`pc`), the serial thread (`serial`) and the unit. `read_transport` is split where the
other thread matters: poll, read, feed of one frame. Sends go into `inbox` or are lost or
altered; frames come back through `rx`. A setting stands for a command with its verified
field. When both threads feed the parser, a frame of either may be spoiled, and what
they left in it may spoil one more (`garbled`).

**FramePublisher.** `OnFrame` and `Publish`, with a sample and a counter for a frame's
payload. A topic names its parts and the frame whose counter it follows; the standard Imu
message joins the raw frame and the quaternion. One step handles one frame, because after
the constructor only the serial thread stores and publishes.

**Services.** The executor's callbacks (`pc`), the calibration thread (`worker`) and a
publication of an orientation (`reading`), split wherever another thread may come
between: flag and reference, word and word, register and register, flag and flag. The
unit obeys WR and SAVE in CONFIG only, as H:497 says.

**CounterMonitor.** `RawCallback` behind the publisher: each message it publishes on the
raw topic is delivered in the same step, or lost. `first`, `latestSeen` and `blurred` are
history: the true samples, against which the eight-bit sums are judged.

**Watchdog** refines **SilenceDetector.** `OnFrame` stamps, `Look` is the timer's callback,
`TakeCallbacks` what else the executor does in one wait, `Tick` the clock. Time counts
from `EnablePublish` on, in ticks shorter than the millisecond to which the code truncates.
`last_frame_time_` is neither atomic nor guarded; it is read and written as a whole here, as
a 64-bit machine does with its 64-bit count.

**ParameterTables** has the tables as the code writes them, one by one: declared defaults,
`parse*`, `to_oscp`, `*ToStartup`, `startupTo*`, `toString`, the registers' mnemonics, the
commands of `configure_imu` in order, and the frames of each topic. **Configuration** runs
a launch through them: parse, open, reset, configure, clear, SUF, EXIT, verify. The unit
(external) takes an argument for what H says it means, and packs its settings into the
bit fields of a startup frame. Two descriptions except values that the parsers take:
`LP_AND_HP` for the accelerometer (N:86) and C4-C7 for the gyro's high-pass filter (N:77).
Nothing says what a unit makes of these (`Excepted`): the model's unit may ignore such a
command, obey it, or take another value for it (`Deviates`), without that being a fault.
The order of threads is left to DriverStartup, the tables are left to Configuration.

**MagCalAction.** `pc` and `task` say what each thread of the executor does; each access
to `calibrating` or to the samples is a step: `raw_callback` reads the flag (`RawCallback`),
then the number of samples (`CheckCount`), then appends; `calibrate` checks the number of
samples (`CheckReady`, `core.py`:89), copies them (`TakeData`, :95) and fits the copy
(`Fit`); `succeed()` follows (`Succeed`). Samples count as `fresh` or `stale`: let in before
the samples were last cleared, appended after; `data` is what a thread has copied. Two
variables are history: `raced`, a goal was accepted beside another, and `undercut`, the
threads whose samples another goal cleared between the check of their number and the copy.
Time does not matter, only when a loop polls.

## 3. What the runs check

| run | question | states |
|---|---|---|
| `frame_parser` | Every byte sequence on a small parser: is the buffer the chunk since the last delimiter, is every chunk counted once, as what it is, and does the decoder for messages agree? | 70 000 |
| `serial_link` | The real lengths, replies, COBS and CRC under two line faults: is a clean frame delivered, and are line and parser a channel that only loses frames? | 1.2 million |
| `driver_startup` | Under two faults: does publishing mean configured, on current evidence; do constructor and destructor end; is CONFIG left? | 340 000 |
| `frame_publisher` | Lost frames, restarts, wrapping counters: are topics monotone, never silent twice for a counter, do the joined parts belong together, and are the monitor's sums exact? | 1.4 million |
| `services` | Three requests of any kind against the calibration and the publisher: threads, registers, corrections, ends. | 375 000 |
| `configuration` | Every text of every parameter, every set of topics, transports and rates, under one fault, and a unit that may mistake excepted values: does publishing mean the unit is as asked, and does a launch without faults apply what is valid, with every topic fed? | 565 000 |
| `watchdog` | Units that are just quick enough, fall silent, come back or never stream, and a delayed executor: is it a detector of silence? | 3 200 |
| `mag_action` | Two goals on two threads: who holds the flag, how many samples, on which of them does a success rest, does a cancelled goal end, does an undisturbed one? | 14 600 |

Each property has a mutant, defined beside the action it changes ("Mutant of ..."): a
plausible bug of that code, with which the property's run fails.

### Bounds

* `frame_parser`: four byte values, capacity 5, blocks of at most two bytes, two frame
  types and two replies. That includes full COBS blocks, an overflow, a chunk of just the
  capacity, each kind of error, a chunk that is both a reply and a frame, and wrapped
  statistics. The stream's length is not bounded.
* `serial_link`: a reply, three attitude frames of 25 bytes and a reply; two faults
  anywhere. Three frames without their delimiters would overflow `buf`; two faults
  cover a lost delimiter with a changed byte, a restart with an inserted one, and so on.
  A changed byte is one with bit 0 or bit 6 flipped.
* `driver_startup`: two settings (sent and verified), two values, two faults, two frames
  in the receive buffer. `MaxInbox` is the number of commands sent after RESET, so it
  never holds the constructor back. The settings the unit saved before are all those with
  the first one different from the request; by symmetry one of them has to differ for a
  lost command to matter.
* `frame_publisher`: three counter values for 256 and five samples: a counter wraps,
  comes back to the last published one, and starts again. Five samples are more than a
  round of the counter, so that the monitor's sums are wrong when `blurred` says they may be.
* `services`: two forms of orientation and two registers of each kind, so that each
  sequence can be interrupted between two parts; three requests; one command lost.
* `configuration`: launches that differ from the defaults in one thing: a parameter's text
  (each, unset, none of them) with each value saved in the unit; topics (all sets), with no or
  all frames saved; transport, baud rate (one unsupported, one unset) and the unit's rate.
  Parameters meet only in the bit fields of a startup frame, where the others have their
  defaults; one fault is a command or a frame lost, or a command with another argument.
* `watchdog`: a timeout of 6 ms of two ticks, a period of 5 ticks, callbacks of up to 7, so
  that a look may come more than a period late, and a unit that sends each 13 ticks, the
  longest that the truncated age lets pass.
* `mag_action`: the two threads of the code; two goals, which is what it takes to hold both,
  to clear the other's samples or flag, or to be rejected; two samples, so that a session may
  be half complete. The samples are bounded by the code, not by the model. A third goal
  can only wait for one of the two threads; the safety properties are proved for any number.

### Assumptions

* `Settles`: the sleeps after RESET (250 ms, and those in `configure_imu`) outlast the
  unit's restart, and the serial thread has handled its startup frame. Without it
  `EvidenceIsCurrent` does not hold: a startup frame of the boot could be taken for the
  answer to SUF. The driver relies on it and cannot check it.
* `ConfigurationAssumption`: the unit keeps one of its baud rates and settings whose texts
  its own parser reads, and the topics asked for are those the node knows. A rate that is no
  number of the unit's table may be asked for (`baudrate` is any integer), not kept.
* `StreamAssumption`: a frame of the unit is made of bytes, is of the length of its type, has
  the checksum of its bytes and fits the parser's buffer when encoded; a changed byte is a
  byte. TLC evaluates it with the real checksum.
* `vmin` is what the port's `c_cc[VMIN]` happens to be, 0 or 1: `init_rs422` leaves it
  alone. `ConstructorReturns` and `ShutdownCompletes` are stated for 0; what 1 does is
  the finding `startup_blocks`.
* A calibration's measuring time is finite. It is the client's `duration`, which N:1238 does
  not check. `CalibrationAvailableAgain` and `CallbacksEnd` depend on it, nothing else does.
* A unit's treatment of the values that the descriptions except (N:77, N:86) is not known.
  `FaultFreeApplies` promises the settings of the other values, and a node that publishes
  if no excepted value is asked for; `PublishesAsAsked` is for all values.
* The unit is modelled from H and from how N uses it. Everything external is marked so.
* A value read half written is a nondeterministic choice (`Torn`, `garbled`).

### Fairness

DriverStartup: weak fairness of the main thread, of the serial thread and of the unit's
handling of commands: operating-system threads that are runnable run, and a unit that is
powered answers. Services: weak fairness of the calibration thread, of the executor's
callbacks and of a publication that has begun. Watchdog: time passes, the executor serves a
timer that is due, a unit that streams sends. MagCalAction: weak fairness of every callback
under way, strong fairness of each goal's turn: the executor's queue is served in order, so
that what waits in it gets a thread when threads come free again and again. Only
`AcceptedGoalEnds` assumes, in its own premise `Streams`, that samples come, find a thread
and are usable, again and again. Otherwise nothing obliges the unit to stream, a client to
ask, a frame to be lost or the process to be ended. The other modules state safety only.

Deadlock is not checked in DriverStartup, where both threads may wait for bytes that
need not come (`startup_blocks` says when that is wrong), in FramePublisher, which
stops at `MaxSample`, in Configuration, which ends with the constructor, in Watchdog, which
ends with the node, and in MagCalAction, where all goals may have ended and no sample come.
It is checked in all other passing runs.

### Disagreements found

Four runs check a statement of the repository that the code does not keep:

| run | statement | what happens |
|---|---|---|
| `startup_blocks` | the node shuts itself down when no frames come (N:134) | the constructor's own read waits for ever for bytes the serial thread took |
| `parser_shared` | H:7-9: the parser needs external synchronisation | two threads feed it at the same time |
| `mag_applied` | N:1551: "applied and saved successfully" | the unit is in OPERATING and ignores every command |
| `executor_starved` | G `magnetometer_calibration.py`:102: the executor lets the raw callback continue on another thread | two goals accepted before either sets the flag keep both threads, and neither gets a sample |

Met while modelling, with no property of their own:

* N:77 says "C4-C7 reserved for gyro HPF" and N:86 "no LP_AND_HP for accel". Both parameters
  are read with the parsers of the other filters (N:167, N:168), which take every enumerator,
  and `configure_imu` writes the value. The node publishes if the unit says that it took it.
* N:42 offers the transport CANFD. Commands are written to the CAN socket as bare bytes
  (N:471), which it does not take for frames, and payloads go to the byte-stream parser
  (N:442), of which H:454 says "CAN-FD users: do NOT use this section". In the model
  (`Connected`) such a node never has a startup frame, does not publish, and shuts ROS down
  (N:277): no claim about launches that succeed includes CAN-FD.
* `misalignment_correction` is declared to enable a correction (N:81), and no command for
  it is ever sent. The default configuration names it `misalignment`, and `pub_accel_in_g`,
  neither of which the node declares.
* A zeroing between the flags that the calibration thread clears (N:1308) leaves one
  form zeroed and the other not.
* Another accepted goal's reset between `core.py`:89 and :95 leaves fewer samples to copy, and
  the fit of those may succeed (`undercut`). It takes a goal accepted beside
  another (`raced`), both threads, and a switch between these two lines.
* A baud rate that is not supported becomes 921600, with a warning (N:412), and not an error.
* The README of the driver gives defaults for `device` and `baudrate`; the code declares
  an empty name and -1, so that both have to be set.
* The client of the calibration action and its server use different names.
* In IDLE mode the unit sends no frames, and the watchdog ends the node.

## 4. What is proved

TLAPS checks these for all values of the constants, from the named assumptions of the
modules only.

**CobsProofs**: `DecodeInvertsEncode`, `EncodedShape`, `DecodedShape`, for every sequence of
bytes and every size of a block. The codec walks over positions; what it computes is
described by a recursive function, and its values are facts about all positions at once, which
needs induction over data. The library states induction for an operator, which the provers
cannot take as a parameter; it is derived here for sets instead, from the pigeonhole principle
(`FS_PigeonHole`): of a set of positions without a least counterexample there is none. The
decoder's run over an encoded sequence is then followed block by block: a run of bytes
without a zero, its code, and the zero that the code stands for, unless the block is full.

**FrameParserProofs**: `TypeCorrect`, `BufferCorrect`, `AccountingCorrect` of the parser alone. The inductive
invariant is `TypeOK` and `BufferHoldsChunk` together: that the buffer equals the chunk
needs its bound, and the bound after an append needs to know when the parser is in
sync. `EveryChunkAccounted` then follows step by step: a delimiter judges `buf`, which is
the chunk; another byte either fits or makes the chunk too long exactly once. The codec and
checksum are not opened, so these hold for any. `TransportsCorrect` follows from the account of
a chunk, with a case for each relation of its length to the one its type has.

Of line and parser together: `CleanFramesArrive`, for every stream, any corruption of bytes
and any number of faults, and `FaultlessLine`, the refinement of FrameChannel on a line
without faults. `LinkInv` adds to the parser's
invariant what is on the way: `left` is the rest of the frame begun, `inFlight` the frame whose
fate is open (`FateOpen`), and, as long as a frame begun behind a delimiter met no fault,
`tail` is the part of it that was sent (`InStep`). At its delimiter `tail` is then
`CobsEncode` of its bytes, the codec gives the bytes back, and `StreamAssumption` says what
the parser makes of these. No property of the checksum is needed for that.
The refinement under faults is model-checked only (`OnlyLosesFrames` in `serial_link`, with
the real checksum). It is no theorem of this model: a checksum of 16 bits is no injection, so
some change of a frame passes; and a reply is recognised by the text at the end of a chunk,
before any checksum (P:257), so that changed bytes can make one. The lemma `IntactChannel` has
the step: it refines the channel if the chunk that the parser accepts in it is a whole frame
as sent. That is too much to ask under faults (a reply behind a frame whose delimiter was
lost is accepted as well); `FaultlessLine` shows that it is so where no byte is changed, lost
or added.

**FramePublisherProofs**, first part: `PublisherTypeCorrect`, `OnlyNewerSamples`. `OrderInv`: a frame
still to be sent is newer than the latest of its kind, and a topic that has shown its
latest frame holds that frame's counter. The second half is what `Due` relies on: without
it a frame of another kind could have the same sample published again.

**ServicesProofs**: `ServicesTypeCorrect`, `CalibrationsSeparate`, `AppliedIsSaved`,
`QuietIsExact`. Four parts, each inductive with the types: `ThreadInv` ties `active` and
`joinable` to where the thread is; `SavedInv` follows a request register by register, and
needs that the two sets of registers are disjoint; `ZeroInv` says which references are
complete in the middle of a callback; `ReadInv` what an undisturbed reader has read.

**DriverStartupProofs**: `StartupTypeCorrect`, and, assuming `Settles`, `EvidenceCurrent`
and `VerifiedConfigured`, for any settings, faults and buffer lengths. The invariant says
what is on the line in each phase: from CONFIG on nothing of the restart is left; no startup
frame is made between CONFIG and SUF, and the flag is cleared in between; no setting
follows SUF in `inbox`, so a startup frame made after SUF, wherever it is (in `rx`, in
either thread's batch, in `info`), shows the unit's settings for good. All of it holds only
until the unit restarts by itself, which the driver cannot tell.

**FramePublisherProofs**, second part: `TopicsNeverSkipTwice`, `ImuJoinsNeighbours`,
`MonitorIsExact` (of CounterMonitor). Since the unit last restarted the counter of each latest
frame is as many behind the unit's as samples were taken since, but for a multiple of 256
(`CountInv`); `GapOf` says what the eight-bit difference of two such counters is. A topic
that missed a frame holds that frame's counter (`SkippedInv`), so it differs from the next
one's. The proof of the monitor rests on that of the publisher: the raw topic's messages have
samples that grow.

**WatchdogProofs**: `LooksAreBounded`, `HealthyNeverStopped`, `WatchdogIsDetector`. The age of
the stamp and the time until the next look are bounded together: a look that comes late
is late by less than one wait, and the timer keeps its phase, so that lateness does not
add up. The refinement's safety part follows step by step; that a stop follows in the end
is a matter of fairness, for TLC (`DetectsSilence`).

**MagCalActionProofs**: `ActionTypeCorrect`, `FlagIsHeld`, `SamplesAreBounded`,
`SuccessIsEarned`. `ExecInv`, `OneInv` and `CollectInv` are about the flag: it is set only
while a thread executes, and, until a goal is accepted beside another, there is one goal and
the flag is set as long as it collects. The bounds on samples count those there are and the
threads about to add one. A thread that lets a message in needs the flag, the flag needs a
thread that executes, and that thread adds nothing; so fewer threads than there are have a
message (`MessageInv`), which bounds the samples (`RoomInv`) and the stale ones (`StaleInv`).
`DataInv` carries this over to the copy: samples that were enough at the check stay enough
until the copy unless they are cleared, which makes the thread one of `undercut`.

**ConfigurationProofs**: `TypeCorrect`, `SettingsAsAsked`, `CleanLaunchApplies`,
`CleanLaunchFeeds`: every invariant of the run `configuration`, for any set of launches, so
for any texts asked of all the parameters at once (TLC varies one at a time), any settings
and frames saved before, any topics and rates, any number of commands and frames lost or
altered. The tables are opened once, kind by kind, for what they have in common
(`EnumTable`, `StartupTable`, `MeaningTable`, `SettingSets`): an enumerator's argument means that
enumerator and is accepted; its startup code fits its bits and is read back as its text;
a command sets one parameter. `Described` leaves out the parameters with an excepted value. `FieldsShow` is the packing and unpacking of the startup
frame's bits, `CommandsOrdered` the place of each command of `configure_imu`. The invariant then has
two parts. `Shown`: between SUF and the verdict no setting changes, so a frame received
shows what the unit has, whatever was lost before; with `Matches` and the tables' injectivity
that is what is wanted. `Progress`: while there was no fault, the first `sent` commands
have done what they say (`Done`), later ones undo nothing of it, and SUF finds the unit in CONFIG.
That the second frame only counts once the first is forgotten is what makes it inductive.

Every safety property of the passing runs is the subject of a theorem; of `OnlyLosesFrames`
only the line without faults. Model-checked only: the channel under faults, and
the liveness properties `ConstructorReturns`, `ShutdownCompletes`, `LeavesConfig`,
`CalibrationAvailableAgain`, `CallbacksEnd`, `DetectsSilence`, `CancelledGoalEnds` and
`AcceptedGoalEnds` (fairness and ENABLED are beyond the provers). FrameCrc, whose table is folded over the bytes,
has no theorem: what would be worth proving of it is a bound on undetected changes.

## 5. Not modelled

* The text of commands and their framing (`frame_ascii_cmd`), float and unit conversions,
  quaternion algebra, averages, covariance, YAML, the ellipsoid fit: data, or floating
  point, on which no control depends but success or failure, which is a choice here.
* Commands the driver never sends (OF, REFS, EMCORR, DMCORR).
* Logging and the statistics timer, which change nothing: they keep the executor busy.
* The monitor's per-topic counts, CSV file and time limit.
* Messages, services, launch and build files: declarations.
* Memory orders. A race is modelled by the interleavings and torn values it can produce
  at the granularity of a field, not by a memory model.

## 6. Plan

Done: all parts whose control the code decides, each with its runs; eight proof modules,
with a theorem for every safety property that a run checks, for one of them without faults only. What could be added, in this order:

1. `CobsLoops`: the byte loops of C with their capacity checks, refined to `Cobs`.
2. A timed DriverStartup, with the sleeps as delays, in which `Settles` follows from a
   bound on the unit's restart instead of being assumed.
3. A lemma about the checksum, that a change of one byte never passes, and with it the
   refinement of FrameChannel for lines that change a byte and lose none.
4. The verdict of DriverStartup and that of Configuration as one: a refinement of the
   first's settings to the second's tables.
