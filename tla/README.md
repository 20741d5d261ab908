# TLA+ models of dual-imu-monitor

An STM32MP157 board reads two inertial sensors: an MPU6050 that its Cortex-M4
samples over bit-banged I²C, and an ICM20608 behind a Linux driver. The M4 sends
frames over RPMsg to `/dev/ttyRPMSG0`; a Python reader on the board pairs each of
them with an ICM reading and prints one line; a PyQt window on the host runs that
reader over ssh, plots, fuses the two sensors and integrates a trajectory.

This directory models the control of that system: who may do what when, what
is kept, dropped, counted and started again. It does not model the arithmetic
of the filters, but for the one on the clocks of board and M4, which decides what
the window accepts.

Run a model with `tlc -config X.cfg M`, check the proofs with `tlapm M.tla`.
Paths below are relative to the repository.

## Inventory

| Component | State | Operations | Interacts with | Module |
|---|---|---|---|---|
| Reader tools: `tools/monitor_dual_imu.py`, `monitor_rpmsg_imu.py`, `attitude_rpmsg_imu.py`, `read_rpmsg_imu.py` | lock file, device, byte buffer, loop | lock, open, flush, `start`, read, `stop`, close | firmware through the RPMsg channel; each other through the lock | `StreamControl` |
| Frame decoder in the same tools | byte buffer | find the magic, drop, accept, reject | tty input | `Framing`, `Scanner`, `Packets` |
| RPMsg firmware `m4/src/mpu6050_rpmsg.c`, `virt_uart_compat.c` | `stream_enabled`, `sequence`, deadline, `tx_errors`, zero streak, cooldown | receive a command, sample, re-initialise, transmit | reader tools, sensor, remoteproc | `StreamControl`, `Sampler` |
| SRAM firmware `m4/src/mpu6050.c` and `tools/validate_m4_sampling.py` | status page, millisecond schedule | sample, publish; read twice and compare | shared memory, no lock | `SramStatus` |
| Clocks of the monitor `tools/monitor_dual_imu.py` | filtered offset of the two clocks, error counters, last ICM reading | one frame: map its stamp, read the ICM, print the age | firmware's stamps, the window's gates | `MonitorClock` |
| Fusion state machine `tools/fusion_state.py` | saturation flag, two counters, state | update per frame, reset | window, monitor's ages | `Fusion`, `Hysteresis`, `FusedFrame` |
| Trajectory input of the window `gui/app.py` (`accept_sample`, `clear_data`, the ZUPT box) with the counters of the monitor | deques, calibration, time base, error counters last seen | one frame, clear, new connection | monitor's lines, the filter `tools/eskf.py` | `Trajectory` |
| Session of the window `gui/app.py` (`StreamWorker`, `MainWindow`) | worker, process, ssh master, flags, timers, trace, queued signals | start, stop, reconnect, close, each step of the worker | ssh, event queue | `GuiSession` |
| M4 start and stop `tools/m4-rpmsg-autostart.sh`, `start_*.sh`, systemd units | remoteproc state | stop, start | firmware, readers | `StreamControl` (`M4Stop`, `M4Start`) |
| I²C by bit-banging, in both firmwares | the two lines, the transfer under way; the sensor's own state | start, stop, bytes, register transfers, recovery | sensor, remoteproc | `I2cBus` |
| GPIO set-up | GPIOB registers | read-modify-write | Linux pin control | not modelled |
| Calibration tool `tools/calibrate_dual_imu.py` and `_load_calibration` of the window | rests and poses of a log, stages, the JSON files | align, fit, segment, write; load | the file the window reads | `Calibration`, `StaticPoses` |
| Error-state Kalman filter `tools/eskf.py` | vectors and matrices; position history | predict, update, record | trajectory input | control only: `FusedFrame` (times of the history), `Trajectory` (what is fed, when) |
| Plotting, installers, probes, recorded logs | - | - | - | not modelled |

What is hard in it:

- **Ordering across processes.** A command of one session travels in the same
  queue as the next session's. Any process may die at any step, and the M4 may be
  restarted under an open device.
- **Threads.** The window's main thread looks into a worker thread's fields
  without a lock, and their signals are queued.
- **Memory shared without a lock**, published word by word (the status page).
- **A device that keeps its state** while the M4 is stopped in the middle of a transfer
  with it and started again.
- **A byte stream** that may be cut anywhere and whose payload may look like a frame.
- **Two clocks** that are compared through a filter while frames are delayed, lost
  and queued up.
- **A file** that is written key by key while another program may read it.
- **Counters**: they wrap (cycles, milliseconds), are reset in part (hysteresis,
  zero streak, cooldown), or are compared with a remembered value (`spi_errors`).
- **What was remembered and no longer holds**: deques and a time base that must
  not span a gap, a stale ICM buffer, a tty buffer of an earlier session.

`PROJECT.json` lists each hazard at its line with the properties that cover it.

## Modules

### StreamControl

Any number of readers, one firmware. A reader goes through the steps of
`MpuReader` and `main`: lock, open, set up and flush, write `start`, (open the
ICM), loop, write `stop`, wait, close, unlock. The finally clause begins at
`reading`. `Die` is Ctrl+C outside of the try block (`"int"`), or an uncaught
signal anywhere (`"kill"`). `Flushing` and `Patient` tell the four tools apart:
`read_rpmsg_imu` does not flush, `monitor_rpmsg_imu` has no read timeout. The
channel to the M4 is a bounded sequence and a write fails when it is full; the
channel back is the tty's bounded input buffer, which drops silently when full,
and `tx_errors`, which wraps, counts what the firmware could not send. A frame is made
in two steps: `SampleFrame` numbers it before the sensor is read, which takes most of the
period, and `SendFrame` transmits it, so that a flush, a death or a restart may come
between; `stop` does not, because the firmware looks for commands between two frames.
`M4Stop` hangs up every open device and empties both channels. A frame is its sequence
number and the two counters at the time it is sent. The lock file, the kernel's clean-up of
a dead process and the tty are external. `dropped`, `mark` and `unclean` are history.

`FreshFrames` is about when a frame was sent, not when it was sampled: after an unclean
end left the stream on, one frame that was being sampled when the next reader flushed
reaches that reader, and none that had been sent.

### Framing, Scanner, Packets

`Framing` is the loop all four tools share, one action per iteration: too short,
no magic (keep three bytes), then from the first magic on: incomplete, a frame,
or no frame (drop one byte). `Arrive` is `os.read`: any bytes, cut anywhere.
`Packet` is the set of byte sequences that pass the test of version, size and
checksum. `Scanner` is what the loop should amount to: one pass over the bytes
received that skips a place only when no frame can start there whatever follows.
`Framing` implements it with `pos <- Gone`. `MCFraming` has the small protocol.

### Sampler

One action per pass of the firmware's loop: idle, wait, or sample. A pass takes a
chosen number of cycles; `lag` is the true time since the next frame was due,
kept without wrapping. The sensor is absent, asleep (its registers were reset,
so it reads zero) or ready, and may be disturbed between passes or during one.
`Init` stands for everything before the loop: the probe at 0x68 and 0x69 and the
first configuration. A read takes 16.6 ms of a 20 ms period (README.md:1260-1272) and
`sensor_configure`, five writes of three bytes, about as long again: the frame that
configures is over some 35 ms after it was due, and the frames after it make up for the
15 ms by some 3.5 ms each. `TimingAssumption` says just this.

### I2cBus

Every call of `lines_high`, `lines_low` and `read_line` is a step. The functions
`i2c_start`, `i2c_write_byte` and so on are the sequences of calls they make;
`calls` is the one under way, `made` how many of its calls have been made, and `at`
says where in the transfer it was called, so that an action is the code that runs
when it has returned. Levels and bits are 0 and 1, as in the code. The
transfers are called in any order, for either address, which includes the order
of `main`. The sensor is external: it follows the I²C standard, sees starts,
stops and clocks in the edges of the lines (a line is high when neither side pulls
it), acknowledges its address and the bytes written to it, and sends until it is
not acknowledged. Its registers hold any of `SensorBytes`. Where one store lets go
of both lines, either may rise first. `Restart` is remoteproc at any step: pins and
sensor stay as they are. `BusInit` has the pins become outputs with both lines low,
as after a reset, or high.

### Fusion, Hysteresis

`Fusion` is one `update`: the two counters with their partial resets (`Detect`),
the gates (`Usable`), the choice of the state (`Choose`). The MPU's Y is in one
of four bands, cut at the exit, enter and hard limits; the ICM is valid or not.
`Hysteresis` is the promise: enter after so many high frames in a row, leave
after so many low ones. `Reset` is a new state machine, as `clear_data` makes one.

### MonitorClock, FusedFrame

`MonitorClock` is one pass of the monitor's loop, in units of time: a frame is under
way for one of `Delays`, up to `MaxLost` before it are lost, reading the ICM takes
one of `Reads`, and a frame is not taken before the last reading is done (so that
frames queue up behind a slow one). The M4's clock is the reference and only
distances to the frame's arrival are kept: `offset` is the filtered estimate,
`in_step` and `passed` say that `sync_errors` and `spi_errors` stood still, `age` is
the printed age. That a reading passed means that the buffer was not all zero after it,
no more: see `Trajectory`. Integer division stands for the product with `OFFSET_ALPHA`.

`FusedFrame` extends it and `Fusion` by the window: the ways through
`accept_sample` (unparsed, rejected, first after a gap, break, following), each with
the step of the fusion state machine it makes, and `since`, the distance to the last
time in `history_times`, against which `record_position` checks the next. A break
clears everything in the same step. A calibration may complete at any frame, because
what it needs is in `Trajectory`.

### Trajectory

`accept_sample` by the return it leaves through: unparsed, invalid, first after
a gap, break of the time base, following. The deques hold the frames the code's
arrays come from, numbered as they were delivered. A reading of the ICM fills the
monitor's one buffer with values or with zeros, or fails and leaves it as it was; its
result is not looked at, and only a buffer that is all zero counts as an error.
`reading` says for which frame the buffer got its values, `erred` (history) when it last
counted as an error. The monitor's error counters run on while the window's copies are cleared. ZUPT is on at first and is switched at
any time. A new connection skips one number,
so that nothing after it continues what was before.

### GuiSession

Workers are numbered as they are created. A worker goes through set-up commands,
the probe, the ssh process and its lines, and the finally clause; the main thread
handles one click, timer or signal at a time, except that `stop()` and
`closeEvent` are cut into steps at every read of `self.process`, between which
the worker moves. `ssh` is the operating system's view of the process, `attr`
whether `self.process` is set, `master` whether the ssh master is up.
Stop gives Start back at once when the worker is over already, so that a new session can
begin while signals of the last are queued: `overtaken` (history) are the workers this
happened to, `late` those of them whose "finished" has come into the current session.
`CleanSession` and `TraceOpen` say what is left then. Samples of an earlier session are
held only along an unbroken chain of overtaken workers, in order and never interleaved;
the trace, Start and the timer belong to the current session until a late "finished"
comes.
`BeginStream` also resets the flags of old workers, which nothing reads any
more: it keeps the states few. Opening the trace file is taken to succeed. With `--demo` a
worker makes up its samples, and the window starts once by itself.

### SramStatus

The firmware stores accelerations, angular rates and times, then, after a
barrier, the sequence number; `read_consistent` reads the page twice. A field
holds the number of the sample that wrote it. Stores and loads are taken to be
seen in program order (device memory, mapped uncached); the three words of a
vector are one step. The millisecond counter has `Wrap` values. `good` and `overlapped`
are history: which sample the data words of a number should be, and whether a word was
stored while the pass that is returned was copied, or part of the next sample was there
before.

### Calibration, StaticPoses

`Calibration` goes through the stages of `main`; what a fit returns, and whether its
quality suffices, is a choice. Every write of a JSON file is cut into the
truncation, one step per key and the close, in the order `json.dump` writes them,
and the tool may end by an exception or Ctrl+C at any step. The two outputs are one
file here: the user may name the same for both, and the window loads one.
`LoadCalibration` may happen at any time. A key in the file, and a value in the
window, carries the version it was written in. `StaticPoses` is
`segment_static_poses`, frame by frame and then run by run; a frame is still or not,
a rest has a direction, an integer angle.

## Runs

| Run | What it shows | Bounds |
|---|---|---|
| `stream` | Lock, order of start and stop, no frame sent before the flush, accounting of gaps; readers are served and let go | Two readers, one of each kind; two command buffers, so that one session's `stop` and the next's `start` meet and a third write fails; two frames of tty buffer and four of stream, so that it overflows; `tx_errors` has two values, so that it wraps; one restart. 63,791 states |
| `stream_left_on` | **Violation**: a Ctrl+C between `start` and the try block leaves the stream on | same |
| `framing` | The decoder is a left-to-right scan and loses no frame | Frames of four bytes, magic of two, every stream of nine bytes in chunks of up to three: two frames, a frame inside a false one, a magic cut in two. 424,826 states |
| `i2c` | Transfers mean what they should, leave the bus free and put it right after a restart | Two restarts at any line call and two transfers after each, of bursts of one and two bytes (0x00, 0x5A): the second restart may hit the recovery of the first. 1.9 million states |
| `i2c_unrecovered` | **Violation**: the recovery does not always end the unfinished transaction | same |
| `sampler` | Frames keep real time; zero frames end; the sensor is woken up | Counter of eight periods, so that it wraps; a sample takes three quarters of a period and configuring a whole one, so that three frames have to catch up; four disturbances; 3 zero frames and a cooldown of 5, in the same order as 10 and 25. 58,794 states |
| `fused` | ICM values are used for their own frame only, recorded times increase, hysteresis is implemented, the clocks come back in step | A period of 4 units; jump and age limit of 2 and 3, as 20 and 30 ms; delays from none to four periods and one lost frame, so that the offset is thrown off in both directions, frames arrive in a burst, and a gap breaks the time base; two samples for either count. 11,418 states, each with hundreds of steps |
| `trajectory` | Buffers never span a gap, no reading counted as an error is used nor one from before it | Calibration of 3 frames, window of 2, update every 2, and ten frames, enough for calibration, a window, a gravity update, a break and another calibration. 953,890 states |
| `gui` | One worker, no lost reconnection, sessions mixed only where a worker was overtaken, masters cleaned up; cancel, reconnection and close come to their end | Two workers, one that ends late and its successor; one sample in the queue; demo or not. With three workers the invariants hold too (2.6 million states, safety only); the theorems are for any number of both. 77,002 states |
| `gui_stop_lost` | **Violation**: `stop()` just before the process is stored ends nothing | One worker |
| `sram` | A frame is never older than its sequence says, and whole if no store met its copying; schedule and stamps survive overruns and the wrap | Period 2, samples of up to 3, counter of 12, five samples, two attempts. 2.8 million states |
| `calibration` | The poses are the rests that should count; a window has one calibration or none | Two runs, so that a window and a second run meet a file of the first; logs of up to eight frames with rests of two and more, three directions of which neighbours are near and the outer ones are not, and rests without a direction. 1.8 million states |

`fused` scales the code's numbers down. What they have to satisfy is
`RateAssumption`, that the filter is slower than the frames, and it holds for the
real ones (period 20 ms, jump 20 ms, 1/`OFFSET_ALPHA` 20): 19 * 20 > 20 + 19. The
theorems hold for all numbers that satisfy it.

`CHECK_DEADLOCK FALSE` is set where the system stops: a decoder that gave up, a
reader of the page that is done or failed, and frames, samples or transfers at their bound.

### Fairness

- `StreamControl`: the firmware finishes the frame it has begun (`SendFrame`) and looks
  for commands in every pass of its loop, between any two frames, so that sampling does
  not keep it from them for ever (`ReceiveCommand`, strongly fair); a process
  that is not waiting for input runs on (`Running`); a read without data times out
  (`ReadTimeout`, not for `Patient` readers). No fairness for starting, leaving a
  loop, dying or restarting the M4 (`M4Start` least of all: nobody has to).
- `Sampler`: the loop goes on.
- `FusedFrame`: frames go on (`Frame`). `BackInStep` is stated for a system whose
  frames are, from some time on, hardly delayed; nothing else is assumed of the
  delays.
- `GuiSession`: threads are scheduled (`Progress`, `BreakLoop`: a reader that was not
  stopped prints a line every 20 ms, so the loop sees `_stopping`); the event loop
  turns and timers fire; a process that was sent SIGTERM ends. ssh does not have to
  end by itself, and no command has to succeed.

### Where the code differs from what is written

- `stream_left_on`: README.md:1640 says that no stream is left behind.
- `gui_stop_lost`: gui/README.md:56 says that stopping cancels what is under way.
- `i2c_unrecovered`: m4/src/mpu6050.c:273 and README.md:1239 say that nine clocks and a
  STOP recover a sensor that is stuck in a transaction. They do not if the M4 was
  stopped after seven bits of the address, or while the sensor acknowledged a byte
  written to it: in both cases it pulls SDA low when the last clock is high, and no
  STOP is seen. `BusFree` and `TransfersTrue` say what is left of the promise: the
  first transfer after the start, which may fail, puts the bus right.

The following are in the models, and the properties beside them say what does hold:

- A torn frame of the status page. README.md:1231: "Linux 读取端连续两次看到相同序号时，才把该内容视为一帧一致的数据"
  (only when Linux sees the same number twice running is the content taken as one
  consistent frame).
  `read_consistent` (tools/validate_m4_sampling.py:15-22) returns its second pass, whose
  data are copied after both numbers were: they may be of the next sample or of several,
  under the older number. `WholeFrame`: never of an older sample, and of that one only, if
  no store met the copying.
- Sessions of the window that mix. gui/README.md:48: "每次重新开始或自动重连都会清空并重新初始化", README.md:1603:
  "每次重连尝试清空旧数据和 ESKF" (every start and every reconnection clears and initialises
  again). When the worker is over but its signals still wait, Stop gives Start back
  (gui/app.py:736), and a session begun then (704-727) is given the old worker's samples
  after it was cleared; they enter its calibration. `CleanSession`: only from workers that
  were overtaken so.
- In the same case the old worker's `stream_finished` (gui/app.py:756-768) closes the
  trace of the new session, although gui/README.md:66 has "停止/关闭时追加平滑历史；开始、清空、停止有事件标记"
  (the smoothed history is appended on stop and close; start, clear and stop are
  marked): the rest of that session is not recorded, Start is given back while it runs,
  or the reconnect timer is started. `TraceOpen`: only after a late "finished".
- A failed ICM reading that counts as valid. ICM20608_FUSION_PIPELINE.md:437 asks for
  "SPI 读取成功" (the SPI reading succeeded), and line 557 has the curve interrupted when data
  are invalid: "SPI 失败、超时、全 0 样本" (SPI failure, timeout, all-zero sample). The monitor
  ignores what `read` returns and tests the buffer only (tools/monitor_dual_imu.py:129-132):
  after a failed read it still holds the last values, which are stamped with the new time
  and raise no `spi_errors`. `ReadSinceError` and `FallbackIsTimely` are about readings
  that were counted as errors, and about the time of the read.
- Before the first ICM reading the monitor prints `icm_t=nan`, which the window's regular
  expression does not match (gui/app.py:75), so that not even the MPU is shown
  (`Unparsed`, `LineUnparsed`). gui/README.md:34: "MPU Y 可用而 ICM 不可用时，可以继续显示 MPU" (when MPU Y
  is available and the ICM is not, the MPU can still be shown). Afterwards an ICM that
  fails leaves the last temperature in place and the line is parsed.

What the code also does, and no property speaks of:

- The regular expressions of `tools/calibrate_dual_imu.py` and of `_replay` in
  `tools/fusion_state.py` expect the age right after `icm_g`; the monitor now prints
  `mpu_t=` and `icm_t=` between them, so that a log of today has no frames for either
  tool, although line 14 of the former says that logs are from the monitor.
- The calibration tool opens its JSON files for writing before the verdict is known: a
  run that fails has replaced the last good file. ICM20608_FUSION_PIPELINE.md, section
  12, plans a replacement after the checks for a later phase.
- It compares a rest with the last pose taken only, so that two directions in turn
  count as many distinct poses; `--accel-json` without `--accel-static` writes
  nothing and says nothing; `--window 0` does not end.

## Proofs

| Module | Theorems | Argument |
|---|---|---|
| `StreamControlProofs` | `TypeCorrect`, `Exclusive`, `SessionServed`, `QuietProved`, `FreshProved`, `GapProved` | `LockInv`: a process holds the lock exactly while it is at one of the steps between lock and unlock; `hung` devices are open. `StreamInv`: the last command under way, or else the switch, is "start" exactly when a live session has written `start` and not `stop`, or one ended uncleanly; it needs `LockInv`, because two sessions would write over each other. `FreshInv`: frames in the buffer of a reader past its flush, and the one that is being sampled, were not sent before the flush. `GapInv`: neighbouring frames in buffer and hand differ by one plus the growth of the two counters, up to a multiple of `TxWrap`, and the last one leads to the firmware's counters in the same way |
| `FramingProofs` | `DecoderScans`, `ScanComplete`, `NothingMissed` | `ScanInv`: each place the scan has passed is ruled out by bytes that have come already, or covered by a frame that was taken; `NoFrameMissed` alone is not inductive, because it does not say why a place was passed. `BufferInv`: the decoder's buffer is the last bytes of what was received, so that each of its steps is one of `Scanner` at the place `Gone` or none |
| `TrajectoryProofs` | `TypeCorrect`, `BuffersProved`, `NothingSkippedProved`, `ReadSinceErrorProved`, `CalibratedProved`, `GravityProved` | `BaseInv`: the time base is the last frame or none, and a deque that is not empty ends with the last frame. `FedInv`: everything held was read after the last error, because the window's counters never exceed the monitor's and equal counters mean that the buffer was not zero. `GravityInv`: since the last gravity update at least as many frames have come as the counter is past the last multiple of `UpdateEvery`, so that the next multiple is a whole interval after the last |
| `FusedFrameProofs` | `TypeCorrect`, `TrustProved`, `Refinement` of `Fusion`; `FrameTypeCorrect`, `RecordsProved`, `FallbackProved`, `ImplementsFusion` | `IInv`: the counter that is not counting is zero, and each stays below its limit; without it a stale count would let one frame change the state. The filter moves the offset between the old offset and the new delay, so that it stays within the delays. `RecordInv`: the last recorded time is never ahead of the last frame's mapped time, nor more than the allowed jump ahead of its arrival, because only frames in step are recorded; by `RateAssumption` the offset then follows by less than the frames are apart, so that the next mapped time is later. Every step is one of `Fusion` or leaves its variables alone |
| `GuiSessionProofs` | `TypeCorrect`, `OneWorkerProved`, `WantedProved`, `CleanProved`, `TraceProved`, `MasterProved` | `SessionInv`: only the current worker runs, and a stream that is wanted has a worker, a finished signal or the timer; the two need each other, because the timer creates a worker. `MasterInv`: where a worker may leave its master. `OrderInv`, in five parts: "finished" is posted once, by a thread that is over, and of the earlier workers only those that were overtaken still have one to come (`Posted`, `Overtaking`); held and queued samples are in the order of the workers and each is joined to the current one by a chain of overtaken workers (`Sorted`), which a new worker only extends, because samples waiting are followed by a "finished" that waits too (`Attended`); until a late "finished" comes the session is whole (`Session`) |
| `FirmwareProofs` | of `Sampler`: `TypeCorrect`, `ScheduleProved`, `ZeroRunProved`; of `I2cBus`: `BusTyped`, `BusFreeProved`, `TransfersTrueProved` | `ScheduleInv`: counter minus deadline is the true lateness up to a multiple of `Wrap`, and what a pass begins late by is no more than the frames save that are sure to come before the next that configures (`Ahead`): each frame uses up one of them and saves its part, and when there is none left the loop is on time. `StreakInv`: streak plus cooldown stay below the larger of the two thresholds. `BusInv`: for every call of every function, what the lines are and what the sensor may be doing, as told below |
| `SramStatusProofs` | `TypeCorrect`, `WholeFrameProved`, `OnTimeProved` | `PageInv`: the words of the page are never older than its sequence number, because a sample's words are all stored before its number. `ReaderInv`: what was loaded later is not older. `WordsInv`: between two samples the words of the page are one sample's. `WholeInv`: as long as no store met the copying, what the reader has copied and what it still sees is the sample of the number it read. `TimesInv`: the loop waits from at most a period before the schedule and leaves it no later than a sample takes; a sample begins within its period and after the one before; distances of wrapped times add up as long as they are small |
| `CalibrationProofs` | `OneCalibrationProved`, `PosesExactProved` | `VersionInv`: a run opens the file at most twice, so that versions are not used again. `FileInv`: the keys in the file are the ones the current version has written so far, all of them once it is closed. `WindowInv` and `ResultInv` read it off. `PosesInv`: the scan knows the rest it is in and every long rest that ended before its frame, and the second loop has taken exactly the poses that follow from the rests before its own |

Of the bus, `BusFree` and `TransfersTrue` speak of the end of a transfer only, so that
`BusInv` says for each function that may be under way (`InitInv`, `StartInv`, `WriteInv`
and so on) where the sensor is after each of its calls. Wherever an earlier run was
stopped, the nine clocks of `gpio_i2c_init` and its STOP leave one of two: the sensor is
idle, or it holds SDA low, at the last bits of a byte it sends or acknowledging one it was
sent, and has seen no STOP (`Deaf`). That there is no third, a sensor that takes the
clocks for its address and answers, rests on bit 6 of both addresses being low
(`AddressBits`): the clocks put ones on the line. A deaf sensor misses the START of the
first transfer; it lets go within two clocks of the address byte, or takes that byte for
data (`Mishears`), and either way the transfer ends in a STOP that it sees. From there on
sensor and M4 are at the same bit of the same byte at every call.

They hold for every number of readers, workers, samples and runs, and every buffer,
deque, counter and clock, either address of the sensor and every length of a burst, from the named assumptions of the modules, which TLC
evaluates in the runs: sizes are natural numbers, `NoReader` is not a reader, and
the like, and three about time. `RateAssumption` is above. `TimingAssumption` of `Sampler`: a
sample fits in a period, one that configures the sensor in less than two, the frames from
one that configures to the next save what it took too long (of 25 frames 3.5 ms each, for
15 ms), and the cycle counter holds more than four periods. `GateAssumption` of `FusedFrame`:
the jump that counts as an error is no longer than the age limit.

Model-checked only: liveness (`StartTakesEffect`, `LockReleased`, `CancelCompletes`,
`Reconnects`, `CloseCompletes`, `Recovers`, `BackInStep`), which under fairness is beyond
the prover. Every invariant and every action property of the passing runs is a theorem.

## What is not modelled

- The arithmetic of the Kalman filter, of the attitude filter in
  `attitude_rpmsg_imu.py`, of the online fit of ICM X and Z and of the calibration's
  fits: floating-point vectors, of which no abstraction keeps what matters. What
  decides whether they are called is in `Trajectory`, `FusedFrame` and `Calibration`.
- `_replay` and the self-tests of the tools: the same state machines over a file or
  over constants.
- The GPIOB registers both cores write: what Linux does with them is in its pin
  control driver, which is not in the repository, so that there is no second actor
  to model from.
- The sequence inside `m4-rpmsg-autostart.sh` and the wrappers: straight-line, run
  once at boot; its effect on everybody else is `M4Stop` and `M4Start`. The systemd
  units only order it.
- Clock stretching and other masters on the bus: the code supports neither.
- `i2c_errors` of the firmware: a count that goes into the packet and is displayed.
- Drift between the two clocks: `MonitorClock` has them at the same rate. A drift of
  100 ppm is 0.002 ms in a period, far below the jitter in `Delays`.
- Plotting and the lines of the trace file (written, never read back), installers,
  probes, figures, the ICM driver (a vendor's module).

## Plan

1. Done: `StreamControl`, `GuiSession`, `Trajectory`, `Fusion`, `SramStatus`,
   `Framing`, `Sampler`, `I2cBus`, `MonitorClock` with `FusedFrame`, `StaticPoses`
   with `Calibration`; proofs of all their safety properties.
2. Model next: a composition of `StreamControl` with `GuiSession` in which the ssh
   process of the window is a reader on the board, so that each connection attempt gets
   the lock once the former reader is gone.
3. Prove with it: that the composition implements both, so that the theorems about
   either hold of it.
