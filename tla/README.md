# TLA+ models and proofs of the SHROOM flight software

These modules specify the flight software of the SHROOM balloon experiment
(`src/`, two Teensy boards, cooperative single-threaded loops), check it with
TLC on small instances, and prove the central invariants with TLAPS for all
values of the constants. File names below are relative to the repository.

## 1. Inventory

The **Primary** board talks to the ground station over Ethernet, samples the
temperatures, regulates the heaters and logs; the **Secondary** board reads
AIRDOS detectors and logs. Both run the same `loop()` (`src/main.cpp`): USB
download, inter-board link, Ethernet, sensors, link again, erase result,
telemetry, logger. A module is "due" by its own `millis()` timer. There are no
threads and no interrupts of the program's own: the interleavings are those of
the handlers within and across iterations, of the two boards, of the network
and of power.

| Part | State it keeps | Operations | What makes it correct | Modelled by |
|---|---|---|---|---|
| Thermal control, heaters (`thermal_control.cpp`, `heater.cpp`) | controller, plate latch, outputs in RAM; settings in RAM and EEPROM | 1 Hz sample, 11 commands, plate report, start | cutoff and plate limiter always win; no windup; settings survive a restart | `ThermalControl`, `ThermalPlateHistory` |
| Remote erase (`teensy_link.cpp`, `main.cpp`, `commands.cpp`) | request on the Primary, last token on the Secondary | request, retransmit, acknowledge, time out, report | one erase per request, true answers, always an answer | `RemoteErase`, `EraseLink` |
| Rate scheduler (`ethernet_link.cpp`) | next send, next slot, burst history, limit | reply, regular datagram, new limit | average and burst limit hold; telemetry that is due goes out | `PacedLink`, `DownlinkPacer` |
| Queues and AIRDOS selection (`ethernet_link.cpp`) | health outbox, system and AIRDOS queue, level, timers | report, line, update, new limit | bounds; nothing of a lost session; no report starves | `DownlinkQueues` |
| Command session (`commands.cpp`) | last ID and response | HELLO, command | order, no duplicate, right response | `CommandSession` |
| Logger, USB download (`logger.cpp`, `storage_download.cpp`) | ready cards, open files, transfer | log, flush, erase, enter, get, continue | mirrored copies, truthful erase, whole files | `LogStorage` |
| Inter-board frames (`teensy_link.cpp`) | receive buffer, discard flag, last received data | frame, byte, reset | resynchronises after loss; data that stop are seen to be old | `AirdosPath`, `HealthReports` |
| AIRDOS parser (`airdos.cpp`) | line and overflow flag per channel | byte, end of line | no line from two halves | `AirdosPath` |
| MAX31865, WSEN sensors | initialised, valid, errors, fault episode, retry time | initialise, update | a lost device is found again, a dead one is a fault | `SensorRecovery`; their readings are inputs of `ThermalControl` |
| Health reports (`telemetry.cpp`) | last states, periods | check for a change, complete report | the ground station is told what the board knows | `HealthReports`; its lines are inputs of `DownlinkQueues` |
| Binary encoding (`binary_telemetry.h`) | none | encode | fields fit and decode | not modelled |
| Real-time clock (`rtc.cpp`) | the hardware's | read, set | - | not modelled |
| Loop (`main.cpp`) | none of its own | order of the above | - | in part: `HealthReports` (network before telemetry), `EraseLink` |
| PC client (`tools/download_logs.py`) | file being received | requests | - | its requests are actions of `LogStorage` |

How they interact: `commands.cpp` calls the setters of thermal control, the
limit of the Ethernet link and the erase of logger and inter-board link, and
returns its reply through the immediate path of the pacer. Telemetry fills the
queues and, through the plate report, *re-evaluates the plate limiter*. The
queues empty through the pacer. The erase of the Secondary runs its logger's
erase inside the handler of a frame. The download closes the logger's files
and stops the loop before every other part, including the inter-board link.

What is hard here: timers compared by wrapping 32-bit differences; early
returns that skip a state update; state kept in RAM that a restart forgets
while its counterpart (EEPROM, card, other board, ground station) remembers;
retries over two unreliable links; several causes that change one level or
switch the same outputs; partial failure of one of two cards or some of
several sensors. `PROJECT.json` lists these hazards one by one with the line
where each bites and the properties that watch it.

## 2. The modules

### ThermalControl

`ctl` is `ControllerState` and the heater outputs, `settings` and `eeprom` the
two copies of `PersistentSettings`, `reading` the last measurement cycle,
`connected` the state of the link. Each function of the source is an operator
from a controller record to a controller record (`UpdatePlateLimit`,
`ApplyOutput`, `EnforcePlateLimit`, `ResetController`,
`ThermalControlUpdate`, ...), and each handler an action that composes them in
the order of the source. `Sample` is the whole 1 Hz step: a cycle of readings,
the regulator and, with a ground station, the plate report that enforces the
limiter. Commands need a connected station. `Init` finds an erased EEPROM
(`Blank`) or what another version of the firmware stored there (`Found`, with
any version number): `Migrated` keeps or replaces it group by group, as
`load_settings` does. `Reboot` starts from the EEPROM. `PowerLossDuringSave`
cuts the save of any command: `EEPROM.put` writes the record byte by byte, so the
fields before the cut are new, those after it old, and a float at the cut has
new low-order bytes under old high-order ones. A setpoint cut off so may be
neither the old nor the new one and above every limit (30 % over 45 % can read as
120 %; `CutOff`, up to `MaxStored`), and a target may be any of `StoredTargets`:
neither is validated at the next start. The other fields are, and end up as a
valid value or as the default.

Abstractions: temperatures and powers are small integers; a fused mean or
median is *any* value between the extremes of the valid readings, which is
weaker than the code and sound for the properties stated. A setter that
returns early because nothing changes is not a step (it would stutter). The
`dt <= 0` guard of the PID is unreachable at a sampling period of one second.
Writing 0 to a PWM channel is taken to switch it off. What another version left
for the target and the setpoints has the same ranges as after a torn save.
Setpoints and targets are ordered numbers here: the NaN that the first save of a
new board can leave is not modelled (section 5).

`ThermalPlateHistory` adds history variables, for the README's promise about a
plate that reached its limit: the latch itself cannot tell what it forgot.

### RemoteErase and EraseLink

`RemoteErase` is what the operator is promised: a request is answered at most
once; its erase runs at most once per boot of the Secondary and never after
that of a later request; OK and FAILED are true. `EraseLink` is the protocol:
`request` (with the ages of its two time stamps), the frames in both
directions, the Secondary's memory and acknowledgement flag, resets of both
boards, and the USB download during which the Secondary does not listen.
`KeepsPromise` is the refinement, with the history variables `jobs`, `effects`
and `bootMark` as the abstract state.

OK means that the logger of the Secondary answered so; how far that can be
trusted is the subject of `LogStorage`.

Assumptions: a frame arrives whole and in order or not at all; a listening
Secondary reads a frame within `MaxPause`, and `RequestTimeout + MaxPause <=
DedupeWindow + 1` (12 s plus the longest iteration against 15 s); tokens are
unique. The last is an idealisation: a token hashes `millis()` with the command
ID, so two requests around a restart of the Primary may share one.

### PacedLink and DownlinkPacer

`PacedLink` is the promise of the limit on a clock that never wraps: a leaky
bucket, a slot since the last send, a budget per burst window. Replies are
exempt but counted. `DownlinkPacer` is the code: `next_regular_send_us` and
`next_telemetry_slot_us` compared by the sign of a wrapping difference, and the
ring of burst entries that merges when full. `KeepsPace` is the refinement; the
state of the promise, `debt` and `sent` (the bits sent less than `d` ticks ago,
for each `d` up to the window), is kept beside that of the code as history, and so
is `silence`, the time since the last send.

One exception belongs to the promise. After half the range of the clock
(36 minutes) of silence the old `next_regular_send_us` reads as future, and a
reply is charged from there instead of from now. If the sum reads as past again,
the reply leaves no debt (section 6): `PacedLink` lets a reply clear the debt
after such a silence, until telemetry goes out; slot and burst budget count it
all the same. `charged` tells the two cases apart, and `ChargeHistory` derives it
from what the code computes.

Bounds (`ReplyPace`): a reply does not raise the *ideal* debt to half the clock's
range (36 minutes of replies ahead of the rate), and `MaxBits` limits merged
entries. No reply is disabled because of a stale time.

### DownlinkQueues

A record is its length; the queues are bounded by descriptors and by bytes as
in `LineQueue`. `health` is the outbox: slots are assigned to identities for
good, `pending` and `cursor` drive the round robin. `raw` is the AIRDOS queue
with the level of selected sensors and the two timers that lower and raise it.
`Update(heard, taken)` is `ethernet_link_update`: time-out *before* the socket
is read, a datagram that may be waiting, the level, the purge and
`send_mixed_packet`. `taken` says whether the pacer and the network took the
datagram; nothing is lost when they did not. The other actions are what the
rest of an iteration calls. `untold`, `leftover` and `calm` are histories.

Left out: the counters reported as diagnostics and the byte positions in the
ring. There are never more report identities than slots (26 of 32), an
assumption of the module.

### CommandSession

`last` is the ID and the response `commands.cpp` keeps. The board handles any
datagram of `uplink`, a set from which nothing is removed: loss, duplication
and reordering. The ground station is external and modelled from what the
handlers expect: HELLO until the session is acknowledged, then one command at a
time with consecutive 16-bit IDs, repeated until answered or given up. A
datagram of an earlier *process* does not arrive late (`OldTraffic = FALSE`):
if it does, it can make the new session's IDs stale, which the code does not
defend against. `MaxCommands` is at most half the ID range. A heartbeat PING is
a command too: one that runs between a command and its retry makes that retry
stale although the command ran (`StaleOnlyIfOvertaken` allows it).

### LogStorage

A file is a number of lines, split into what the card keeps without power
(`durable`) and what is in its caches (`cached`). Every access may fail: the
parameter `bad` of an action is the set of cards that fail it, with the
disabling that follows. An erase tells three outcomes of a recording apart:
removed, kept (`remove()` failed) and `unseen` (`exists()` failed, which the code
takes for "not there"). `closed` is the logger's download flag and `session`
that of the protocol; they differ when no card is ready. `Restart` keeps any
beginning of the cached lines and finds any of the cards;
`PowerLossDuringErase` removes any of the recordings. Headers, the listing and
the error counters are left out. A line is whole or absent.

### SensorRecovery

One device of any of the four kinds. `driver` is what its driver keeps, `device`
whether it is there and configured. An update is a sequence of bus transactions
that stops at the first that fails; `Sample(end)` names where, `Stages` and
`Loses` say for each kind where it may stop and which failures make the driver
initialise the device again. A device may be unplugged, come back without its
configuration, or restart so quickly that no transaction fails; `Settle` ends
all that. Register contents and conversions are left out. Assumption: the SPI
bus of an absent MAX31865 reads as ones, which is a fault; zeros would be a
valid reading of the lowest temperature.

### HealthReports

What the Primary knows of AIRDOS sensors and the Secondary (`age`, `received`,
`overflow`), what telemetry remembers (`last`, `complete`, two timers), the
newest pending report of each key, and the session of the link. The two halves
of an iteration that matter, network before telemetry, are separate steps with
time in between; a datagram takes any of the pending reports and arrives or is
lost as a whole; telemetry checks for changes every 100 ms and sends a complete
report every period and at the start of a session. `seen` is what the ground
station has been told; `missed` and `behind` are histories.

### AirdosPath

A line from a detector to the Primary: `AirdosByte` is `airdos_update`, which
assembles lines and, in the same visit, forwards a complete one; `LinkByte` is
`teensy_link_update` on the Primary. A symbol is a byte, or the bytes of a
field, tagged with the line and the frame it belongs to; no step of the code
looks at the tags. Symbols are lost or damaged on either UART, or cut off by a reset of
either board; a full transmit buffer drops a whole frame. A detector may send
lines with bytes that are not printable (`Unprintable`), and a byte that is
damaged on its UART becomes one (`Junk`): the Secondary takes any byte but a
newline into its line and forwards it, the Primary discards the frame at that
byte. A NUL ends the C string that is logged and forwarded (`CString`).
`damaged` and `gone` are histories. Counters and the numbers in status frames
are left out.

## 3. Runs

| Run | What it asks | Instance, and why it is enough |
|---|---|---|
| `thermal_plate` | plate limiter against every command, sample and restart: `InhibitedWhileLatched`, `NoWindupWhileInhibited`, `PlateLimiterHolds`, `TripReleasedOnlyWhenCool`, `BangBangStartsBelowBand`; settings: `SettingsDurable` | one heater, one control and two plate sensors, two limits whose hysteresis bands overlap, four temperatures: below, inside and above each band, and the cutoff; torn saves |
| `thermal_sensors` | `HeatingOnlyWhenSafe`, `PowerIsAccountedFor` with failing sensors and torn saves | two heaters of different maximum, a limiter for one of them, two control sensors both needed, three fusion modes; stored setpoints up to one above the full scale, a stored target at the cutoff. The temperature inside both bands is left to the other two runs |
| `thermal_pid` | `TypeOK` with PID arithmetic, migrated settings and torn saves; `ManualSetpointRestored` under fair sampling | two gain sets (P, PID), two sample gaps, both regulators and two band widths, an enabled and a disabled channel, demands beyond both clamps |
| `erase_link` | `AtMostOncePerBoot`, `ResultIsTrue`, `KeepsPromise`, `EveryRequestAnswered` | two requests with two transmissions each and one reset of either board: old frames and late replies meet a newer request, both ends of the timeout and the deduplication window are reached |
| `downlink_pacer` | `NotHeldBack`, `KeepsPace` | a clock of 12 ticks that wraps, two limits, a packet within and one above the budget, a history of two entries that merges |
| `downlink_silence` | violation, see section 6 | the same |
| `downlink_queues` | `QueuedAreSelected`, `NothingFromAnEarlierSession`, `RestoredOnlyWhenCalm`, `EveryReportSent` | two levels of one sensor, queues short of descriptors and of bytes, two reports in three slots of which a limited datagram takes one, all thresholds of one or two ticks. Low and high marks are 34 and 50 percent so that both fall inside a queue of three |
| `commands` | `RanInOrder`, `AnsweredHasRun`, `StaleOnlyIfOvertaken`, `AnswerComes` | two processes whose first IDs are the same or next to each other, four commands each (half the range, the most an ID range of eight can order) over its wrap |
| `log_storage` | `CompleteCopies`, `NoWriterDuringDownload`, `EndMeansComplete`, `EraseIsTruthful`, `OnlyEraseDestroys`, `LinesBecomeDurable`, `TransferEnds` | both cards, one log that is erased and downloaded and one that is neither, two lines each; any access may fail, also `exists()` |
| `sensors` | `OnlyARestartMisleads`, `RecoversByItself`, `DeadSensorBecomesFault` | each of the four kinds, any number of failures before the device settles |
| `health_reports` | `ReportsAreCurrent`, `GroundStationLearns` | one sensor of the Secondary, whose frames also count for the Secondary; periods of one and two ticks in the order of the source, a pause of one |
| `airdos_path` | `WholeLinesAreParsed`, `WholeFramesAreAccepted`, `MalformedFramesAreDiscarded`, `SplicesNeedLostNewlines` | three lines, the second with a byte that is not printable, and a status frame, three lost or damaged symbols and a reset: both newlines between two frames can be lost and a third, whole one follows; a merged line of two overflows the buffer of three |

The thermal runs start from an erased EEPROM and from settings of other
versions in which any combination of groups is unreadable.

Each property of a passing run has a mutant in `PROJECT.json`: an operator
beside the original (commented "Mutant of ...") with a plausible mistake that
makes that property fail in that run.

### Fairness

* `thermal_pid`: `Sample` is weakly fair. The sample is due every second and
  the loop reaches it in every iteration.
* `erase_link`: time passes, the two loops run (`Expire`, `ReportResult`,
  `HandleEraseCommand`). Nothing makes a transmission or an acknowledgement
  succeed; only the deadline ends a request. That a result is reported
  assumes, in the property, that the ground station stays connected.
* `downlink_queues`: an update whose datagram is taken happens again and again.
  The pacer half of that is `NotHeldBack` (with the exception of section 6);
  that the network takes a datagram is the environment's.
* `commands`: a command that is repeated forever gets through with a reply at
  some time, and a reply that can be received is.
* `log_storage`: the loop runs, time passes, and the host reads what is sent.
* `sensors`: the driver is updated again and again. Of a device that is there
  and no longer fails, the data become ready time and again (strong fairness of
  a complete sample): "not ready" is a normal answer between two samples.
* `health_reports`: the loop runs, time passes, and a report that is pending
  again and again is delivered at some time, since a single datagram may be
  lost.

## 4. Proofs

Every theorem holds for all values of the constants within the named
assumptions of its module. An invariant is seldom inductive alone; what each
proof adds to it is the argument.

`ThermalControl_proofs`: `TypeOK`, `HeatingOnlyWhenSafe`, `PlateLimiterHolds`,
`NoWindupWhileInhibited`, `SettingsDurable` and the action property
`TripReleasedOnlyWhenCool`, for any heaters, sensors, limits and operands (a
target below the cutoff, a channel's limit within 0..max, ...). The invariant
(`IInv`) says that the controller record is `Consistent` with the settings and
readings it was computed from - well-formed, heating only if safe, the plate
limited, not wound up - and that the settings agree with the EEPROM. `PidUpdate`
writes history after `ApplyOutput` may have reset the controller: this is where
well-formedness needs its clause about `initialized` and `prev`. Each *function*
of the controller is shown to deliver a consistent record, then each action to
compose such functions; migration delivers `Settings` from whatever is found.

What a torn save leaves is loaded as valid settings, whichever field it tore
(`TornAreLoaded`).

Two more theorems of the module strengthen `IInv`. `PowerIsAccountedFor`, for
whatever setpoints are stored: a channel runs at the demand or at the stored
setpoint *as limited by its maximum*, since nothing limits what is stored
(`AInv`). And `BangBangStartsBelowBand`, if the limiter protects every channel
as `config.h` has it (`AllProtected`): a bang-bang demand exists only under
bang-bang control, and heats unless the configured power is none (`DInv`).
With a limiter of some channels the demand outlives a trip, as it does for the
other channels, and a protected channel follows it inside the band as soon as
the plate has cooled; if it is the only one enabled, heating starts there.

The module ends with `InhibitedWhileLatched` of `ThermalPlateHistory`. `HInv`
adds that the latch follows the history (`Followed`): an excursion that no
restart interrupted and no sample skipped has tripped the limiter.

`EraseLink_proofs`: `TypeOK`, `AtMostOncePerBoot`, `ResultIsTrue`, and
`ImplementsRemoteErase`: `Spec => KeepsPromise`, for every timeout, number of
attempts, requests and resets. The invariant adds: at most one request is open
and it is the last (`OneOpen`); frames and effects name requests (`Named`); they
travel and run in the order accepted (`Ordered`); a copy of the last executed
request is younger than the window in which its token is known (`Timely`) - the
only place where `RequestTimeout + MaxPause <= DedupeWindow + 1` is needed; and
acknowledgements tell of erases that ran (`Backed`). Each step is then mapped to
a step of `RemoteErase` or a stutter.

`CommandSession_proofs`: `TypeOK` always; `RanInOrder`, `AnsweredHasRun` and
`StaleOnlyIfOvertaken` when no datagram of an earlier process arrives
(`~OldTraffic`), for every even ID range and up to half of it in commands. All
commands in flight are `Coherent`: their IDs are as far behind that of the
current one as their numbers are. Hence the wrapped difference of two IDs is
the difference of the numbers (`DifferenceIsExact`), and the board compares
with the newest command it ran (`LastIsNewest`).

`LogStorage_proofs`: `TypeOK`, `CompleteCopies`, `NoWriterDuringDownload`,
`EndMeansComplete`, `EraseIsTruthful`, `OnlyEraseDestroys`. The writers are those
of the ready cards until the download closes all of them (`OpenFiles`), a
session or transfer implies that they are closed (`Sessions`), so the file does
not change while it is read and what was sent and what remains add up to it
(`Progress`). A successful erase is shown to have removed every recording it saw;
what `exists()` denied is excepted in the property.

`DownlinkQueues_proofs`: `NothingFromAnEarlierSession`, since what the link timed
out on is in the queues only until the next update, which looks at the time-out
before the socket (`Session`); `RestoredOnlyWhenCalm`, since the low timer
runs no longer than the queue has been calm (`Restoring`); and
`QueuedAreSelected`, since every change of the level purges the queue and a line
is queued only if the level of that moment selects it (`Chosen`). The purge is a
recursive function of the model; `PurgedIsChosen` says what it leaves.

`DownlinkPacer_proofs`: `KeepsPace`, the refinement of `PacedLink`, and
`NotHeldBack`, for any limits, packets, window, slot, history size and range of
the clock within `PacerAssumption` (the window, and the debt of one packet, are
below half the range of the clock). The invariant (`Pace`) relates the wrapping
times to the ideal clock: a debt lies at most as far ahead as
`next_regular_send_us` (`Paid`); a send less than `d` ticks ago leaves the slot
closed (`Slotted`); and in every span up to the window, what was sent is covered
by the newest entries of the history, all younger than the span (`Covers`).
Merging entries makes old bits younger, a wrap of the clock makes an old entry
look young: neither takes away cover. That part of a regular send is the guard of
`PacedLink`. For `NotHeldBack` the same times are exact as long as half the range
has not gone by in silence (`Prompt`): a reply before that is charged in full,
one after it may clear the debt, which the promise allows. The bound `ReplyPace`
of the model is used: replies must not run up a debt of half the range of the
clock.

`HealthReports_proofs`: `ReportsAreCurrent`, for any sensors and times. Once a
session has begun with a complete report, `last_state` is what the ground
station was told last of every sensor of which no report was missed, and a lag
is no older than the timers of the next check and the next complete report, or
than the pause of the loop once they have expired (`Lags`). And, through an
instance of `SensorRecovery`, `OnlyARestartMisleads`: an initialisation that
succeeds leaves the device configured, and nothing else sets the driver's flag.

`AirdosPath_proofs`: `WholeLinesAreParsed`, if the shortest line fits the buffer
(`LinesFit`). As long as nothing of the arriving line was lost the assembler
holds exactly what has arrived of it (`InStep`). And `WholeFramesAreAccepted`, for
any buffers and any unprintable lines: a printable frame of which nothing was
lost waits whole on the wire, has begun (its rest is next on the wire and the
receiver holds what came before it), or was accepted (`Intact`, in `FrameInv`). And `SplicesNeedLostNewlines`, on top of
`FrameInv`: what the receiver holds and what is on the wire form one queue, in
which the newlines of two frames separate them unless they are lost
(`Separated`). Every step thins the queue (`ThinningSeparates`) or appends a frame
(`FrameSeparates`), whose content is a line `Ordered` in the same sense.

Induction. The theorems of the library that state it take an operator as a
parameter and cannot be instantiated here. Two modules derive it for sets
instead (`LeastNumber`, `Induction`), from the theorem that `<` on the naturals
is well-founded; the sums over the burst history and the purge of the AIRDOS
queue rest on it.

Only model-checked: the liveness properties (fairness and ENABLED are out of the
proof system's reach) - `ManualSetpointRestored`, `EveryRequestAnswered`,
`EveryReportSent`, `AnswerComes`, `LinesBecomeDurable`, `TransferEnds`,
`RecoversByItself`, `DeadSensorBecomesFault` and `GroundStationLearns` - and the
invariant `MalformedFramesAreDiscarded`. Every other invariant, action property
and refinement that a passing run checks is proved, under the conditions named
above; the type invariants of `EraseLink`, `CommandSession` and `LogStorage` are
proved and not checked by a run of their own.

## 5. Not modelled, and what could follow

* The formulas of fusion, calibration, conversion and of the binary encoding:
  they are pure, stateless and covered by their range in the models. The decoder
  of the encoding is on the ground, so the repository has no counterpart to
  check it against.
* The real-time clock keeps its state in hardware; the PC client runs on the
  ground.
* NaN in the EEPROM: if power fails inside the first save of a new board
  (`thermal_control.cpp:324`), the magic number is there and the target and the
  setpoints after the cut read as NaN. Nothing validates them; PID control then
  writes a NaN until a target is set.
* A composition of the whole loop: the modules let their handlers run in any
  order, which includes the loop's, and share state only through the calls each
  module names. Download mode stops the regulator with the heaters as they are
  (section 6); a composed model would say no more.
* Bytes in the rings of `LineQueue`, diagnostic counters, log headers, listings
  and wording.
* What could follow: the values in storage and temperature frames; the safety
  that the liveness properties lean on (a request in flight has a timer, a
  download has a next step) as invariants of their own.

## 6. Where code and documents disagree

A run shows it:

* `downlink_silence`: after half the range of `micros()` (36 minutes) without a
  datagram under a limit, regular telemetry is held back for up to as long
  again, contrary to the comment at `ethernet_link.cpp:691`.

The models contain it, and their properties are stated so as to hold in spite
of it:

* README.md:258-260 promises inhibition from the moment the plate reaches its
  limit. A cycle in which the control sensors fail or are too hot returns before
  the limiter (`thermal_control.cpp:433`, `:441`). Without a ground station
  nothing else evaluates it, the excursion is not latched, and heating resumes
  inside the hysteresis band. `InhibitedWhileLatched` excludes such an excursion
  (`unseen`).
* The comments at `ethernet_link.cpp:281` and `:361` say that replies create debt
  and that the average holds. After half the range of the clock in silence a reply
  is charged to the stale send time (`ethernet_link.cpp:357`). If it comes within
  its own interval of the half range, as the answer to a HELLO of a station that
  returns may, the time reads as past again, the reply leaves no debt and regular
  telemetry goes out before the reply is paid for. `PacedLink` has this exception.
* README.md:445-454 has OK mean that the recordings are deleted. A card that fails
  `exists()` makes the erase report success with the recording left
  (`logger.cpp:724`, `:730`, reopened and continued by `:736`). `EraseIsTruthful`
  speaks of the recordings that the card did not deny having.
* README.md:455 promises that retransmissions do not erase twice. The Secondary
  forgets the token in a reset (`teensy_link.cpp:213`, `:285`);
  `AtMostOncePerBoot` is what holds.
* `commands.cpp:485` says retries cannot run twice. A reset, or a late copy of
  the same HELLO, between a command and its retry forgets the ID
  (`commands.cpp:469-480`); `RanInOrder` speaks of the commands since then.

Behaviour that contradicts no document but a reader should know:

* A torn save may bring an old manual setpoint back after a restart, or leave one
  that nobody requested and that is above the channel's maximum. The output is
  limited and stays within all safety rules; it is what telemetry shows, nothing
  shows the stored setpoint. A restart also forgets a latched plate trip.
* A line with a byte that is not printable is logged and forwarded by the
  Secondary, but the Primary discards its frame (as README.md:141 says of
  malformed frames); a NUL in a line cuts off the rest of it in both places.
* Download mode leaves a heater at its last output until the reset.
* An AIRDOS high timer left from before an unlimited phase may lower the level
  at once.
* A pressure or inertial sensor that restarts unnoticed says "not ready" for
  ever and is not initialised again (`wsen_pads.cpp:257`, `wsen_isds.cpp:343`).
* There is no checksum on the inter-board link: a lost digit makes another
  valid number.
* `cpu_temperature.csv` is not in the list of files the download knows.

## 7. Running

    tlc -workers 2 -config thermal_plate.cfg MCThermalPlateHistory
    tlapm ThermalControl_proofs.tla

The module of each configuration is in `PROJECT.json` under "runs". The longest
run takes a little over two minutes with two workers.
