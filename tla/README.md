# TLA+ models of aa-proxy-obd

aa-proxy-obd is a daemon that reads a car's battery, odometer and tyre data
through an OBD adapter (an ELM327 over Bluetooth or USB, or a WiCAN over BLE)
and POSTs them to the HTTP endpoints of aa-proxy.  These modules model its
control logic.  Paths are relative to the repository; `scheduler.rs` is
`src/scheduler.rs`, and so on.

## 1. The system

| Part | Source | State | Operations | Talks to |
|---|---|---|---|---|
| Shutdown signal | scheduler.rs 18-52 | flag, Notify | `trigger` (signal thread), `is_running`, `wait` (daemon's task) | ctrlc handler, scheduler |
| Scheduler | scheduler.rs 61-237 | poll deadline, count of fruitless cycles | `run` | adapter, publisher, shutdown |
| Circuit breaker | output.rs 12-54 | failure count, time of opening | `allow`, `record_success`, `record_failure` | publisher |
| Publisher and cache | output.rs 121-171, 267-515 | a breaker and a cached payload per endpoint | `publish`, `on_sleeping` | HTTP endpoints |
| Payload builders | output.rs 174-373 | none | `build_*` | publisher |
| ELM327 session | adapter/elm327.rs 48-597 | byte stream, `out_of_sync` | `send_cmd`, `run_init`, `poll_uds_pid`, `poll_uds_pid_multiframe`, `monitor_broadcast` | the chip |
| Source polling | adapter/elm327.rs 603-648 | metrics of the cycle | `poll_sources` | session, decoding |
| Response decoding | adapter/elm327.rs 651-953 | none | `get_payload`, `extract_value`, `assemble_iso_tp`, ... | profiles |
| Bluetooth, USB adapters | adapter/bluetooth.rs, usb.rs | optional session, agent handle | `connect`, `poll`, `disconnect` | BlueZ, serial port |
| WiCAN adapter | adapter/wican.rs | BLE device, characteristics | `connect`, `poll`, `disconnect` | BlueZ |
| Error classification | adapter/mod.rs | none | `classify`, connect bounds | scheduler |
| Pair command | cli/pair.rs | the config file, BlueZ's bond | `run`, `write_atomic` | BlueZ, file system |
| Configuration, profiles | config.rs, profile.rs | none after start | `load`, `validate` | everything |
| Logging, entry | logging.rs, main.rs | none | | |

One tokio task runs `scheduler::run`: it connects the adapter, polls it, awaits
`publish` or `on_sleeping`, and paces itself.  The signal thread (ctrlc) calls
`Shutdown::trigger` at any time, any number of times.  The adapter's calls are
futures that a `select!` may drop in mid-command.

What is hard here:

* two threads on the shutdown flag, with no lock: a lost wakeup would leave the
  daemon deaf to SIGTERM until its next timer (scheduler.rs 43-51);
* five `select!` statements that drop adapter futures, and an adapter that must
  be disconnected after each such drop (adapter/mod.rs 102-105);
* pacing and the watchdog over any sequence of answers, timeouts, lost links and
  reconnects (README.md 239-240);
* breaker and cache, where time, failures of other endpoints, replays and sleeps
  mix (README.md 236-237);
* the ELM327 link: replies carry no identity, so a late one can be taken for
  the answer to another command (adapter/elm327.rs 50-54);
* the WiCAN link: the bond is kept on two sides that may disagree, a dropped
  connect may succeed all the same, and answers come in parts;
* offsets, lengths and signs taken from profile files, and replies of several
  frames of which any may be missing;
* the config file, replaced while others read, edit or replace it and the power
  may fail.

What makes each part correct: the signal is never missed and never invented;
`run` ends disconnected, paced, prompt after a signal, and with the right exit
code; a dead endpoint is left alone, a live one never is, and what is replayed is
the last good reading or nothing; each reply answers its command; a link nobody uses
is released, and a good bond is kept; a value is read from the bytes its field names,
in a whole reply; a payload is one the server takes; the config is the old or the new
text.

## 2. Plan

In order of importance:

1. `Shutdown` against `Signal`; `Scheduler` (uses `Shutdown`) against
   `CycleHealth`; `CircuitBreaker` and `Publisher`.  **Done**, with proofs.
2. `Elm327Chip` and `Elm327Session`: host and chip exchanging commands and replies
   over a link with delays, losses and closes.  **Done**, with proofs, for the
   Bluetooth and the USB adapter.
3. `WicanAdapter`; `BluetoothConnect`, connect's attempts against the connect bound.
   **Done**, with proofs.
4. `PairCommand`: the dialogue and the save of the passkey, with kills and power
   failures.  **Done**, with proofs.
5. Decoding: `ReplyAssembly`, `FieldDecoding`, `BroadcastScan`, and `Payloads`, the
   builders.  `Decoding` runs the four.  **Done**, with proofs.
6. `Daemon`: `Scheduler` and `Publisher` on one clock.  **Done**, with proofs.
7. Left, models: the adapters against one abstract adapter, the one that `Scheduler` assumes
   (`closed`, `open`, `dirty`).  So far each adapter's module says for itself what
   connect, poll and disconnect leave behind.  A clock for `Elm327Session`.

Every module that is proved about uses recursive functions only.

## 3. The modules

**Signal** states what the doc comment of `Shutdown::wait` promises.
**Shutdown** models the flag and the Notify.  `trigger` is two actions
(`TriggerStore`, `TriggerNotify`), the first poll of `wait` two (`Enable`,
`ReadFlag`), its wakeup `Wake`; `Drop` is the `select!` dropping the future.
SeqCst makes the flag's accesses atomic steps, and tokio documents that
`notify_waiters` reaches every `Notified` created before it.
`Promise` maps the detailed state to Signal.

**Scheduler** models all of `run`.  `pc` names the awaits: `connect`, `retry`
(pause after a failed connect), `pace`, `poll`, `publish`, `disconnect`
(continuing at `after`), `lost` (pause after a lost link).  It contains
`Shutdown` with one waiter (`S`): a select polls the wait first because it is
`biased`, so another branch wins only behind a pending wait (`Wins`).  The
adapter is the environment: it is `closed`, `open`, in a call (`connecting`,
`polling`), `broken` (a poll reported the link lost) or `dirty` (its call was
dropped).  It answers a call in any way the trait allows, or never.
A connect that returns an error is taken to leave the adapter `closed`: the next
connect starts from nothing (`BluetoothConnect`, `WicanAdapter`).  Time is discrete; `Tick`
moves all timers.  With `Prompt = FALSE` the task may be delayed for any time
between any two steps, with `TRUE` code takes no time.
`last`, `quiet` and `overdue` are history variables: how the last call ended,
how long ago, and how long the daemon has been asked to stop.

**CycleHealth** states the README's promise on the watchdog and the exit code
(README.md 240, 242-246).

**Elm327Chip** is the far end of the serial link as adapter/elm327_emu.rs has it: it
takes one command at a time (`StartReset`, `StartMonitor`, `StartAnswer`), prints its
answer line by line and then a prompt, loses what is typed while it resets, and is
interrupted by a character while it monitors or works on a request, after which the
rest of that line is a command of its own.  An empty line repeats the last
command.  `Rejected`, `Losable`, `Aborts`, `StrayPrompts` and `SelfStops` are the
emulator's options.  Each printed line carries, for the properties only, the command
it answers; the text alone is what the session sees.
**Elm327Session** is the session over it.  Each operation (connect with probe and
init, the poll of a source) is a script of steps, `todo`: write a command and read up
to the prompt, await a prompt, drain, the multiframe line loop, the scan.  An error
ends the script or edits it as the code's error paths do (`Failed`, `Replied`).
`Fail` is what `classify` and `poll_sources` make of an error: the next source, or the
end of the session.  The link may break, and `run` may drop the session, at any point.
There is no clock.  A read window elapses when the chip has nothing more to send, or
at any time if it is named in `Late`: 5 s of `send_cmd` ("reply"), resync, the
probe, `read_until_prompt` elsewhere ("prompt"), the quiet period of `drain_input`, the
line window and the deadline of the line loop, and the end of a scan crossing with
the chip leaving the scan by itself ("scan").  `probes` is which adapter it is: Bluetooth
probes the link before the init list, USB does not and may meet a chip that is still monitoring.

**CircuitBreaker** holds the breaker as operators on a record.  `opened_at` is
an age that stops counting at `BreakerDur`.  **Publisher** models `publish` as
one step to pick a payload and ask the breaker (`HandleEndpoint`) and one when
the POST ends (`PostOk`, `PostFailed`), with server changes and time between
them.  A payload is an abstract value per endpoint and cycle, or none; the
cached one is stamped with an age.  `good`, `failRun` and `sinceFail` are history:
the last payload of a reading that the endpoint accepted, and the endpoint's own
view of the failures.

**Daemon** is what main.rs builds: it extends Scheduler with an instance of Publisher, and
both share `Tick`.  `Publish` is the answer of a poll together with the start of the
publish, `Published` its end together with the judgement of the cycle, `Sleeping` the
answer together with `on_sleeping`; a poll that fails leaves the publisher
alone, a server changes at any time.  `before`, `now`, `posted` and `rested` are
history: who accepted a reading of the last cycles, who got a POST in this one, and whose last good
reading is from before a sleep.

**WicanAdapter** models connect (`FindDevice`, `TryPair`, `TryConnect`, `PauseOver`,
`FindChars`), poll (`StartPoll`, `Receive`, `Deadline`, `StreamEnded`) and `Disconnect`
of adapter/wican.rs, one action per await.  BlueZ is three facts about the device
(known, bonded, link up) and one about the other side (`stale`: it has forgotten the
key).  `self.device` and `self.chars` are what disconnect goes by.  Requests and
chunks carry an age, the number of polls since: the text does not say whose answer it is.  `Drop`
is the scheduler dropping a call, and `DropLate` a connect of BlueZ that succeeds after that.
**BluetoothConnect** models `connect` of adapter/bluetooth.rs in seconds: `RegisterAgent`,
`Dial`, `WaitForAddress`, `Probe`, `PauseOver`, `RunInit`, each taking no time or
the longest it may.  `retry_connect_bound` is the bound of mod.rs.

**PairCommand** models `run` and the save, one action per call, for several processes
and with `Kill` anywhere.  The file system is names, inodes and modes; `dirs` and `disk` are
what a `PowerFailure` may leave: any directory and any contents since the last sync of
each.  `Edit` is somebody else's change of the config, `seen` what the user could see
of them when saying yes.

**ReplyAssembly** models the reading of a reply of several frames line by line
(`ReadLength`, `ReadFirst`, `ReadNext`, `FrameLost`, `StopReading`), then `assemble_iso_tp` line by line
(`TakeSearching`, `TakeLength`, `TakeData`, `Judge`), and `get_payload` of the same lines as an operator.
Byte i of the message is the number i, so that a byte in the wrong place is seen.
**FieldDecoding** has `check_field` and the decoders as operators; its state is a source,
a validated field and a reply that gets longer.  The width of a byte is a
parameter.  **BroadcastScan** models the loop of `monitor_broadcast` (`Line`, `Prompt`,
`Expire`, `LinkLost`) and what is reported of each frame at its end (`Finish`); `wanted` is what an
observer of the bus expects.  The exchange of commands around the scan is in Elm327Session.
**Payloads** has the builders as operators, over the readings that `poll_sources`
inserts one by one (`Insert`).
**Decoding** puts these four side by side.  They hand each other values and share no
state, so that a behaviour exercises one, `part`, while the others rest.

The mutated definitions (`TriggerNotifyOne`, `ConnectTimeoutKeepsLink`, ...)
stand beside the originals as "Variant with a fault" and are used by no
specification: each is the bug that one of the properties would show.

## 4. The runs

| Run | Shows | Bounds |
|---|---|---|
| `shutdown` (MCShutdown) | no lost wakeup, Signal implemented | 3 waiters: one parked, one between two steps, one idle |
| `scheduler` (Scheduler) | no reuse without disconnect, pacing, no call after shutdown, watchdog contract; liveness: shutdown ends, never stuck, starvation trips | poll 2, sleep 3, limits 2, arbitrary delays |
| `publisher` (MCPublisher) | muting, replays, bridging; liveness: endpoints recover | 2 endpoints (one replayable), 2 payloads, threshold 2, pause 2, replay limit 2, arbitrary delays |
| `elm` (MCElm327) | invariant, replies match, UDS replies without headers, echo off, stop only what monitors, operations end | a scan, a single frame, a multiframe, for both adapters; up to 2 lines, cap 2; ATE0 may be lost, ATSH rejected; stray prompts, BUFFER FULL; 2 unread frames |
| `elm_slow_prompt`, `elm_self_stop` (MCElm327) | counterexamples, see below | two of these sources, Bluetooth |
| `wican` (WicanAdapter) | readings of their own request, good bonds kept, links released; liveness: the adapter opens again | 3 attempts, 6 faults |
| `bluetooth_connect` (BluetoothConnect) | connect fits its bound | 4 attempts of 60 s, 2 calls: up to 354 s of a bound of 380 s |
| `pair` (PairCommand) | whole config, keys that bonded, errors change nothing, a left-over temporary file refuses one save only, confirmed edits kept | 2 processes, 2 runs each, 1 edit, any number of power failures |
| `decoding` (MCDecoding) | fields have values, bits of the number, the message or nothing, same bytes in single-frame reading, the latest frame counts, payloads the server can use | messages of 1 to 43 bytes: one line, and 2 to 7 frames with every padding, line cap 9; fields in 6 bytes of 4 bits, indices -5 to 1, lengths 0 to 5; 2 wanted frames and a foreign one in 4 lines; up to 5 values per reading |
| `broadcast_damaged` (BroadcastScan) | counterexample, see below | 1 frame, 2 lines |
| `daemon` (MCDaemon) | prompt stop, publish in time, next cycle bridged, nothing from before a sleep | 2 endpoints; pace 1, poll 4, replay limit 6: the payload is as old as the limit |

The bounds are small because the properties compare times and counts with
their limits only: below, at and beyond each limit happens in every run that
needs it.  Two payloads tell a stale one from a fresh one.  All actions are
enabled in some run.

Two choices bound the state and are not in the code: `no_publish_cycles` counts
up to `MaxCount` (the u32 would overflow only after 2^32 cycles with the watchdog
disabled), and ages stop where no comparison distinguishes them.
`PublishBound` in Scheduler is what `PublishInTime` shows of the two together: one request
timeout per endpoint.  `DisconnectBound` is an assumption: the code awaits `disconnect`
with no bound.  The `daemon` run has the watchdog disabled, which `scheduler` has at 2.

The Elm runs have the init list ATZ, ATE0, ATH1, so that headers are on when the first
poll begins, and several sources, so that the state one leaves behind meets the next.
The line cap is 2 instead of 600 and is reached.  `Queue` bounds the frames the host
has not read.  The passing run assumes that chip and link are faster than three
windows: the prompt comes within the 2 s of `read_until_prompt`, nothing comes after the 200 ms of
silence that end a drain, and BUFFER FULL does not cross with the end of the scan.
Slower than these, and replies can be shifted: the first and the last
assumption are what two of the counterexamples drop.

In the other modules:

* **Daemon.** The replay limit is met exactly: the pause, the longest poll and the other
  endpoint's POST add up to it.  `DaemonAssumption` states that they do not exceed it, besides what Publisher assumes; the
  code's 120 s and 3 x 10 s are less than half of its 600 s, so that it holds at every interval.
  `Prompt` is TRUE: on a loaded machine anything may expire.
* **WicanAdapter.** `MaxFaults` bounds what goes wrong outside: drops, lost links, errors of BlueZ,
  a forgotten key, discoveries without an answer.  Three attempts with six of them
  reach every error path twice.  `RestHasPassed` is an assumption on the device: the chunks of one
  answer are less than a poll interval apart.  Without it the end of an old answer is read as
  the beginning of the new one.
* **BluetoothConnect.** Steps take no time or the longest time, which is enough for a bound.
  Registration and init are external: `ConnectAssumption` takes 68 s for both, which the
  default init list (47 s) and 21 s for BlueZ meet.  A longer init list of a profile may not.
* **PairCommand.** Two runs are enough for every pair of steps to interleave, and for a
  save after a refused one.  Two passkeys tell the device's own from another one.
* **ReplyAssembly.** Frame 0 and the length line are not lost, since the emulator
  prints them together; without a length line the code accepts what there is.
* **FieldDecoding.** TLC's integers hold four bytes of four bits only.  `Width` is 4
  in the run and any number in the proofs; the three values of a byte have both signs and differ in every bit.
* **BroadcastScan.** Four lines are two of each needed frame: a good and a damaged one in either order.
* **Payloads.** `Largest` stands for the largest f32, and a mile is 1.6 km.

The findings:

* **`elm_slow_prompt`** (`RepliesMatch`): the line loop times out,
  `read_until_prompt` ends without a prompt, and ATH0 is written though
  `out_of_sync` is not set.  The PID's prompt is then read as ATH0's answer, and so on.  The
  comment at elm327.rs 421-422 says that the rest is consumed "so ATH0 reads its
  own reply".
* **`elm_self_stop`** (`NoStopAfterPrompt`): the scan ends by deadline, idle timeout
  or `stop_when` with BUFFER FULL and its prompt unread.  `prompt_seen` is false, so the
  CR is written and repeats ATMA.  The test at replay_tests.rs 897-899 says that
  no stop character is sent then.
* **`broadcast_damaged`** (`WantedDataInHand`): `seen_ids` takes the CAN-ID of a damaged line,
  which is not routed afterwards.  The scan ends by `stop_when` without the data that
  elm327.rs 466-468 says is in hand.

Seen while reading, and not the subject of a run:

* WiCAN discovery takes up to `bt_timeout_secs`, 255 s (wican.rs 191), where mod.rs 95-97
  leaves 60 s for the setup.
* A WiCAN connect that is dropped before `self.device` is set (wican.rs 362) leaves the BLE link
  up, where README.md 239 says that the adapter is disconnected.  The next connect uses
  that link (`Recovers`).
* A cycle that ends in a transient error skips the publisher (scheduler.rs 201), so that nothing
  is replayed in it; README.md 237 promises the replay for every cycle without a payload, and
  240 counts these among the cycles.  `NextCycleBridges` is about cycles that publish.
* A percentage that is not finite makes a battery payload without percentage and Wh (output.rs
  300), which README.md 54 says is not sent; and `trip_km` is copied unfiltered (output.rs 332)
  where 316-319 says that non-finite values are never sent.  `PayloadsAreUsable` is about
  plausible readings.

**Fairness.** Time passes (`Tick`); the signal thread, once inside `trigger`,
runs on; the task is scheduled when it can run (`Step`: everything but an
adapter's answer, including the timeouts).  Publishing and disconnecting end,
the first because each request has a timeout, the second by assumption.  Nothing
makes an adapter answer, a server accept, or a signal arrive.  In Elm327Session the
task runs, and so do the ends of a drain and of a scan, which have deadlines of
their own however much there is to read; and the chip is never stuck in the middle of an
answer: without a clock, a window that is not in `Late` ends only when
the chip is done.  Nothing makes the chip stop monitoring by itself, but a character
typed stops it.  In WicanAdapter every call
that is not dropped goes on (each await of BlueZ or of a chunk returns or has a
timeout), the scheduler calls connect and poll again, and what nobody is
subscribed to gets lost in the end; nothing makes the device answer.  The other modules
state no liveness.

## 5. What is proved

All with TLAPS, for all values of the constants that satisfy the named
assumptions.  Every safety property of a passing run is a theorem; so are the action
properties and the safety parts of the refinements.

* **ShutdownProofs.** `IInv` (types, a listener entry exactly while a wait is in
  progress, notifications only after a trigger, no lost wakeup) is inductive;
  `NoWakeupIsLost`; and each step of Shutdown is a step of Signal or a stutter.
  The strengthening is needed because a wait that has been enabled and not yet
  parked is safe only through its entry in the Notify.
* **DaemonProofs**, first part: Scheduler by itself.  `IInv` ties the adapter's state to
  the point of `run` (`LinkMatchesPc`), the wait future to the selects, the count to
  the limit, and what is left of every pause to the history (`PauseKept`: time
  passed plus time still to wait covers the pause).  From it: `ExitIsDisconnected`,
  `ReuseNeedsDisconnect`, `CallsArePaced`, `ShutdownStopsCalls`; `StopIsPrompt`, because the
  time since the signal never exceeds what publish and disconnect have used up; and
  `KeepsWatchdogContract`: every step of `run` is one of CycleHealth, or a
  stutter.  The invariant of Shutdown is reused as proved there.
* **DaemonProofs**, second part: the composition.  `MadeOfItsParts` says that a daemon is a
  behaviour of Scheduler and one of Publisher, so that all theorems of both hold of it.
  `DaemonInv` adds what neither part has: `run` and `publish` count the time of the same
  publish (`OnBudget`), and for each endpoint that has posted a reading, the age of
  that reading plus the time its next turn is still away fits the replay limit
  (`LastIsBridgeable`, `BeforeIsBridged`).  It is by this sum that a cached reading survives
  the pause, the longest poll and the other endpoints' POSTs.  From it:
  `PublishTakesItsTime`, `CyclesAreBridged`, `SleepIsFinal`.
* **PublisherProofs.** `IInv` says that breaker and cache are functions of the
  history (`BreakerTracksAnswers`, `CacheTracksGood`).  From it: `MutedGetsNoPost`,
  `OnlyMutedIsWithheld`, `ReplayIsLastGood`, `DropoutsHaveReplays`, and `PublishEnds`, the bound
  that DaemonProofs builds on.
* **Elm327SessionProofs.** `SessionInv` says of every point of the task which command is under
  way, at which stage of it the chip may then be and what may be on the link: one exchange
  and no other, unless `out_of_sync` says that an older one is still open (`Pipeline`), and
  which settings are in force or on their way (`SettingsInForce`).  A connect is exempt up to the drain
  behind its ATZ (`Greeting`): what link and chip hold until then is anyone's.  From it:
  `AnswersMatch`, `CyclesEndInStep`, `EchoGoesOff`, `HeadersGoOff`, `StopsMeetMonitoring`, for every
  profile, number of lines, cap and queue, whatever the chip loses, rejects or interrupts.
  Two assumptions are in each theorem.  `Timely`: the windows for a prompt, a drain and the end of a scan
  are long enough, those for a reply and for a line need not be; with a slow prompt or a scan that
  crosses with its end the properties are false, as two of the counterexamples show.  `ResetFirst`: the init list begins with its only
  ATZ, as `DEFAULT_INIT` (elm327.rs 17) and all shipped profiles do; a chip that was left
  monitoring would otherwise take another command's reply for that of ATE0.
* **WicanAdapterProofs.** `IInv` says that at most one request is without its answer, and which
  chunks may still come (`OneExchange`).  From it: `ReadingsAreFresh`, `GoodBondsStay`,
  `LinksAreReleased`, for every number of attempts and faults.
* **PairCommandProofs.** `IInv` is inductive.  What must be strengthened is the disk: a
  process about to rename has its whole text on it (`DiskAhead`), with the config's
  mode (`ModesSet`), in an inode that no directory shows as the config and no other process
  uses (`InodesOwned`), with a passkey that bonded (`KeysBonded`).  From it:
  `ConfigAlwaysWhole`, `TextNeverExposed`, `OnlyBondedKeysStored`, `ErrorsChangeNothing`, for any number of
  processes, runs, edits and power failures.  On top of it, `HeldIsSaved` (the text about to be
  renamed has every edit that its process still must keep) gives `SavesKeepEdits`, and
  `RefusalCleared` gives `LeftoversRefuseOnce`.
* **BluetoothConnectProofs.** `IInv` bounds the time spent at each step by the attempts so
  far (`OnSchedule`).  From it: `ConnectAlwaysFits` and `AgentRegisteredOnce`, for every legal
  number of retries and timeout.
* **DecodingProofs**, fields: `ValidFieldsDecode` and `TailDecides`, from what the operators
  return (`ReadBytes`, `extract_bits`), and `BytesStayPut`: bytes counted from the front do not move when the
  reply gets longer.  `BitsAreOfTheNumber`: what `extract_bits` accumulates bit by bit is what shifting and
  cutting gives (`BitsAddUp`).  It rests on the digits of a number of up to three bytes
  (`DigitOfNumber`), on the laws of quotients, and on those of powers of two, which the
  prover does not know: `Doubles` counts the subsets of a set.  For every width of a byte, every
  index, offset and length of reply.
* **DecodingProofs**, replies: `IInv` says that frames are collected in order and
  behind the length (`InOrder`, `LengthFirst`), that the payload is complete up to a
  frame `Taken` and that the next frame fits only if none was lost (`NextInOrder`), and that what
  has been cut is whole (`Uncut`, `Whole`).  From it: `AcceptedIsWhole`.  `SingleReadsTheSame`:
  what `get_payload` makes of the first k lines, and what the assembly has at line k, begin alike
  (`SameSoFar`); the step from k to k + 1 is the induction, and `LinesAddUp` shows that
  the recursive function inside `get_payload` exists.
* **DecodingProofs**, scans and payloads: `LatestIsReported`, for any number of lines and frames;
  `UsableAlways`, for all readings of plausible values.

Induction over data is done by hand where it is needed: the prover cannot instantiate the library's
induction theorems, so `LeastOne` and `Least` give the least counterexample, which is refuted
(`PowersMultiply`, `OneCollects`, `LinesAddUp`, `FirstPrompt`).

Theorems about properties that no run checks: `ExitIsDisconnected`, `TextNeverExposed`,
`AgentRegisteredOnce`, `TailDecides`, `BytesStayPut`, `PublishEnds`, `MadeOfItsParts`.  The same holds of
the inductive invariants.  The theorem shows more than a run would.

Only model-checked: liveness (the rest of `KeepsPromise`, `ShutdownEnds`, `NeverStuck`, `StarvationTrips`,
`EndpointsRecover`, `OperationsEnd`, `Recovers`), which needs ENABLED and is out of the prover's
reach.  The three counterexamples are TLC's.

## 6. What is not modelled

* Logging, arguments and the errors of a start: they keep no state.  The parsing of
  TOML and JSON, which is serde's.
* `Config::validate` and the syntax checks of profiles: lists of range checks.  The
  models take the ranges as assumptions on their constants; `check_field` is modelled, since
  the decoders rely on it.  Invalid intervals, which make `run` return an error
  before its loop, are excluded by that validation.
* BlueZ, the serial port, the HTTP servers and the file system, beyond what the code sees of them.
* The text of ELM327 replies beyond the kind of a line: nulls, spaces, the echo of a
  command in its reply.  Lines cut in two by a pause of the link are modelled in scans
  only, as short lines.
* The other `io::ErrorKind`s of `classify`: a table without state.  `run` ignores the result of
  `publish`, so the model does not compute it.
* The clock of Elm327Session: that a poll of many silent sources stays under
  `POLL_TIMEOUT` is not shown.  For the same reason a scan whose ATMA is lost has no end in the model, where the code has
  its deadline; the runs lose ATE0 only.
