# Verification of the SmartLocker edge program

TLA+ models of the SmartLocker edge program (the Raspberry Pi that watches a
paint locker: cans with RFID tags on shelf slots, a shelf scale, a mixing
scale, LEDs, a buzzer, a touch screen and a cloud), the TLC configurations that
check them and theorems that TLAPS proves about them. Line numbers refer to the
sources under `src/`.

Contents: 1 the system, 2 what is hard about it, 3 the modules, 4 the runs,
5 fairness, 6 the proofs, 7 findings, 8 known deviations, 9 what is not
modelled, 10 the plan, 11 how to run it.

## 1. The system

Two processes run on the device, started by a third (`launcher.py`). The
**hardware daemon** (`hw_daemon.py`) owns the sensors and lights and is one
asyncio event loop; scales, lamps and buzzer hang on an Arduino with a program
of its own (`firmware/`). The **interface**
(`run_ui_qt.py`, `ui_qt/`) holds everything else; it has the Qt thread, a
`HardwareWorker` thread that calls `InventoryEngine.poll` about twice a second
(RFID every 2 s), a sync thread (`SyncEngine`), the WebSocket's thread
(`RealtimeClient`), a monitor thread, and short threads for tares. No engine
has a lock: threads share plain Python fields, and meet through callbacks on
the event bus, queued Qt signals and the SQLite file.

| Component | State it keeps | Operations |
|---|---|---|
| Inventory engine, can tracking (`core/inventory_engine.py`) | `Slot.status`, `current_tag_id`, `last_change_time`; `_previous_tags`, `_removal_times`, `active_session`, `rfid_paused`, `stock_loading_mode`; LEDs; table `slot_state` | `poll` with `_handle_tag_appeared`, `_handle_tag_disappeared`, `_check_removal_timeouts`; `notify_reader_swap`; the flags set by screens |
| Inventory engine, weight alarm | `_last_shelf_weights`, `_weight_change_detected_at`, `_pending_weight_alarm`, `_weight_alarm_time`; the buzzer | `_process_weight_reading`, `_trigger_weight_alarm`, `_check_weight_alarm_timeout`, `resolve_weight_alarm` |
| Event bus (`core/event_bus.py`) | handlers, `_sequence_counter` | `subscribe`, `publish` |
| Sync engine (`sync/sync_engine.py`) | `event_log.synced`, `sync_retries`; timers of its other jobs | `_do_event_sync`, `_handle_ws_ack`; heartbeat, configuration, inventory, sessions, health, vessel stock |
| Cloud clients (`sync/cloud_client.py`, `realtime_client.py`) | `_connected`, pairing, API key | `sync_events`, `send_events`, pairing, commands |
| Local database (`persistence/database.py`) | `event_log`, `slot_state`, `vessel_stock`, `mixing_session`, configuration | one method per statement, WAL mode |
| Mixing engine (`core/mixing_engine.py`) | the session: `state`, actual weights, `in_spec`, thinner, pot life | one method per step; handlers of CAN_REMOVED and CAN_RETURNED |
| Mixing screen (`ui_qt/screens/mixing.py`) | the page, `_weighing_phase`, the button, `_tare_retry_phase` | button handlers, queued signals, tare threads |
| Hardware daemon | `_clients`, `_previous_tags`, `_rfid_healthy`, `_hw_ready`, `_rfid_pause` | three polling loops, `_handle_client`, `_handle_command` |
| Its client (`hal/socket_client.py`) | `_current_tags`, sensor status, weights; one answer slot | `_read_loop`, `_dispatch`, `send_command` |
| Drivers (`hal/real/`) | the scales' request, answer and command queue; load-cell offsets; lamp configuration on the Arduino, on pins or on a strip; the buzzer's flag and tune; readers, their places and tag caches | `tare`, `set_calibration`, `set_slot`, `play`, `poll_tags`, `swap_readers`, `write_tag`, each against a thread of the driver |
| Alarm manager, system monitor (`core/`) | `_active_alarms`, `_last_raised`; table `alarm_log` | `raise_alarm`, `acknowledge_alarm`, `resolve_alarm`, `auto_resolve`; a check every minute |
| Stock loading, tag writer, shelf map, Paint Now, calibration wizard (`ui_qt/`) | their own phases, timers and threads | each sets a flag of the tracker and calls one driver |
| Kivy interface (`ui/`, started by `run_ui.py`) | its screens' phases; `app.paint_now_context` | Paint Now and mixing, rebuilt from the engine's state every 0.3 s |
| Barcode scanner (`core/barcode_scanner.py`, `ui_qt/app.py`) | the key buffer; open dialogs | the key filter; the routing of a code to alarm, shelf map, mixing or dialog |
| Update manager (`sync/update_manager.py`) | the program's own files, `_previous_commit`, `_updating` | `apply_update` with its rollback and restart |
| Pairing (`sync/cloud_client.py`, `ui/screens/pairing.py`, `ui/app.py`, `ui_qt/screens/settings.py`) | the key, the pairing file, whether sync and the WebSocket run | pair, half-pair, unpair, start, stop, the start of the program |
| Backup manager (`core/backup_manager.py`), cloud log handler (`sync/cloud_log_handler.py`) | the copies and the USB medium; the buffer of lines | a copy with its rotation; `emit` and `_flush` |
| Launcher, daemon and UI as processes (`launcher.py`, `hw_daemon.py`, `ui_qt/app.py`) | the daemon a launcher started; who listens on the TCP port; client, or without hardware | start, wait, connect, terminate, kill |
| Serial ports (`hal/real/`, `hw_daemon.py`, `sync/update_manager.py`) | the weight driver's port, the readers' `_skip_ports` and configurations | the drivers' start, flashing the Arduino |
| Arduino (`firmware/smartlocker_nano.ino`) | offsets and their copy in the EEPROM under a mark; the stability windows; lamps, bar, tone | one command after the other; a reset at any moment |
| Fan (`scripts/fan_control.py`) | `current_temp`, `current_speed`; the fan's file | a round every few seconds, stop |
| Usage calculator (`core/usage_calculator.py`) | pairs of weights | arithmetic without state; not modelled |

How they meet:

- The daemon's messages fill the client's caches; the drivers `RemoteRFID`,
  `RemoteWeight` answer from these caches; the tracker polls the drivers.
- The tracker publishes events. The bus numbers each under a lock and calls the
  handlers outside it; `app.py` logs each to `event_log`, and the mixing engine
  listens for CAN_REMOVED and CAN_RETURNED.
- The sync thread sends the logged events; the WebSocket's thread marks them
  when the cloud acknowledges.
- The mixing engine calls the screen back on whichever thread changed it; on
  the hardware thread that becomes a queued signal.
- The tracker and the mixing engine drive the same LEDs, the alarm and the
  barcode popup the same buzzer.

What makes each part correct: the tracker's slots agree with the shelf, a can
is in one place only, and what its events tell of a can is a history a can may
have; an alarm is raised for every lasting change and for no other, and it is
told of and ends; an event leaves the log only when the cloud has it, or after
the retries the code allows, and no event waits for ever; a mixing session can
be brought to its end, its weights are what was poured, and the screen shows
the engine's state; a client's cache is what the daemon sees, and a caller gets
the answer to its own command; one daemon drives the hardware, nobody but the
weight driver opens the Arduino's port, and a zero the Arduino told of is not
lost to a reset.

## 2. What is hard about it

`PROJECT.json` lists each hazard at its line with the properties that cover it.
The main ones:

- **Threads without locks.** The interface's thread resets slots, timers and
  tags in three statements while a poll runs on the hardware thread
  (`inventory_engine.py:365`); both threads clear an alarm in several
  statements (978); two threads read and write the same litres
  (`database.py:613`) and the same list of alarms (`alarm_manager.py`); all
  callers of a tare share one request and one answer (`real_weight.py:539`); an
  event is numbered by one step and stored by another (`event_bus.py:82`); all
  tunes look at one flag (`real_buzzer.py:231`).
- **What outlives its owner.** A sync loop that `stop` gave up waiting for
  (`sync_engine.py:131`), a tune that was told to end, a tag's cached pages, a
  copy whose rotation failed (`backup_manager.py:169`), an upload that was lost
  and is not put back (`cloud_log_handler.py:97`).
- **Several owners.** Two launchers find no daemon and start one each
  (`launcher.py`, `hw_daemon.py:316`); a serial port has two names, and opening
  the Arduino's resets it (`real_weight.py`, `real_rfid_multi_pn532.py`); a reset
  may cut the saving of the zeros anywhere (`smartlocker_nano.ino:284`).
- **Faulty sensors.** One missed read is a removal and a return (413); an outage
  empties `_previous_tags` (431); the daemon announces an outage as the removal
  of every can (`hw_daemon.py:613`).
- **Order.** Arrivals are handled before removals (418); queued signals arrive
  after the engine has moved on (`ui_qt/screens/mixing.py:941`); timers belong
  to a screen, not to the step that started them (`calibration_wizard.py`).
- **Time.** Removal timers, the alarm's thirty seconds, a tare of up to 15 s
  that is carried out although its caller gave up, commands that time out while
  their answer is under way (`socket_client.py:132`), a tag that is written
  after its screen was left.
- **Delivery.** HTTP answers get lost, the WebSocket breaks, one bad event may
  fail a batch, the process restarts in the middle of an update.

## 3. The modules

Every module models whole handlers: one action is what a thread does between
two points at which another thread can act in a way that matters. `MCInventory`,
`MCTracker` and `MCEventSync` state the properties of one component, with its
abstract specification or with history variables for what a property excuses.
`MCServices` and `MCCabinet` put components side by side that share no variable: the constant-valued
variable `focus` names the one a behaviour is about and the others rest, so a
run covers each of them in full without multiplying their states. `MCCabinet`
keeps the variables of the focus in cells `c1`..`c24` and instantiates each
module WITH its variables replaced by these cells. The charts of products and
the labels are constants too; the configuration takes them from definitions of
`MCCabinet` (`PaintLayers <- ChartLayers`, `Labels <- TwoLabels`).

| Module | Code | Checked in |
|---|---|---|
| `Inventory`, `CanCustody` | `core/inventory_engine.py`, can tracking | `MCInventory`, `MCTracker`, `MCCabinet` |
| `WeightAlarm` | `core/inventory_engine.py`, weight alarm | `MCServices` |
| `EventSync`, `EventDelivery` | `core/event_bus.py`, `ui_qt/app.py` (`log_event`), `sync/sync_engine.py` | `MCEventSync` |
| `Mixing` | `core/mixing_engine.py`, `ui_qt/screens/mixing.py` | itself, `MCServices`, `MCCabinet` |
| `DaemonLink` | `hw_daemon.py`, `hal/socket_client.py` | itself |
| `VesselStock` | `persistence/database.py`, `sync/sync_engine.py`, `core/mixing_engine.py` (consumption) | `MCServices` |
| `ScaleDriver` | `hal/real/real_weight.py` | `MCServices` |
| `AlarmLifecycle` | `core/alarm_manager.py`, `core/system_monitor.py`, `ui_qt/screens/alarm.py` | `MCServices` |
| `OtaUpdate` | `sync/update_manager.py` | itself, `MCServices` |
| `Uploads` | `sync/sync_engine.py`: sessions and health records | `MCServices` |
| `Lamps`, `Lights` | `hal/real/real_led_arduino.py`, `real_led_gpio.py`, `real_led.py` | `MCCabinet` |
| `Sounds` | `hal/real/real_buzzer.py` | `MCCabinet` |
| `TagWriting` | `ui_qt/screens/tag_writer.py`, `hal/real/real_rfid_multi_pn532.py` | itself, `MCCabinet` |
| `StockLoading` | `ui_qt/screens/stock_loading.py` | `MCCabinet` |
| `ScanFilter`, `CanScans` | `core/barcode_scanner.py`, `ui_qt/app.py` | `MCCabinet` |
| `RfidReaders` | `hal/real/real_rfid_multi_pn532.py` | `MCCabinet` |
| `SingleReader` | `hal/real/real_rfid_pn532_usb.py`, `real_rfid_rc522.py` | `MCCabinet` |
| `LoadCell`, `Calibration` | `hal/real/real_weight_hx711.py`, `ui_qt/widgets/calibration_wizard.py` | `MCCabinet` |
| `PaintNow`, `KivyMixing` | `ui_qt/screens/paint_now.py`, `ui/screens/` | `MCCabinet` |
| `Pairing` | `sync/cloud_client.py`, `sync/sync_engine.py`, `ui/app.py`, the pairing and settings screens | `MCCabinet` |
| `Backups`, `CloudLogs` | `core/backup_manager.py`, `sync/cloud_log_handler.py` | `MCCabinet` |
| `Launch` | `launcher.py`, `hw_daemon.py` (`main`, `start`), `ui_qt/app.py` (`_init_system`) | `MCCabinet` |
| `PortClaims` | `hal/real/real_weight.py`, `real_rfid_multi_pn532.py` (looking for their ports), `hw_daemon.py`, `sync/update_manager.py` (flashing) | `MCCabinet` |
| `Firmware` | `firmware/smartlocker_nano/smartlocker_nano.ino` | `MCCabinet` |
| `FanControl` | `scripts/fan_control.py` | `MCCabinet` |

### Inventory (abstract specification: CanCustody; properties: MCInventory, MCTracker)

`Inventory.tla` is the tracker. The variables carry the names of the fields
where they have one: `status`, `tag` (`current_tag_id`), `previous`
(`_previous_tags`), `timed` (the keys of `_removal_times`), `persisted` (the
table `slot_state`), `activeSession`. The slots' LEDs are left out: four writers set
them without regard to each other (section 8), so nothing is claimed of them.
`age` is the time since
`last_change_time`, counted in ticks and only while a can is out, which is when
the code reads it. `readings` is the last RFID poll, a set of pairs
<<slot, tag>>: readings are compared **by tag**, as the code does
(`TagsOf`).

| Code | Actions |
|---|---|
| `poll`, RFID branch: new tags, then gone tags, then `_previous_tags` | `PollRfid`, `HandleAppeared`, `AppearedDone`, `HandleDisappeared`, `DisappearedDone` |
| `poll`, RFID down or paused | `PollDown` |
| `_check_removal_timeouts` | `CheckTimeouts` |
| `notify_reader_swap`, three statements | `SwapReaders` (the driver), `SwapForgetTags`, `SwapResetSlots`, `SwapClearTimers` |
| screens opening and closing, `on_leave` of the mixing screen | `GoScreen` |
| `active_session` as `ui/` sets it | `SwitchSession` |
| a crash, `rebuild_shelves` at the start | `Crash`, `Start` |
| the crew and the hardware | `TakeCan`, `PutCan`, `RfidHealth`, `Tick` |

`CanCustody.tla` says what may be told of one can: it is unknown, on the shelf,
out, or elsewhere (in use or consumed), and each event type is a step between
two of these. `TellsCustody` is the refinement: the custody of a can is read
off the slot that records it, and every step of the tracker that publishes an
event about a can is such a step.

`MCTracker` adds to the tracker notes of the cans whose moves no poll could
compare (`moved`, `blind`, `unseen`) and of a poll that mixed readings from
before and after a swap (`mixed`), all told from the steps themselves.
Both runs of the tracker use
it, the steady one with the fairness of `Inventory` (`MCFairSpec`).
`SlotsTellTheShelf` says what every poll restores, whatever came before, and
which slots alone may go on naming a can that has gone.

The constant `Env` says what the environment may do (`fast_moves`,
`missed_reads`, `outage`, `restart`, `clock_jump`, `session`; `fast_moves` and
`clock_jump` are for the deviations of section 8), and `Screens`
which screens are opened. A run names both, so it is plain under what
conditions its properties hold; section 8 lists the conditions under which they
do not.

### WeightAlarm

The fallback while RFID is down. `baseline`, `detected` with `since`, `pending`
and `elapsed` stand for `_last_shelf_weights`, `_weight_change_detected_at`,
`_pending_weight_alarm` and `_weight_alarm_time`. Each thread has a place
(`hw`, `ui`), and one step per statement that the other thread can come
between. `_process_weight_reading` is `FirstReading`, `Detect`, `KeepWaiting`,
`Trigger`/`Ring`, `Settle`, `Follow`, `LookAway`, one per branch; the timeout is
`CheckPending` (reads the flag), `CheckElapsed` (reads the time),
`PublishUnauthorized`, `ExpireClear`, `ExpireSilence`; the barcode is `Scan`,
`Resolve`, `PublishResolved`, `ResolveClear`, `ResolveSilence`, `Confirm`.
`told`, `raised` and `off` are history variables: what was published about the
alarm, whether it has been raised and not cleared, and how long the weight has
been away from the baseline.

### EventSync (abstract specification: EventDelivery; properties: MCEventSync)

An event from `EventBus.publish` to the cloud. `Publish` is the numbering, under
the bus's lock; `SaveEvent` is the INSERT that `log_event` makes outside it, on
the publishing thread, so that a younger event may be stored first, or the
database refuses the row (`unsaved`), or the process dies in between.
`BeginSync`, `SendWs`,
`PostBatch`, `CountFailure`, `PostOne`, `MarkSynced` are the steps of
`_do_event_sync` between which another thread can write to the table or the
process can die; `HandleWsAck` is the WebSocket's thread. `wire` and `acks` are
the messages under way, and a broken connection loses them. An HTTP request has
three outcomes (`Answers`): done, not done, done but the answer lost. `Poison`
are the events the cloud refuses, with any batch they are in. `MCEventSync`
notes who overtook whom on the way into the table (`passed`) and which start of
the program numbered an event (`run`).

`EventDelivery.tla` is what the log promises: events are recorded, the cloud
receives them, and an event is released only if it was received or has failed
`Tries` times. `Delivers` is the refinement.

### Mixing

The session's state machine (`core/mixing_engine.py`), the screen
(`ui_qt/screens/mixing.py`) with its barcode check and pour guide, the tare
threads, the queue of signals (`mail`), sessions handed over by Paint Now, and
as much of the tracker as reaches the engine. `Show` is
`_on_engine_state_change`; it runs at once when the screen itself changed the
state, and from the queue (`HandleState`) when the hardware thread did.
`TareDone` and `TareFailed` are the two ends of `_do_tare_async`. The model is
of the program as `ui_qt/app.py` sets it up: the engine has neither inventory
nor database, and nothing sets `active_session`. What the result of a session
that was left does to the next one is marked `stale` and not claimed.

### DaemonLink

The daemon, its client, and the connection between them. `PollRfid`,
`CastTag`, `CastDone` are one round of `_poll_rfid_loop`: what is read, one
broadcast per change, and the memory of it. `HardwareReady` is the end of
`start`, `CastStatus` and `CastWeight` the other loops,
`BeginCommand`/`FinishCommand` `_handle_command`, `CloseQuiet` the timeout of
`_handle_client`. In the client, `ReadLine` and `ReadEnd` are `_read_loop` with
`Dispatch`, and `Arm`, `Send`, `Return`, `TimeOut` are `send_command`. The
first message has no newline (`hw_daemon.py:375`), so `ReadLine` takes it and
the one behind it as a single line that is dropped.

### The services of MCServices

- `VesselStock`: the litres of each product. A barcode or, in the older
  interface, a mix changes them in two steps (`ChangeRead` as `ScanRead` or
  `Consume`, then `ScanWrite`) on the interface's thread; the sync thread,
  and the WebSocket's on a `config_update`, bring the table in line with the
  cloud's list (`Fetch`, `UpsertSelect`, `UpsertInsert`, `DeleteUnlisted`) and
  merge rows stored under a code the catalogue did not know (`ReadOrphans`,
  `CheckOrphan`, `MergeWrite`, `DropMerged`). `owed` is what the crew loaded
  and unloaded; `upset` marks the products whose rows a deletion or a merge
  that overlapped a change has upset.
- `ScaleDriver`: the reader thread of the Arduino scales with its queue of
  commands, the one request and one answer all callers of `tare` share, and an
  Arduino whose answers may come late. `tares` is the truth about each scale,
  `doubt` marks a caller whose answer may be another's, `missed` a scale with a
  tare whose answer the driver did not get; `zero` is the Arduino's
  memory, `backup` and `stored` the database's. A restart (`Zeros`) leaves the
  EEPROM's zeros, or restores the database's where `set_offset` takes them, or
  keeps the ones the Arduino took itself, since every failure of the restore is
  only logged; the scales whose zero is then not the stored one join `missed`.
- `AlarmLifecycle`: raise, deduplicate, acknowledge, resolve, on the monitor's
  and the interface's threads, each statement on the shared list a step.
- `OtaUpdate`: an update by either of two threads, step by step as
  `apply_update` goes, with its exceptions, its rollback and what a restart
  does under each service manager (`Unit`).
- `Uploads`: mixing sessions by WebSocket or HTTP and health records by HTTP,
  which are marked, and a month later deleted.

### The parts of MCCabinet

- `Lamps`: what the users say (`SetSlot`, `Clear`), the blink thread's pass
  over a copy of it (`BeginPass`, `Visit`, `SendHw`, `EndPass`), the bounded
  queue and the Arduino's pins (`Drain`, `DrainLost`).
- `TagWriting`: the screen, the scanning and the writing threads, the locks and
  caches of the readers, the table `rfid_tag`.
- `StockLoading`: RFID signals, stabilisation over a buffer of weights, the
  credit or its failure (a read that fails or finds nothing, a database that
  refuses: `failed`), the countdown and the return. Time goes by in half seconds, the period
  of the screen's own timer, so that a tag may be polled between two readings.
- `ScanFilter`: the event filter sees a key once per receiver Qt offers it to;
  scanner and typing are told apart by time. Whatever the buffer held, the third
  offer of a key is taken if the second was not (`Offered`), so three receivers
  stand for any number.
- `CanScans`: the routes of a code and the nesting dialogs, with weights and
  the alarm of the engine.
- `RfidReaders`: readers found at the start, the saved map, swaps while a poll
  runs, failing and returning readers.
- `LoadCell`, `Calibration`: the reader thread with tare requests, spikes and
  calibration; the wizard with timers that outlive their step.
- `Lights`: the lamps on pins, whose calls and passes hold a lock, and those of
  the strip, where a call notes (`SetPixel`, `ClearNoted`) before it writes
  (`Write`) and a pass goes over a copy (`BeginPass`, `Blink`).
- `Sounds`: a call to play or stop step by step (`Call`, `BeginJoin`, `Hush`,
  `Return`, `ClearFlag`, `Begin`) against the threads of the tunes (`Tone`,
  `ToneOver`, `TuneOver`, `FallSilent`), all looking at one flag.
- `SingleReader`: one reader on USB or SPI. A poll reads the number
  (`PollNumber`) and then the pages (`PollPages`) of what lies there by then;
  writing, errors, the search for a reader that was unplugged, shutdown.
- `Pairing`: the key, its file, and the sync loops started under it; pairing
  that fails half-way, unpairing, loops that `stop` did not see end.
- `Backups`: copies, whole or torn, their rotation and the copy to USB, with
  restarts at any step and a clock that is set back.
- `CloudLogs`: the bounded buffer and the uploads of its thread and of `stop`.
- `Launch`: launchers that look for a daemon, start one and stop it; daemons
  that bind the port before they touch hardware; UIs that are clients or do
  without hardware.
- `PortClaims`: the start of the two serial drivers over ports with two names,
  an old configuration and changed cables, and an update that flashes the
  Arduino.
- `Firmware`: the Arduino, command by command, with the EEPROM written byte by
  byte (`Save`) and a reset at any point; a zero is the number of the moment it
  was set at.
- `FanControl`: rounds of the fan's thread, with reads and writes that fail.
- `PaintNow`, `KivyMixing`: the amounts a crew is told and the session it gets;
  the Kivy pages, which lag behind the engine by up to 0.3 s.

## 4. The runs

A run marked *violation* is expected to fail: it shows a disagreement between
the code and what it says of itself (section 7).

| Run | Configuration | Shows |
|---|---|---|
| `inventory_steady` | 2 slots, 2 cans, mixing sessions and the mixing screen, healthy RFID, one move per poll interval | `OneSlotPerTag`, `TimersMatch`; `ViewMatchesShelf`: after every poll each slot says what stands on it; `RecordsFollow`: a can that stays is recorded, and `slot_state` stops naming one that has gone |
| `tracker` | 2 slots, 2 cans, tag writer, stock loading, reader swap, outages, restarts | `SlotsTellTheShelf`: what a poll has compared, the slots tell, and only cans that nobody could compare, or that loading put elsewhere, stay named where they are not |
| `events` | 3 events of which the first is refused, 2 publishing threads, batches of 2, 2 retries, 3 starts, WebSocket, outages, lost answers, refused rows | `OnlyStuckAreDropped`, `PoisonTakesNobody`, `CloudLearnsInOrder`, the refinement `Delivers`, `QueueMoves` |
| `events_offline` | outages only | *violation* of `NoEventLost` |
| `mixing_qt` | recipe 2:1, up to 2 units of each component, healthy RFID | *violation* of `SessionProceeds` |
| `mixing_spec` | the same with RFID down | *violation* of `SpecIsTrue` |
| `daemon_link` | 1 tag, 1 caller, 2 commands, 2 messages on the way, outages, closed connections | `CacheMatches`, `OwnAnswer`, `ClientFollows` |
| `daemon_quiet` | the same | *violation* of `NoClientDropped` |
| `services` | the seven services of MCServices | `StockAddsUp`, `ResolvedOnce`, `TriedCodeStays`, `NothingForgotten`, `BuzzerMatchesAlarm`, `AlarmsAreTrue`, `TareIsTrue`, and what each brings to its end: `AlarmsComeAndGo`, `ServicesProgress`, `ManualSessionProceeds` |
| `update_restart` | an update under `Restart=always` | *violation* of `CompletedRuns` |
| `tag_writing` | one tag, one write | *violation* of `ButtonReturns` |
| `cabinet` | the twenty-two parts of MCCabinet | `SignalsAreTrue` of lamps of each kind and the buzzer, `UpkeepHolds` of pairing, backups, the log, the Arduino's zeros and the fan, `HardwareIsShared` of processes and ports, `TagsAreTrue`, `ReadersTellSlots`, `CansCountOnce`, `ReadingsAreTrue`, `PanelsAreTrue`, the refinement `TrackerTellsCustody`, and of a mixing session `BaseWeightIsTrue`, `ScreenFollowsEngine`, `PourIsGuided` |

Each passing run also checks the type invariant of its modules.

### The bounds and why they are enough

- **Slots and cans.** Handlers relate at most three slots: the one a can
  appears in, the one it was taken from, and one that holds another can. Two
  cans are the fewest that can displace each other, and on two slots they do;
  the theorems of section 6 hold for any number. Tags are symmetric; symmetry
  is used only in a run without liveness properties.
- **Time.** `InUseAfter` = 1 and `ConsumedAfter` = 2 ticks keep the order of
  the four-hour and the twelve-hour limit and a moment between them. A tick
  passes only after the timeouts have been checked, since thousands of polls
  fit in an hour; `clock_jump` drops that, in no run. In `WeightAlarm` the sustain time
  (2) is shorter than the scan timeout (3) as in `config/settings.py`, and both
  take more than one tick so that things happen in between.
- **Weights.** 0..3 with threshold 1 has small changes, large ones up and
  down, and chains of small ones that add up to a large one.
- **Events.** With batches of 2 and two publishers, the refused event among
  three is at the head of the queue or, stored late, behind a good one; the
  third event waits, or overtakes. Two retries distinguish the last
  charge from the one before. `MaxBoots` bounds restarts; the second start is
  the first at which sequence numbers repeat, and the third the first at which
  they do so again.
- **Mixing.** Two units of base and one or two of hardener give a mix that
  fits the recipe, and ones that do not. `cabinet` lets a second session follow
  the first, with RFID that comes and goes; the constraint `NotStale` cuts what
  a leftover of a session that was left does to the next (section 8).
- **DaemonLink.** What the daemon does about one tag does not depend on the
  others (differences are per tag, broadcasts too), so one tag suffices. Two
  commands are the fewest of which one can be given the other's answer. With
  `MaxDown` = 2 the daemon's writes block on a slow client (`drain`), and the
  first message meets every message that may follow it.
- **Stock.** The arithmetic of one product does not depend on another's; two
  changes are the fewest of which one can be lost.
- **Scales.** Two callers share the request; one late answer is the fewest that
  can be taken for another's; two starts lose and restore a zero, or fail to.
- **Updates.** Release 0 is installed, 1 cannot be imported, 2 can: an update
  that works, one that is rolled back, and a wish that changes meanwhile.
- **Uploads.** Two sessions and two records in batches of one: one is uploaded
  while the other waits.
- **Cabinet.** One lamp set by two threads; one tag on two readers and two
  writes, of which the second begins before any can was moved (`FewWrites`);
  loading with the code's own times and buffer, in half seconds (8 s to settle,
  3 s of the result, RFID every 2 s, 8 readings of half a second), so that
  readings before and after a can come into the buffer and leave it; two labels of different length with up to
  three receivers per key; two cans, one slot and two dialogs, until the crew
  mixes up two cans (`BeforeMixUps`); three ports with two swaps; loads below
  and beyond the spike limit; two known weights; a chart with products that
  have no coverage, only one component, or are not in the database; three Kivy
  sessions, the fewest with which a late return may meet the session after the
  next. Readers
  are polled in threads of their own up to six at a time; the model lets their
  answers come in any order.
- **Signals and upkeep.** Two threads and two sounds are the fewest calls that
  cross; a third sound would cross either of them the same way. Two changes of
  a single reader's surroundings let the tag be lifted between number and pages
  and then come back, or the plug move and a reading follow. Three keys pair,
  unpair or fail, and pair twice again. Five copies of which two are kept
  rotate copies that failed past the last whole one unless rotation is right;
  one clock set back suffices, since afterwards a copy may get any place. Five
  lines through a buffer of two let two uploads be under way while lines are
  dropped.
- **Processes and ports.** Two launchers and two daemons are the fewest that
  race for the TCP port and for a daemon to stop. Two serial ports hold every
  pair of Arduino, reader and nothing, under both names; two attempts tell the
  last from the one before.
- **Arduino and fan.** Two zeros of two scales tell an old one from a new one
  and let a save be cut between the scales; a window of two has a first reading
  and a last. The temperatures lie on both sides of each kind of threshold: at
  the one that turns the fan off, between it and the lowest of the curve, at
  that, and in and at the upper ones.

Each property has a mutant in `PROJECT.json`: a small change to a definition,
of the kind a bug would make, under which TLC finds that property violated.
Operators such as `Sources_RemovedOnly` in the modules are these changes; the
specifications do not use them.

## 5. Fairness

Safety runs use `Spec`. `FairSpec` (in MCServices `MCFairness`, which gives
each service its own module's fairness while it is the focus) adds only what
the program's scheduling gives:

- **Inventory:** weak fairness of each step of the hardware thread (a worker
  that loops until the process ends and catches exceptions) and of a handler
  that has begun on the interface's thread. Nothing is assumed of the crew,
  the clock, RFID or restarts.
- **WeightAlarm:** weak fairness of both threads and of the popup's own
  countdown; strong fairness of `Tick`, since time passes although it does so
  in the model only between two polls.
- **EventSync:** weak fairness of the sync thread. Strong fairness of
  `CloudTakes` and `HandleWsAck`: the WebSocket may break at any time, but not
  each time before a message gets through.
- **Mixing:** weak fairness of the Qt thread's queue, of the tracker, and of a
  crew that does what the screen shows; strong fairness of `TareDone`: a scale
  that is tried again and again answers in the end. Leaving and starting a
  session are choices.
- **DaemonLink:** weak fairness of the start, the connection, the RFID loop
  and the reader thread; strong fairness of the broadcasts and commands, which
  wait for room on the connection together with others.
- **VesselStock, Uploads:** weak fairness of the sync thread, of a command the
  WebSocket's thread has begun, and of messages that are under way.
- **ScaleDriver:** weak fairness of the reader thread and of the Arduino.
- **AlarmLifecycle, OtaUpdate:** weak fairness of the monitor, of what a thread
  has begun, and of either updating thread.
- **TagWriting:** weak fairness of the writing and scanning threads and of the
  screen's queue and timers.

## 6. The proofs

All theorems are checked by TLAPS down to the last leaf, for every value of the
constants that the named assumptions of the modules allow. The assumptions are
those the modules state under ASSUME (sizes and limits are naturals, names are
distinct from "no name"), and where a row says so a condition on what the
environment does.

| Module | Theorem | States | Condition |
|---|---|---|---|
| `Inventory_proofs` | `TypeCorrect` | `TypeOK` | |
| | `NoCanTwice` | `OneSlotPerTag`, `OccupiedIsTracked` | no outages; home and mixing screens |
| | `TimersCorrect` | `TimersMatch` | readers are not swapped |
| | `ShelfIsKnown` | `ViewMatchesShelf` | no outages, no fast moves; home and mixing screens |
| | `CustodyIsTold` | `TellsCustody`: the tracker implements CanCustody | the same |
| `EventSync_proofs` | `QueueTypeCorrect` | `TypeOK` | |
| | `OnlyStuckDropped` | `OnlyStuckAreDropped` | |
| | `RefusedAlone` | `PoisonTakesNobody` | |
| | `EventsInOrder` | `CloudLearnsInOrder` | |
| | `QueueDelivers` | `Delivers`: the queue implements EventDelivery | |
| `DaemonLink_proofs` | `LinkTypeCorrect` | `TypeOK` | |
| | `CacheIsDaemons` | `CacheMatches` | |
| | `AnswersAreOwn` | `OwnAnswer` | |
| `VesselStock_proofs` | `StockTypeCorrect`, `NoLitreIsLost` | `TypeOK`, `StockAddsUp` | |
| `Mixing_proofs` | `MixingTypeCorrect` | `TypeOK` | |
| | `BaseIsWeighed`, `ScreenInStep`, `NoLightForNothing`, `PouringGuided` | `BaseWeightIsTrue`, `ScreenFollowsEngine`, `LightsAreTrue`, `PourIsGuided` | |
| | `PickedByReader` | `NoManualPick`, an action property | |
| `MCServices_proofs` | `AlarmTypeCorrect`, `AlarmsTypeCorrect` | `TypeOK` of the weight alarm and of the alarm manager | |
| | `BuzzerInTune`, `AlarmsTrue` | `BuzzerMatchesAlarm`, `AlarmsAreTrue` | |
| | `EndIsToldOnce`, `StockAdded` | `ResolvedOnce`, `StockAddsUp`, of the composition | |
| | `NothingIsForgotten` | `NothingForgotten` | |
| | `TriedCodeIsLeft` | `TriedCodeStays` | |
| | `TareIsReal` | `TareIsTrue`: a reported tare was done, and a scale's zero is the one of its last tare and the stored one, unless an answer or a restore failed | |
| | `ServicesTypeCorrect` | `ServicesTypeOK`, of the composition | |
| `MCCabinet_proofs` | `CabinetWeighsBase`, `CabinetShowsState`, `CabinetGuidesPour` | the properties of a mixing session, of the composition (`PourIsGuided` with `LightsAreTrue` and `PicksByHand`) | |
| | `CabinetShowsSignals` | `SignalsAreTrue` | |
| | `CabinetReadsTrue` | `ReadingsAreTrue` | |
| | `CabinetTellsSlots` | `ReadersTellSlots` | |
| | `CabinetTellsCustody` | `TrackerTellsCustody`, of the composition | no outages, no fast moves; home and mixing screens |
| | `CabinetWritesTags` | `TagsAreTrue` | |
| `MCCabinetCrew_proofs` | `CabinetCountsCans` | `CansCountOnce`: of loading, of the scanner, of what is scanned | |
| | `CabinetMixesAsTold` | `PanelsAreTrue` of both interfaces | |
| | `CabinetSharesHardware` | `HardwareIsShared`, of any number of launchers, daemons and ports | |
| | `CabinetKeepsUp` | `UpkeepHolds` | |
| | `CabinetTypeCorrect` | `CabinetTypeOK`, of all twenty-two parts | |

The conditions are the ones under which the property is true: section 8 says
which step of the code breaks it without them.

### The arguments

- **Types of the tracker.** The handlers pick the first slot that satisfies a
  condition; `FirstIsMember` (from the well-foundedness of < on the naturals)
  says that there is one. Then one lemma per handler and one step per action.
- **No can twice.** `OneSlotPerTag` is not inductive: a tag that appears is
  written to a slot while only *removed* or *in use* slots are searched for it,
  so an OCCUPIED slot that records it would be a second one. `OneSlotInv` adds
  that what an OCCUPIED slot records is among the tags still compared
  (`OccupiedIsTracked`), so a tag that counts as new is in no OCCUPIED slot.
  An outage breaks exactly this, which is why it is assumed away.
- **Timers.** `TimersInv` is the property with the types and `uiPc = "idle"`;
  a reader swap clears slots before timers, so it is broken in between.
- **The shelf is known.** `ShelfInv` follows one poll through its steps. Cans
  stand apart (`Apart`); the readings are in accord with the shelf, because
  nobody moves a can between two polls twice (`ReadRight`), and with the
  OCCUPIED slots (`Recorded`); what was read and is not still to be handled is
  recorded (`Handled`); and what is to be told as gone is recorded, and not
  read (`Leaving`). When the poll is over these are `ViewMatchesShelf`.
- **Custody.** A can's custody is the kind of the slot that records it
  (`CustodyIsKind`, which needs one slot per tag). Each branch of
  `_handle_tag_appeared` then is one of Returned, Moved, Placed, WrongSlot,
  with the can it displaces as witness, and removals and timeouts are Depart
  and Expire; every other step leaves each can's kind alone.
- **The event queue.** `IInv` joins the types with `ChargeRoom` (an event on
  offer has not used up its retries, which keeps `retries` in range),
  `AcksAreTrue` (what is to be marked, on either path, is in the cloud) and
  `JobShape` (a cycle starts from nothing). Under it each action is a Record,
  Receive, Fail or Release of EventDelivery, or a stutter.
- **A refused event.** `ChargedOnce`: while no request is lost, an event that
  the cloud would take is charged only when the program died between its batch
  and its own turn, so its retries stay behind the number of deaths; and a batch
  that is counted as failed holds a refused event or is in the cloud already.
- **The order of events.** `Numbered`: within a run of the program the numbers
  grow, so of two events of one run the batch takes the older one first, if it
  is there and not stuck. `InOrder(S)`: whoever learns of the events of S, the
  cloud from a batch, from the wire or one by one, learns of none before an
  older one but with an excuse of `MayOvertake`; a row that is new was passed
  by every younger one already there, so no step takes that back
  (`OrderKept`).
- **The daemon's link.** `Link` says of each tag what the client will know once
  it has read what is under way: for a registered client, the messages still
  to come lead from its cache to what the daemon has told. The first message
  swallows its successor, which `Connection` accounts for. `InTurn` counts the
  commands, answers and waiting callers: without a timeout there is one of them
  at a time, and it carries the caller's number.
- **Alarms.** `Over`: an alarm whose end was told, or which a thread has taken
  off the list, is not on it, and no two threads hold it. The removal from the
  list is the one step that decides.
- **Litres.** `Balanced`: for every product that is not upset, its row and the
  orphan row add up to what is owed and what a merge under way holds twice
  (`AddsUp`), or the threads that merge will find that the orphan has changed
  (`Doomed`); and a change of an orphan that is still to be written cannot take
  more than is owed (`Covered`). One lemma per step that writes litres.
- **A mixing session.** `Pouring` says that the page is in one of five
  situations, named by what is under way: the screen asks, it is being tared,
  it has been, the tare is to be repeated, or the hardware thread has moved the
  engine on and the signal is in the queue. To each belongs what the scale
  holds (`Contents`) and where the guide points (`Guidance`). No situation but
  one lets the crew press the button, which gives the weights, the page and
  the pick.
- **The weight alarm.** `OneAlarm` (what each thread's place says about the
  alarm and the detection), `Published` (who clears has published), `Sounding`
  and `Lasting` (a detection is not older than the change it stands for).
- **Lamps.** `Agrees`: the commands on their way to a lamp, in the queue and in
  the hands of the threads, end with the one the driver takes it to show
  (`hw`), or the lamp is among the `crossed`. `Passed` says this of what a
  pass over the slots has handled, `Dark` of the slots that were cleared, and
  `LampPlaces` what each thread's place in its call means for the rest.
- **Lamps on pins and strips.** `NotedLast`: what a call has still to write is
  what was noted last for the lamp, or another call crossed it; `LitAsNoted`:
  each lamp that no call has to write and no pass holds is lit as noted. On
  pins no call is ever between the two (`PinsAtOnce`).
- **The buzzer.** `AlarmGoes` holds however calls cross: an alarm that was
  called last is about to be started, or it goes on and the flag is down,
  since only a call raises the flag. `OneCall`, as long as none have crossed:
  the one call there is has raised the flag and waits for the tune that plays,
  so nothing plays when it goes on.
- **A single reader.** `CacheTells` and `ReadingTells` say of what is cached and
  of what was told that the tag says it, and `PortTells` that the open port is
  the remembered one.
- **Pairing.** `OneLoop`: a loop that is not the engine's own was not seen to
  end; `FileFits` and `SocketFits` are the other parts of `PairingHolds`.
- **Backups.** While the copies are rotated the newest is whole, unless the
  clock was set back; `Without` keeps the newest.
- **The log.** `OnePlace` says where a line can be, `OneUpload` that what is
  under way is older than what is buffered and younger than what is sent, so
  that appending it to what is sent keeps the order.
- **Load cells.** `Steady`: as many good readings in a row as did not count yet
  have been held back, and no more than two are. `Asked`: a caller that was not
  served yet has its request on the way or in the reader's hands, and is not
  told otherwise.
- **Calibration.** `ResultFits` says that the timer READ starts finds the wizard
  on the page it was started from. The attempt to prove it showed that this
  needs `hurried` to count the timers of SET ZERO too: with eight steps instead
  of five one that was left over takes the wizard back from READ's page, and the
  result is then shown for another known weight.
- **Readers.** `SlotsApart` and `MapApart` keep both the readers and the saved
  map free of doubles; a start gives each reader its slot of the map or one that
  is free, in the order of the ports, which is one-to-one (`InOrderApart`).
- **Tares.** `Served` follows the request of a caller who is alone: it lies
  there (`Asked`), it is in a line that was empty (`Tared`), or it is answered
  (`Told`), and then whatever the driver and the line hold was measured since
  (`SinceTared`). `ZeroInv` says of a scale that is not in `missed` that no tare
  of it is on its way but the one under way, and that what is on its way to the
  driver tells of its last zero, which is also the stored one. `Ahead` says that
  no zero is ever older than the stored one, but for the ones the Arduino takes
  itself: that is what a failed restore leaves.
- **Uploads.** `OnlyArrived`: what is about to be marked, by the sync thread or
  by an acknowledgement under way, is in the cloud.
- **Updates.** `OneUpdate`: one thread at most is past the gate; `FilesKept`:
  the files were tried, unless this thread is between its reset and its success
  or its rollback.
- **Tags.** `Remembers`: what a reader's cache says of a tag is what the tag
  says, but for a tag that is half written there (`HalfOn`) or that another
  reader wrote (`strayed`). `LockHeld` says who holds a reader's lock, which is
  what keeps a scan from reading half a tag. `SureOfWrite` follows a write the
  screen is still sure of: it alone is under way, at the tag that is shown, or
  has told what the tag says.
- **Loading.** `LoadInv` follows a can from the shelf to its credit or its failure: put down
  since the last poll (`NewHolds`), polled and on its way to the screen
  (`SignalHolds`), weighed (`TagHolds`); every other can is credited
  or has failed (`RestHolds`). At each stage the oldest weight noted is the one from before
  the can. That needs a buffer that goes back further than a poll and is not
  full before the result of the last can is gone: `RfidEvery + 2 <= BufferSize`
  and `ReturnAfter + 2 <= BufferSize`. The code's numbers (4, 6 and 8) meet the
  first with one second to spare, the second with nothing.
- **Processes.** `LaunchInv`: a daemon drives the hardware exactly if it is the
  one that listens, which is what makes there be one; a launcher that starts its
  UI without a listener has waited in vain or lost one.
- **Ports.** `ClaimsInv`: the port the weight driver is ready on is the
  Arduino's and is the one skipped from then on (`ArduinoKnown`); the ports
  opened are configured and not skipped (`Opening`); an update that was told a
  port has it to itself (`Flashing`).
- **The Arduino's zeros.** `Fit(v, s)` says which zeros a scale may have: one
  not older than any told of, the first if it gave none, or a mixed one.
  `Marked`: under the mark the cells are fit, but for the one being written;
  `InUse`: so is what is in use; `Saving` follows a save through its cells, and
  `Earned` counts the readings since a zero.
- **The fan.** `FanInv`: the file has the current speed unless a write was
  refused, and the speed is at least the curve's since the temperature was read.
- **The scanner.** `Filled`: while a label is typed undisturbed, the buffer
  holds its beginning, plain or with its first key doubled, and `Forgotten` that
  a pause leaves nothing of what came before. The labels need to begin with SL
  and be as long as the filter asks (`FilterAssumption`).
- **What is scanned.** Until two cans are mixed up, one dialog weighs at most
  (`Lone`), the stock is one move behind the shelf at most (`Stocked`), and so
  is the weight the engine knows (`Based`); which move that is, the dialog
  (`Weighed`) or the alarm (`Alarmed`) says.
- **Paint Now.** `WizardHolds` and `AsTold` say that the amounts stay those of
  the product and surface on the page, through `pending_mix` into the session;
  `RoundBounds` gives the rounding of litres and hardener, for any coverage and
  ratio.
- **Kivy.** A page is that of the state it was built from (`PageFollows`), and
  `PageLags` says how far the engine may have gone on since, for the pages whose
  buttons act in any state; the other buttons ask the engine, which refuses.
  `LateIsTold` and `AmountsHold` are about the late return and the amount.
- **The compositions.** `MCServices` and `MCCabinet` instantiate the proof
  modules, so their theorems hold of the renamed variables. While `focus` names
  a part, each step of the composition is one of its `[Next]_vars`, and while
  it names another the property holds at once; one proof by PTL joins the two.

### What is only model-checked, and why

- Everything under fairness is out of the prover's reach: `RecordsFollow`,
  `QueueMoves`, `ClientFollows`, `AlarmsComeAndGo`, `ServicesProgress`,
  `ManualSessionProceeds`.
- `SlotsTellTheShelf` needs the history of both threads over outages, swaps and
  restarts; its inductive invariant is left to a later stage.
- Every other property of a passing run, invariant or action property, is stated
  by a theorem. Some of the proofs changed what they were about:
  - `PressBelongs` did not hold with three Kivy sessions: the error page has a
    button that starts a session as well (`KivyMixing`). It names that page now.
  - `MixIsAsTold` gave the hardener's rounding for one ratio; the bound that
    holds for each is half a unit of either component.
  - `LoadedOnce` is proved of a model that counts in half seconds, as the screen's
    timer does, where it used to count whole ones; that showed how little the
    buffer has to spare.
  - `ScanFilter`'s filter offered a key in a recursion over receivers, which the
    provers do not unfold. The third offer is always the last one, so it is
    three cases (`Offered`).

## 7. Findings

1. `events_offline`: five cycles without network mark the oldest events as
   synced although nothing was sent (`sync_engine.py:296`, 326), while the
   module calls itself offline-tolerant (9).
2. `mixing_qt`: with RFID working, no session gets past picking the base. The
   event the engine waits for is published only with `active_session`
   (`inventory_engine.py:669`), which `ui_qt/` never sets, and the button that
   would do it by hand is hidden (`ui_qt/screens/mixing.py:1333`).
3. `mixing_spec`: the scale is tared for the hardener and the engine subtracts
   the base once more (`mixing_engine.py:450`), so a right mix is called out of
   specification.
4. `daemon_quiet`: a client that sends no command for 30 seconds is cut off
   (`hw_daemon.py:379`, 396), although the comment speaks of a keepalive; the
   client does not connect again.
5. `update_restart`: under systemd an update ends with `sys.exit` on the sync
   thread (`update_manager.py:250`), which ends that thread only: the cloud is
   told of a complete update, and the old release runs on without syncing.
6. `tag_writing`: leaving the tag writer during a write leaves its button
   disabled for ever (`ui_qt/screens/tag_writer.py:709`), although a timer of
   eight seconds is there to reset it.

## 8. Known deviations

Conditions under which a property of a passing run does **not** hold. The first
list can be reproduced by changing a configuration as said.

- *An outage leaves a slot OCCUPIED* whose can was taken meanwhile
  (`inventory_engine.py:431` empties `_previous_tags`): `inventory_steady` with
  `Env = {"outage"}`, `ViewMatchesShelf`.
- *A can moved to another slot between two polls* is not noticed, since tags
  are compared and not places (417): `Env = {"fast_moves"}`.
- *A reader swap that overlaps a poll* (366, 374): the poll stores its tags
  after the swap has emptied them, and the slots are not filled again:
  `inventory_steady` with `"shelf_map"` in `Screens`.
- *A can taken around a restart* stays in `slot_state`, which the engine never
  reads (246): `inventory_steady` with `Env = {"restart"}`, `RecordsFollow`.
- *A product that leaves the cloud's list for another reason* than an
  administrator's deletion (the comment at `sync_engine.py:489`) loses its
  litres: `VesselStock` with `AdminRemoves = FALSE`, `OnlyAdminDeletes`.

Seen while reading and modelled, or named in a premise, but not stated as a
property:

**Tracker and weight alarm.** The twelve-hour limit is unreachable: the
four-hour step sets IN_USE, and the check asks for REMOVED (726-731); only a
clock that jumps gets there. An alarm may be answered and also logged as
unauthorized, if the scan comes between the check of the flag and the clearing
(943). A detection that began before stock loading is neither dropped nor looked
at during it (771), so its age counts for a change of another origin.

**The slots' LEDs.** The tracker, the weight alarm (`inventory_engine.py:841`,
980), the loading screen (`ui_qt/screens/stock_loading.py:463`, 515) and the
mixing screen (`ui_qt/screens/mixing.py:852`, all of them) set and clear the same
LEDs, and none looks at what another has lit. A removed slot may so go dark,
and nothing is claimed of its LED; `Mixing` has the LEDs of a session.

**Loading and the tracker.** During stock loading `_handle_tag_appeared` does
not look for the slot the can was taken from (`inventory_engine.py:493`), which
goes on naming it (`loadsTwice` of MCTracker).

**Event queue and uploads.** A batch that goes out over the WebSocket and is
refused is neither charged nor answered, and blocks the queue
(`sync_engine.py:310`): the premise of `QueueMoves`. Crashes between a refused
batch and the single events charge innocent events, up to the limit. Sessions
are not tried one by one: a refused one blocks the oldest twenty. Rows that two
threads store the other way round, that failed, or that an earlier process
numbered reach the cloud out of their order (`MayOvertake`); an event the
database refuses is only logged and never sent. INSERT and commit are one step.

**Mixing.** If RFID fails after a step was entered, the step's button stays
hidden (`ui_qt/screens/mixing.py:1004`). The slot to return a can to is never
lit (`mixing_engine.py:398`), and no session is saved when it completes (661):
`ui_qt/` gives the engine neither an inventory nor a database. RESUME on the
home screen opens the first page (`home.py:449`), and START then starts the old
session over; BACK leaves it active; a START from Paint Now replaces the recipes
while the old session goes on with its amounts. A barcode that does not match
unlocks the step too. The result of a
tare, a signal or a retry of a session that was left acts on the next one
(`stale`, the constraint `NotStale`).

**Daemon.** A client that connects after the hardware is ready is not told of
the cans that are already there: `CacheMatches` promises them only to one that
connected before. An answer that arrives after its command timed out may be
taken for the next one's (`socket_client.py:132`): the premise of `OwnAnswer`.

**Stock.** Two threads that change one row, a crash between a merge and the
deletion of the orphan, and two merges at once (`upset`) count litres twice or
not at all. A code that the catalogue never learns is dropped with its litres.
Only the older interface takes what was mixed from the stock (`ui/app.py:562`);
`ui_qt/` gives the engine no database. Barcodes are taken to be linked to
products that the cloud lists (`Linked`).

**Scales.** A late answer of the Arduino may be taken for the next one's, and
an overwritten request makes `tare` report what was done for another
(`doubt`). After a restart a scale keeps the zero the Arduino took itself
whenever the restore fails: no `hx711_ready` (`real_weight.py:282`), a
`set_offset` refused or unanswered (442), a database error (460), all of which
are only logged (`missed`). A restore of both scales always fails: the firmware
demands one offset that is not 0 before it looks for "all"
(`smartlocker_nano.ino:522`), while its header (41) and the driver (442) send
two; the docstring's "EEPROM > DB backup > auto_tare" (400) so holds for one
scale only. `set_calibration` calls `db.set_config`, which does not exist;
`_restore_calibration_from_db` is never called, and the Arduino keeps its
factors in memory only. `LoadCell.Store` is one step; `set_calibration` on the interface's
thread may run inside it (`real_weight_hx711.py:124`), and a reading is then made
with the old offset and the new scale. With load cells a tare that
failed still returns True, the tare at the start replaces the stored offset,
and a failing cell stays "healthy".

**The Arduino.** A scale that gives no reading when there is no mark gets 0
saved as its zero (`smartlocker_nano.ino:304`, `unready`); a reset in the middle
of a cell, under the mark, leaves a mixed zero that is then used (`torn`); `tare`
of both answers ok if one succeeded.

**Ports.** `settings.py:42` says that an empty RFID_READER_MAP detects the
readers "excluding Arduino"; `_skip_ports` holds the name the weight driver uses,
`comports()` gives device names, so an Arduino known by its path is probed
(`OneName`). A configured port that exists is used alone, whatever is plugged in
there. In client mode an update flashes a port that is guessed, while the daemon
has the Arduino open; after flashing the weight driver stays closed until the
next start.

**Processes.** The launcher's mode without a daemon, and one started by hand,
look for no other. A daemon that is told to end breaks its loop off, so
`_shutdown_hardware` may not run. A UI that took drivers without hardware keeps
them when a daemon appears.

**The fan.** A write that was refused is not tried again until the speed changes;
a temperature that cannot be read counts as 0 degrees; after a restart of the
interface the speed is taken for 0 whatever the file has, and after it has ended
nobody controls the fan. The drop of 2 degrees that `HYSTERESIS_C` promises
(`fan_control.py:39`) exists below the lowest threshold only.

**Calibration.** BACK within half a second of READ, or a timer left over from
SET ZERO, stores a scale of one known weight with another's reading (`hurried`). The driver keeps a calibration that
the database refused. The Kivy wizard calls `set_calibration` with four
arguments and `save_admin_config` with two, and saves nothing.

**Lamps.** A `clear_all` that overtakes a pass, commands of two threads that
cross, and commands that are dropped or lost leave a lamp wrong until its next
change (`overtaken`, `crossed`), against the comment at
`real_weight.py:666-674`.

The strip's `clear_slot` during a pass leaves the lamp lit: the pass has still
to come to it and lights it, and afterwards nothing darkens it (`overtaken`).

**The buzzer.** Two calls that cross may leave a tune playing beside the new
one, or an alarm playing after a stop (`crossed`): the second `play` lowers the
flag before the first one's tune has looked at it.

**A single reader.** A tag that is exchanged between its number and its pages
gets the other's data, one lifted there passes for a blank one, and both stay
cached for good; so does what a write has replaced (`spoilt`). The port is
remembered, so that a reader replugged elsewhere is not found.

**Readers and tags.** A swap during a poll may put two tags in a slot; a
reader that is missing when the map is saved loses its place; a failed reader
among healthy ones looks like removed cans; ports that do not answer at the
start are never added. The tag writer maps the tag it scanned last; the late
result of a write that timed out ends the next one; a write through another
reader leaves a stale cache, and a read cut short is cached for ever.

**Scanner, dialogs, loading.** The filter doubles the first character of a
label that does not begin with SL (`barcode_scanner.py:57` looks at characters;
`Normalized` takes it that labels begin with SL); a key typed 150-300 ms before a scan spoils
it. Two dialogs may both credit one can; with RFID down the can of a dialog also
raises the engine's alarm; a confirmation within 500 ms uses an old weight. A
second can placed while the first is weighed is tracked and never loaded
(`stock_loading.py:284`); a missed read credits a can twice; with fewer than two
readings in the buffer the whole shelf is credited. A weight that cannot be read
or is no longer cached counts as 0, and the loading ends in an error
(`stock_loading.py:361`, 389); a credit the database refuses is shown as LOADED (421). Either is
`failed`. An exception from the product's lookup (409) leaves the screen as it
is. With a baseline of 0 from an emptied cache the whole shelf is credited; that
screen is not `ready`.

**Alarms.** `E027` and `E028` are never resolved by the monitor; the end of an
alarm may be told before its beginning; an alarm acknowledged while it is
resolved stays "acknowledged" in the table; `list.remove` of an alarm the other
thread has removed ends the check; active rows survive a restart.

**Pairing.** A pairing of which a saving fails is shown as failed and holds in
memory, without sync (`failed`). The WebSocket keeps the key it was made with
after the cabinet is paired anew, until the next start (`anew`). A sync loop
that was in a call for more than five seconds when it was stopped runs beside
the next one, if that is started in time (`outlived`).

**Backups and log.** A clock that is set back lets the rotation remove the
newest copy, and a copy that failed counts as one of those kept. Lines whose
upload failed are lost (`lost`): the cloud client does not raise what `_flush`
would put them back for. `stop` may upload beside the thread, and the lines
come out of order (`crossed`).

**Updates.** The WebSocket's command calls `check_and_apply`, which does not
exist (`sync_engine.py:814`); the unit file at the repository's root has
`Restart=on-failure`, the comments say `always`; `restart_app` is carried out
before it is acknowledged, so it comes again; a wish that the branch does not
fulfil is tried for ever.

**Paint Now.** Single-component products get hardener by a default ratio;
products are looked up by part of their name; amounts that round to nothing
open the mixing page without a session. In Kivy the pages for returning cans do
not exist, TARE calls a method only the simulated driver has, the fallback
recipe matches no can, and the one-second timer of a simulated return may
complete the next session.

## 9. What is not modelled

- Layout, wording and display of the screens; settings, system health and the
  other screens that only show what other parts hold; the Kivy screens besides
  mixing and Paint Now.
- Bus protocols, retries of single reads and unit conversion in the drivers;
  the patterns' tones and the bar graph.
- Weight snapshots, usage charts and the calculator, and the back-off of
  connections: they do not feed back into the modelled state.
- Scripts other than the fan's, simulated drivers and the console program: they
  share no state with the running program.
- Exceptions inside a handler, for instance the iteration over
  `_removal_times` (717) while the other thread clears it: the worker catches
  them and the next poll goes on.

## 10. The plan

Done, in this order: the core (Inventory with CanCustody, WeightAlarm,
EventSync with EventDelivery, Mixing, DaemonLink); the services (VesselStock,
ScaleDriver, AlarmLifecycle, OtaUpdate, Uploads); the cabinet's parts; the
proofs of section 6; what several owners share (Launch, PortClaims), the Arduino's
program (Firmware) and the fan (FanControl).

Left, the most important first:

1. The liveness properties for every value of the constants; they stay with TLC
   as long as TLAPS has no rule for fairness with ENABLED.
2. `SlotsTellTheShelf` as a theorem.
3. DaemonLink together with Inventory: what an outage, which the daemon tells
   as the removal of every can, does to the tracker.

## 11. How to run it

    tlc -workers 2 -config InventorySteady.cfg MCTracker
    tlc -workers 2 -config MCServices.cfg MCServices
    tlapm Inventory_proofs.tla

The pairs of module and configuration are in `PROJECT.json` under `runs`; the
theorems under `theorems`. Each run takes at most three minutes on two workers.
The proofs of the cabinet take about a quarter of an hour per module, those of
the services three minutes, the others less.
