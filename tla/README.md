# LakeShark in TLA+

LakeShark is a radio receiver on an ESP32-P4: one FreeRTOS program in C that
drives RTL-SDR dongles, HackRFs and on-board radios, and runs one receiver app
at a time (FM, P25, ADS-B, ...) under a text interface. This directory holds
specifications of the parts where tasks, USB events, timeouts and restarts
meet, the TLC runs that check them on small instances, and proofs for every
size of instance.

Paths below are relative to `src/components/lakeshark/` unless they start with
`src/`.

    tlc -workers 2 -config MCRadioEndpoint_pause.cfg MCRadioEndpoint.tla
    tlapm RadioEndpointProofs.tla

## 1. The system

### 1.1 What runs

Every receiver is a *slot* of the endpoint registry. A USB task opens a dongle
and registers a slot with a table of driver callbacks. An app leases a slot
through a session, configures and starts it, and reads blocks of samples. Other
tasks act on the slot meanwhile: the dashboard stops and resumes a receiver it
does not own, a console command or an unplug detaches it, a fault makes someone
recover it, a setup screen changes its front end. Above, the app registry decides
which app may run; it is asked by the interface, by buttons, by the console, and
by apps that fail, and answers from one worker task. A watchdog looks at the
slot four times a second and brings a dongle back that fell silent: in place,
through the app registry, or by taking its power away. What a receiver app hears
goes through a ring to the worker that writes calls to the card. Before any of
this runs, a boot decides whether the radio may be started at all.

    SafeMode           may this boot start the radio?
        |
        v
    AppRegistry        switch, park, unpark, recover, fence  <- interface, console, buttons
        |  enters and stops one app            ^ recover in place
        v                                      |
    apps (fm, p25, adsb, rec, ...)         watchdog --- cycle ---> power or port of the dongle,
        |             |                        | looks             or a restart   (UsbRecovery)
        |             | audio                  |
        |             v                        |
        |         CallArchive -> card          |
        v                                      v
    RadioEndpoint      acquire, configure, start, read, stop, release
        ^
        |  register, unregister
    RtlAdapter         setup task, USB client, console detach
        ^
        |  new device, device gone
    USB host           (ESP-IDF)

### 1.2 Components

*State* is what the component keeps between calls, *hard* is what a test
scarcely reaches, *right* is what makes it correct. The last column says where
it stands here; section 5 has the reasons for what is not modelled.

| component | state | operations | hard | right | here |
|---|---|---|---|---|---|
| endpoint registry, `radio/radio_endpoint.c` | per slot: presence, lease, stream, pause, four counters, a lock for the control path, a counting semaphore, an epoch for receipts | register, unregister, recover, fe; acquire, release; configure, gain, ppm, start, retune, health, stop; pause, resume; read, observe, recheck | detach with readers inside; a wait outside the lock; state read before the control lock and used after it; one `stopping` flag for four users | no callback after detach, no lost wakeup, a lease ends empty, a stopped receiver stays stopped, a receipt is true | `RadioEndpoint`, `EndpointLease`, proofs |
| RTL adapter, `radio/rtlsdr_dev.c`, `radio/usb_host.c` | the published device, setup and cleanup flags, the waiting probe, the removal generation | probe, setup, publish, removed, teardown | unplug, console detach and setup at once; a probe that comes during either | freed once, never under its endpoint, no removal missed, every probe served | `RtlAdapter`, proofs |
| app registry, `core/app_registry.c` | current app, parked, by fault, queue of four, fence token and answer, recovery count across resets | switch, park, unpark, recover, fence up and down, service | callers decide on unlocked flags; coalescing; callbacks that fail; restarts | one owner, an honest parked flag, a fence that holds and is answered, no restart loop | `AppRegistry`, proofs |
| open retry and port cycle, `radio/radio_open_retry.c`, `usb_port_cycle.c` | the app's count of failed opens, the generation it read, the port's power | may try, failed, succeeded; cycle | a dongle that never answers; a port left off; a count that survives a replug | asking stops, a new attach starts it again | `UsbRecovery`, proofs |
| receiver health, `radio/radio_health.c` | per endpoint: state, tries | tick, attached, detached, proof of health | it and the app count the same failures and each may give up first | a sick dongle is acted on or given up, a cured one is opened | `UsbRecovery` |
| SDR power cycle, `src/main/headless_main.c` | one worker slot on one static stack, a budget that survives a restart | try, reclaim, work, refill, absence | three callers at once; a worker that is done and still on its stack; restarts | one worker, a budget that holds | `UsbRecovery`, proofs |
| safe mode, `core/ls_safe_mode.c` | a record in memory that survives a reset | decide, mark healthy, request retry, force | resets of several kinds between any two writes | faulting starts in a row refuse the radio, one good boot clears them, never a loop | `SafeMode`, `StartBudget`, proofs |
| call archive, `audio/call_recorder.c`, `call_store.c`, `call_archive.c` | a ring, the open part file, two mailboxes, playback leases, the list | audio, call end, encrypted; begin, finish, delete, protect, retain, list | the producer does not wait; power cut between sidecar and rename; a call found to be encrypted | a call can always be closed, nothing of an encrypted call remains, a recording is one call, the list is true | `CallArchive`, proofs |
| boot retry, `radio/usb_boot_retry.c` | tries, deadlines | tick | - | - | not modelled |
| P25 control, `apps/p25/grant_follower.c`, `scan_ctrl.c` | who owns tuning, the followed grant, hang timer | grant, voice, terminator, tick | events in any order, timers against late voice | comes back to control, one owner of tuning | not modelled |
| scanner, `core/scan_engine.c`, `scan_journal.c`, `scan_sd_store.c` | channel, hold, priority, journal | step, hold, resume, append, replay | a power cut in an append | a replayed journal is a prefix | not modelled |
| receive plan and coverage, `radio/iq_coverage.c`, `iq_mission.c`, `rx_plan.c` | intervals, gaps, a bounded schedule | add, close, schedule, result | order and saturation | coverage never claims what no known receipt covers | not modelled |
| transmit protection, `radio/tx_policy.c`, `tx_broker.c` | 61 one-second buckets, heat | allow, charge, cool | time that jumps, buckets that wrap | never above 10 s in 60 s | not modelled |
| firmware update, `core/ls_ota_core.c` | - | parse, compare | - | - | not modelled |
| Time Machine, `core/ls_tmach*.c` | stage, ring in PSRAM | push, drain, cut | lock-free stage | a cut is contiguous | not modelled |
| decode stack and reaper, `core/radio_decode_worker.c`, `ls_task_reap.c` | one static stack, its owner | claim, hand over, reap | an owner that will not end | the stack has one owner | not modelled |
| event bus, `core/event_bus.c` | eight subscribers | subscribe, publish | callback that subscribes | - | not modelled |
| HackRF adapter, `radio/hackrf_*.c` | as RTL, with a transfer pool | as RTL | as RTL | as RTL | not modelled |
| librtlsdr and libusb ports, `radio/librtlsdr.c`, `esp_libusb.c` | registers, transfers | driver callbacks | - | - | a callback begins and returns |
| audio output, DSP, decoders | rings, filters, framers | process | numeric | - | not modelled |
| interface, widgets, maps, shells, boards, buses | screens, drivers | render, input, I/O | - | - | what they ask of the backend is modelled there |
| BLE, Flipper, Wi-Fi, C6 update, `src/main/*_core.c` | transport state, back-off | connect, line, chunk | reconnects | back-off is bounded | not modelled |
| SDK, host tools, vendored code | - | - | - | - | not the firmware's own logic |

`PROJECT.json` lists all of them with their files under `components`, and under
`hazards` what is hard to test, at its line, with the properties that would catch
it.

### 1.3 How the modelled parts interact

* Apps and the USB task call the registry and share the slot under
  `s_registry_lock` (short sections) and `slot->control_lock` (held across
  driver callbacks). Driver callbacks are called with no registry lock held.
* The adapter calls `ls_radio_endpoint_register` and `_unregister`; the
  registry calls the adapter's `recover`, `read`, `fe_ctl`, ... with the
  `driver_ctx` it was given, which is the device the adapter frees.
* The app registry calls an app's `on_enter`, `on_stop` and, for a recovery,
  `ls_radio_endpoint_recover`; if that fails it restarts the program. What
  survives is a counter in memory that a reset does not clear.
* The watchdog learns of attach and detach from the registry's events and
  counts the same failed opens as the app, each in a variable of its own. It
  asks the app registry for a recovery in place and `headless_main.c` for a
  cycle, whose worker parks the app, tears the dongle down and, if it does not
  come back, restarts the program.
* A decoder publishes blocks on the recorder's ring and does not wait; the
  interface asks the card's worker through two mailboxes of one entry, and
  plays recordings under a lease that the worker's deletion respects.
* Safe mode shares nothing with the rest but the resets that the rest causes.

## 2. The modules

| module | models | built on |
|---|---|---|
| `EndpointLease` | what the registry promises of one receiver, without its counters and locks: a device is given back only when nobody is inside, a lease ends only when nobody who uses it is | - |
| `RadioEndpoint` | one slot of `radio_endpoint.c`, every call that changes it | `EndpointLease` (refined) |
| `RtlAdapter` | `rtlsdr_dev.c` over `usb_host.c` | `EndpointLease` (used) |
| `AppRegistry` | `app_registry.c` | - |
| `UsbRecovery` | how a dongle is brought back: `radio_open_retry.c`, `radio_health.c`, the cycle of `headless_main.c` | - |
| `CallLibrary` | what the archive promises of the calls it hears: saved once and in order or not at all, removed whole and not under a player, never back again | - |
| `CallArchive` | `call_recorder.c`, `call_store.c`, `call_archive.c` over a card | `CallLibrary` (refined) |
| `StartBudget` | what safe mode promises: so many starts may fault | - |
| `SafeMode` | `ls_safe_mode.c` over resets | `StartBudget` (refined) |
| `RadioEndpointProofs`, `RadioEndpointStreamProofs`, `RadioEndpointRefinement`, `RtlAdapterProofs`, `AppRegistryProofs`, `UsbRecoveryProofs`, `CallArchiveProofs`, `SafeModeProofs` | theorems | the module they name |
| `MCRadioEndpoint`, `MCRtlAdapter`, `MCAppRegistry`, `MCUsbRecovery`, `MCCallArchive`, `MCSafeMode` | who calls what in TLC's runs | the module they name |

`RtlAdapter` does not instantiate `RadioEndpoint` but the lease it is proved to
implement. So the composition of adapter and registry is checked against a
promise that a theorem backs, and is small enough for two dongles, a console
detach and a third device.

Definitions marked "Slip" are not part of a model. Each is the definition below
it with a mistake that a change of the code could make; the property in
brackets is the one that finds the mistake. They are kept with the model as a
test of the properties.

### 2.1 RadioEndpoint

*State.* The fields of `endpoint_slot_t` under their own names (`present`,
`removing`, `leased`, `active`, `closing`, `owner`, `streaming`, `paused`,
`pause_pending`, `stopping`, `in_flight`, `waiters`, `diagnostic_controls`,
`control_io_errors`, ...), `ctl` for the task in `control_lock`, `tokens` for
the semaphore `quiesced`. `pc[t]` is where task `t` is in its call, `op`,
`kind`, `ret`, `who`, `flag` are the call's locals. `running` is the driver's
side of the stream: what `streaming` is meant to mirror.

*Steps.* Each section of the code under `s_registry_lock` is one action. Between
two sections a task waits for the control lock (`TakeControl`), waits in
`wait_quiesced` (`WaitCheck`, `TakeQuiesced`, `Woken`) or is inside a driver
callback (`pc` in `DriverPc`), and every other task may move. A control call is

    ControlEnter -> TakeControl -> Check -> DriverReturn -> Commit -> Count
                 -> Leave -> GiveControl

with the early exits of the code; a release is `Release`, `CancelRelease`, the
control lock, `StopRelease`, `GiveControl`, `LeaveRelease`, the wait,
`EndRelease`, `Return`; a detach is `Unregister`, `CancelUnregister`, the wait,
`EndUnregister`. The dashboard's stop is a snapshot (`Look`) and a pause that
may come much later (`PauseEnter`, `PauseRefuse`).

*Data left out.* Frequencies, rates and gains; a driver callback succeeds, fails
with an I/O error or fails otherwise. A transport's own evidence of a gap in a
receipt may or may not be there (`Receipt`'s second disjunct). The choice among
several slots: slots share nothing but the registry lock.

*Ghosts.* `controlled`, `recovered`, `stopped`, `tuned` remember which tasks'
observed block a control call, a recovery, a release's stop or a front-end call
overlapped. `excuse`
remembers why a stream may outlive its lease: the driver refused the stop, or
the release overlapped a start. `orphan` says that the stream that runs is one
that did, until it is stopped or a start takes the receiver over.

### 2.2 RtlAdapter

*State.* `s_dev`, `s_setup_active`, `s_cleanup_active`, `s_probe_addr`,
`s_probe_generation`, `s_remove_generation`; the bus and the client's event
queue; the device object of each dongle (`none`, `live`, `freed`, `twice`); the
endpoint as `EndpointLease` has it, and `ctx`, its `driver_ctx`.

*Tasks.* The USB client handles one event after another; `console` is whoever
calls `rtlsdr_dev_teardown` (a console command or a port reset); the setup task
opens, registers and publishes. `late` holds a setup that has cleared its flag
and is about to probe for the dongle that waited: between the two another task
may begin.

*Ghosts.* `wanted`: the newest dongle the client was told of and whose probe is
still to be served. `overtaken`: an older probe took its place (3.4). `ignored`: an
unregister was refused and the result not looked at.

*Left out.* Callback bodies, and the wait between the setup's attempts to
register (200 in the code, `Attempts` in the model).

### 2.3 AppRegistry

*State.* `s_current_app`, `s_parked`, `s_parked_by_fault`,
`s_switch_in_flight`, `s_ui_held`, `_token`, `_ack`, `_failed`, the queue, the
recovery count; the worker's place and request; `sending`, what a caller has
decided to send on flags it read without a lock; `running`, the apps entered and
not stopped.

*Steps.* A caller asks (`AskSwitch`, `AskPark`, ..., with the early returns of
the code) and sends (`Send`, which drops the request when the queue is full). The
worker takes a request, coalesces all that follow, and serves the one that won;
the apps' callbacks are places of their own. A stop may say no, which leaves the
app running. `Restart` and `Reset` boot the program again with only the count
left; `Age` ends the first 30 seconds.

*Ghosts.* `faulted`: the park that lasts is a failed recovery's, and no recovery has
succeeded since. `spent` and `looped` remember the restarts. `FaultTold` compares
`faulted` with the flag the interface shows.

*Left out.* The table of apps, the events, and the direct mode without a worker,
which needs the internal heap to be exhausted at boot.

### 2.4 UsbRecovery

*State.* The dongle (`good`; `silent`: it starts and delivers nothing; `stuck`: it
takes a configuration and does not start; `wedged`: it answers no control request;
`out`), the root port, and one variable or two of each party: `fails` and `moved`
of the app's `radio_open_retry_t`, `errors` of the endpoint, `health` and `tries`
of the watchdog, `slot` (`s_sdrpwr_state`) and `count` (`s_sdr_pwr_count`) of the
cycle; where the two callers of `hl_sdr_power_cycle_try` are, and where the worker
is.

*Steps.* The app's loop. An open is two control calls, as in `fm_radio_open`:
`ConfigureFails` or `Configures`, then `StartFails` or `Opens`; each counts an I/O
error on the endpoint or begins that count again, so a dongle that is stuck has its
errors cleared at every open. `OpenRefused` and `Balks` are opens that fail for
another reason: the endpoint is gone; the receiver is in use or there is no memory.
`Note` is the app's own count, `Lose` the end of a stream. Then one `Tick` action for
each branch of the watchdog; a caller's claim of the slot, its reclaim of a finished
worker and the creation of the next one as three actions, since another caller may
come between; the worker of a board with a power switch (`Vbus...`) and of one
without (`Port...`, each outcome of `usb_port_cycle_run`), down to its leaving the
static stack. `Reboot` keeps the budget and the power of the dongle, `PowerOn`
neither.

*Abstractions.* Times: a deadline may have passed or not whenever it is asked,
which allows more than the clock does, with one exception: `TickFresh`, the
watchdog's ten seconds of OK, needs samples, an app that is off or one that
holds, because an app that is between two opens is back within those ten
seconds. The generation of the registry is the boolean `moved`, "since the app
last read it". An endpoint is registered or removed together with the event that
tells the watchdog, and a queued recovery is one step (`Recover`): `RadioEndpoint`
and `AppRegistry` have the steps in between. `Cured` lets a restart or a loss of
power cure a dongle or not.

*Left out.* The ladder over several endpoints, the thresholds, and
`usb_boot_retry`, whose tick ends before any of these parties begins. Control calls
of an app that streams already. A fault that the transport reports: the one place
that calls `radio_health_note_fault` is `rtlsdr_read_sync`, and nothing calls that.

### 2.5 CallArchive

*State.* The recorder's ring and its flags; the card: which names have a `.part`
and a `.wav`, whose audio each holds, whose `.meta` it has, and which have a
`.keep`; the worker: its place in a pass of `service_once`, the open file, what
retention has yet to see; the two mailboxes, the leases, the list; the day, and
whether the clock is set.

*Steps.* The decoder records, hangs up or finds a call encrypted. The worker's
pass is `TakeDeletion`, `TakeProtection`, `Retain` for each recording of an
expired day, `Space`, then `Step` for one block or `Idle`. Every change on the
card may fail: making the directory or the file of a call (`Begin`), its audio
(`Finish`), its `.meta`, the rename, the removal of a `.part`, `.wav`, `.meta` or
`.keep`, and the making of a `.keep` (`Protects`). Where the code looks at the
result the model branches on it; where it does not, the file is there or not
afterwards. Any change may be the last before `PowerCut`, which leaves nothing but
the card.

*Left out.* Sound and file formats; a name is the day and a number (the time of
day and the talkgroup only make names differ); paging of the list; the other
recorders, which share only the worker's turn; removing the directory of an
expired day. `Idle` reads the whole card: a scan that finds no memory or no
directory, and one that stops at the newest recordings because there are more than
the list holds, are not in it, so `ListTrue` is about cards the list can hold and
scans that succeed.

*Ghosts.* `revoked`: the calls that were found to be encrypted while they were
recorded. `guarded`: those the space guard had closed. `kept`: the recordings
whose last request taken was to keep them. `unmarked`: those of whose last request
served the marker could not be made.

`CallLibrary` says the same in four variables: how many calls have begun, which are
pending, saved and played. A call is pending from the block that begins it until its
file is renamed or dropped; it is saved while a `.wav` holds its audio. The ring, the
part file, the `.meta` and the retention are the archive's own business.

### 2.6 SafeMode and StartBudget

*State.* The record `ls_safe_state_t` and whether its checksum holds; what the
boot decided; the class of the last reset; the healthy timer.

*Steps.* `Decide` is the whole of `ls_safe_decide`; then the timer, the three
commands of the console, and `Reset`, of any class, which may lose the record.
After `RetryNormal` the board runs on until the reset comes, with the timer set:
`safemode normal` typed in a normal boot may be overtaken by it.

*Left out.* The display's latch in the same file, which only the host tests
call, and the words of the report.

`StartBudget` says the same in five variables: a number of lives that a faulting
start takes from, a proof of health that restores them, a hold. `SafeMode`
implements it: `lives` is the limit less the faults counted, and one less again
while a fault is waiting to be counted by the next boot.

## 3. The runs

| run | instance | distinct states | question |
|---|---|---|---|
| `endpoint_pause` | rx, ui, the dashboard, the USB task | 948,394 | Counters exact, no wakeup lost, no callback after detach; does a dashboard stop hold, and reach only the owner it named, against starts, recoveries, front-end calls and replugs? |
| `endpoint_receipt` | rx, ui, the dashboard, with recoveries | 1,280,059 | Is a receipt ever stamped or confirmed for a block a control call overlapped; is a stream left behind, and is any other called upon as if at rest? |
| `endpoint_live` | rx, another app, the USB task, fair | 42,633 | With recovery, front-end calls and reads beside leases and detaches: does the slot implement `EndpointLease`, and do detaches and releases end? |
| `usb_lifecycle` | two dongles, one detach, one other device, one app task, fair | 229,732 | Freed once, never under its endpoint, no removal missed, the newest probe always in somebody's hands and served in the end. |
| `usb_dangling` | the same | violation | Is the device never freed under its endpoint? |
| `apps_requests` | two apps, the screen with two fences and a console that asks for everything else, a queue of one, fair | 518,364 | One owner, honest flags, a fault that is shown while it lasts and no longer, no restart loop; does a fence hold, and is it answered? |
| `archive_calls` | two calls, a ring of three, one power cut, one request | 2,814,471 | Can every call be closed, is a recording one call, is an encrypted one gone, is the list true; does the archive implement `CallLibrary`? |
| `archive_keep` | one call, two requests, one player, one midnight, one power cut, fair | 566,940 | Does a played recording stay, a kept one outlive retention while its marker is there; are requests served and files closed? |
| `safe_starts` | the real limit of three faults, no bound | 564 | Does the record keep `StartBudget`, and is a failed retry reported? |
| `recovery_cycle` | one dongle, app, watchdog, console, both kinds of board, restarts, fair | 382,113 | One worker, a budget that holds; is a dongle that answers nothing or delivers nothing acted on, and one that is cured opened? |
| `recovery_stack` | the same | violation | Is the static stack free when the next worker is created? |
| `recovery_starved` | the same | violation | Has an app that holds off shown the watchdog enough? |

Every property of a passing run has a Slip that breaks it in that run.

### 3.1 Properties worth a word

* `NoLostWakeup`: `in_flight = 0 => tokens >= Cardinality(Blocked)`. The
  semaphore counts to four and is never reset, so tokens go stale; the property
  says that however many there are, they are enough. `Accounting` and
  `DriverAlive` say that they are not taken for more than a hint.
* `PausedMeansStopped` and `PauseHitsNamedOwner`: the pause checks the owner
  before it waits for the control lock. It reaches the right owner because it
  is counted `in_flight` from the check on, and a lease does not end while it
  is.
* `NoOrphanStream`: holds with the two excuses the code really leaves. The
  `excuse` for a start is not cosmetic: a release reads `streaming` before it
  waits for the lock, a start that is inside commits after that, and the lease
  ends with the receiver running.
* `IdleOnlyCalls` names the one stream that a call for a receiver at rest can meet:
  the `orphan` that such a release left. While a lease lasts, and whatever stops,
  starts, retunes and releases overlap in it, what the check under the control lock
  reads is true of the driver; `AtRestAlways`, without the exception, does not hold
  (3.4). `PausedMeansStopped` has the same exception: a dashboard stop does not stop
  a stream the registry does not know of.
* `ReceiptTruth`, `RecheckTruth`: a receipt joins two samples of state under
  separate lock sections; the epoch catches a call that begins and ends between
  them. They are about control calls, and hold also while a recovery that came late
  runs beside the stream; what such a recovery does to a block is another matter (3.4).
* `ProbeKept`: the probe of the newest dongle is with the client, waiting in
  `s_probe_addr` for an owner that drains, or with the setup, at every step and not
  only in the end. It rests on the order of the bus: a newer dongle has a later
  event. `overtaken` is the exception the code really has (3.4).
* `ImplementsLibrary`: most steps of the archive are stutters of the library. What it
  adds to `CallsApart` and `OpenIsClosed` is memory: no cut, deletion or reuse of a
  name brings back a call that was dropped, and calls are saved in the order in which
  they began.
* `FenceAnswered`: a fence that was sent is acknowledged or refused. It rests on
  `Wins`: anything else coalesces away except a fence.
* `FenceHolds`: after an acknowledgement nothing runs, whatever was queued
  before it.
* `LoopBroken`: with the count in memory that survives a reset, the first
  failure after a recovery restart does not restart again.
* `NotDangling` carries the condition that no unregister was refused, and
  `usb_dangling` shows that without it the property fails (see 3.4).
* `EndFits`, `OpenIsClosed`, `CallSettles`: `room()` sets the last slot of the
  ring aside for the block that closes a call. `EndFits` is that slot, and the
  other two are what it is for: no call finds the file of the last one open, and
  no file stays open.
* `CallsApart` and `RevokedGone` are about what is on the card after any cut:
  the file of a name holds one call, with that call's `.meta`, also when a name
  is used again; an encrypted call is not among them unless the space guard had
  closed it before it was known to be encrypted. The exception is the code's.
* `KeepRace` states how far a request to keep can be trusted: retention deletes
  the recording only while that very request is in the mailbox, or when the worker
  emptied the mailbox and then could not make the marker. A marker that was made
  holds through every failure and cut. The manual states more (3.4).
* `RetryReported` and `ImplementsBudget`: a fault is counted by the boot after
  it, so a boot has to tell a fault of the retried start from an older one
  through any number of clean resets and lost records between.
* `FaultTold` is about the flag in both directions while an app is parked: it is
  shown when this park is a failed recovery's, and not when the park is the user's or
  a recovery has succeeded since.
* `SickIsActedOn`: the app stops asking after `RADIO_OPEN_IO_ATTEMPTS` failures
  and the watchdog acts after `RADIO_HEALTH_CONTROL_IO_FAULTS`; an app that stops
  first leaves a sick dongle to nobody. The property is about a dongle that is
  wedged or silent. A stuck one is not acted on (`recovery_starved`), nor need one be
  of which the app has counted failures that the watchdog has lost: `OwnFailures` is
  the condition, and `HoldIsSeen` (4.6) shows the two ways in which it ends.
* `CuredIsOpened` is the reverse: a dongle that
  comes back is opened although the app had stopped asking, because the hold ends
  when the generation moves from what it was *before* the last attempt. A recovery in
  place moves no generation, so a dongle that it cures while the app holds off for
  failures the watchdog has not seen (`Unseen`) stays unopened; this is left out.
* `BudgetKept`: `count` is lost to a loss of power and cleared by proof of health
  only; `spent` is the ghost that knows how many automatic cycles there really
  were since samples moved.

### 3.2 Bounds, and why they are enough

* Tasks. A slot has three roles for a caller inside: one that holds the control
  lock, one that waits for it, one in a read; and two that wait for the others
  to leave (release and detach). Three or four tasks with the calls that
  matter to the question fill them. Each run gives the tasks only those calls,
  because every further call multiplies the states without a new conflict; the
  runs together make every action happen.
* `Kinds = {1}`. A slot that reads packets differs in which calls it takes; the
  lease, the counters and the waits are the same code. The proofs cover both.
* `MaxWaiters = 4` is the code's `LS_RADIO_MAX_WAITERS`. `MaxIo = 1` bounds the
  run of failed control calls; nothing in the slot but a health report reads the
  number.
* `MaxPlugs = 2`, `MaxDetach = 1`, `MaxOther = 1`: the second dongle comes while
  the first is being set up or removed, which is what the waiting probe and the
  generation are for. One dongle can overtake another only where there are
  four, so `ProbeKept` and `ProbeServed` were also checked with four (two million
  states without fairness, 400,000 with), and the proofs have no bound. `Attempts = 2` has a first try, a second and the
  end. The bound on plugs ends the system, so that run does not look for
  deadlock.
* `QueueSize = 1` where the code has four: the worker coalesces the request it
  serves with those it finds in the queue, one after another, and dropping needs
  the queue full. With two callers about to send, four requests are under way at a
  time. `NumApps = 2` and `MaxToken = 2`, two fences against everything else. The
  proofs have none of these bounds.
* `Capacity = 3` is the shortest ring `room()` can set a slot aside in: begin,
  one block, end. `MaxCall = 2` lets a call begin while the last is being
  finished, and a name be used again; `MaxCuts = 1` cuts the power anywhere once,
  after which everything but the card is as at first. `archive_keep` has one call
  and two requests, since its questions are about one recording, and `MaxDay = 1`
  with `KeepDays = 1`, so that it expires. `MaxAsks` bounds the requests of a
  person at a screen. No bound stops the worker.
* `Limit = 3` is the code's `LS_SAFE_FAULT_LIMIT`; nothing else in `SafeMode`
  needs a bound.
* `Attempts = Faults = 2`, `MaxTries = MaxCycles = 1` in `UsbRecovery`. The code
  has `RADIO_OPEN_IO_ATTEMPTS` = 5, `RADIO_HEALTH_CONTROL_IO_FAULTS` = 3,
  `RH_RECOVER_TRIES` = 4 and `SDR_PWR_MAX` = 2. The `_Static_assert` of
  `radio_open_retry.c` asks only for as many attempts as faults; equal numbers
  are the tightest case it allows, and two is the least that is "more than one".
  One try in place, then one cycle of the budget, then a refusal, is every
  branch of the ladder; the proofs have no bound. `recovery_stack` and
  `recovery_starved` look for one state and not for deadlock.

### 3.3 Fairness, and why the code justifies it

* `RadioEndpoint`: weak fairness of each task that is inside a call (FreeRTOS
  schedules it and a driver callback returns: `cancel_read` must make a blocked
  read return, the rest are USB transfers with timeouts); strong fairness of
  taking the control lock (FreeRTOS hands a mutex to its waiters in turn). Nobody
  is made to begin a call. `ReleaseEnds` excepts an endless run of front-end
  calls: they need no lease and nothing refuses them while a lease closes.
* `RtlAdapter`: weak fairness of the three tasks and of the driver's returns.
* `AppRegistry`: weak fairness of the worker and of a caller that is about to
  send. Strong fairness of serving, and of emptying the queue: without them a
  caller could add requests as fast as the worker coalesces them. A round of the
  worker's loop takes microseconds and requests come from key presses.
* `CallArchive`: weak fairness of the worker, which never waits longer than its
  poll. Neither the decoder nor the interface has to do anything, and a step on
  the card may fail every time.
* `UsbRecovery`: weak fairness of each party: the USB host's setup, the app's
  loop, the registry's worker, `settings_task` with its ticks and calls, the
  console inside a call, the cycle's worker. Strong fairness of an app's two control
  calls where they can succeed or fail with an I/O error: an app that calls again and
  again does not find the receiver in use or the memory short each time (`Balks`).
  Noise (plugging, getting worse, power, a new request) has none, and `Absent`,
  `Found` and `Refill` are not needed for progress.

### 3.4 Where code and documentation disagree

Three have a run.

1. `usb_dangling`. `rtl_unregister_endpoint` ignores the result of an unregister
   that the registry refuses during a recovery; the device is freed under it.
   The comments at `radio_endpoint.c:504` and `rtlsdr_dev.c:541` say a detach
   waits for every operation.
2. `recovery_stack`. On a board with a power switch the worker stores
   `SDRPWR_IDLE` (`src/main/headless_main.c:1197`) and deletes itself on the next
   line; until it is gone a second caller may create a task on the same static
   stack. The comment at line 1272 calls this the worst thing the function could
   do, and the worker of the other boards was changed for it (lines 1149-1155).
3. `recovery_starved`. `radio_open_retry.c:27-30`: "every failed open adds at least
   one control io error on the endpoint, and the watchdog wants
   RADIO_HEALTH_CONTROL_IO_FAULTS of them in a row before it resets anything". An open
   is a configure and a start (`apps/fm/app_fm.c:659-661`). A configure that succeeds
   sets the endpoint's count to zero (`radio_endpoint.c:308-312`), so with a dongle
   that is configured and then does not start (`rtlsdr_dev.c:310-316`) the count never
   passes one, the app holds off after its attempts, nothing streams, and nobody acts
   until something is plugged. `HeldIsSeen` is also broken by a replug between two
   attempts: the app's count survives one it did not see, the endpoint's starts anew.

Seven more are stated as definitions, at the end of `RadioEndpoint`, `RtlAdapter` and
`CallArchive`; each is found violated at once when it is put in the place of the
invariants, or properties, of the configuration named.

4. `RecoverIdle` (`MCRadioEndpoint_pause.cfg`). `radio_endpoint.h:197` says of
   recover "It is only called while the endpoint is idle".
   `ls_radio_endpoint_recover` looks at the lease, then waits for the control
   lock; `ls_radio_acquire` does not look at `removing`, so an app may lease,
   configure and start before the reset runs.
5. `ReceiptSeesFrontEnd` (`MCRadioEndpoint_receipt.cfg`, with
   `Calls <- FrontEndCalls`). `radio_endpoint.h:253` says attempted controls
   change a receipt's context. Front-end calls set the tuner and change neither
   the control count nor the epoch (`radio_endpoint.c:679-719`).
6. `ReceiptSeesRelease` (`MCRadioEndpoint_receipt.cfg`). The same comment: "A
   control in flight or token exhaustion makes the context unknown". A release
   sets `stopping`, but a concurrent stop or pause that finishes clears the
   shared flag before the release sends its own stop; a block read in between is
   vouched for although the stop overlaps it.
7. `ReceiptSeesRecovery` (`MCRadioEndpoint_receipt.cfg`). The consequence of 4: the
   reset overlaps a block whose receipt is stamped known, since a recovery
   is not counted as a control and moves the epoch only when it begins.
8. `LatestKept` (`MCRtlAdapter_usb.cfg`, with `App <- {}` and `MaxPlugs = 4`).
   `rtlsdr_dev.c:41`: "Keep at most the latest replacement probe while the old owner
   drains". `finish_lifecycle` copies the address under the lock and probes after it.
   A setup or a removal that is held up between the two probes late, finds the
   adapter busy and puts its older address over a newer one that waits. The newer
   dongle is then not probed again until it is plugged in anew: the probe that took
   its place fails to open a device that is gone.
9. `KeepHolds` (`MCCallArchive_keep.cfg`). `src/docs/TDP4_UPDATES_AND_CALLS.md:41`:
   "KEEP marks a call so age cleanup leaves it". A request that arrives after the
   worker has looked at its mailbox and before retention in the same pass comes
   too late (`call_archive.c:350`, `362`). And a marker that the card refuses
   (`call_store.c:198`) is only counted as an error, after the mailbox was emptied:
   retention then knows nothing of the request. `KeepRace` is what does hold.
10. `AtRestAlways` (`MCRadioEndpoint_receipt.cfg`). `radio_endpoint.h:325-329` says
   "Not while streaming" of the reference correction, which the registry sees to with
   its flag. A release whose stop the driver refuses, or that overlaps a start,
   leaves a stream the flag does not show, and the configure, start or correction
   of the next lease reaches a driver that streams. `IdleOnlyCalls` is what does
   hold.

Two things that no document denies, met on the way. A power cycle that works parks the app, and it stays
parked until a receiver is asked for again (only the headless loop unparks it,
when what is wanted changes). The watchdog measures a stall from the last progress, also when the
stream has only just begun to be expected: `note_progress_reset` has no caller.

## 4. The proofs

`tlapm` 1.4.5 with Z3, Zenon and LS4 proves every leaf for every value of the
constants. Assumed are the named `ASSUME`s of the modules, which TLC evaluates
in the runs: a finite set of tasks without `NoTask`, owners without `NoOwner`,
room for two waiters (`RadioEndpoint`); three different tasks and natural
bounds (`RtlAdapter`); an app, a queue of at least one and
`RECOVER_LOOP_MAX >= 2` (`AppRegistry`); a ring of at least three blocks
(`CallArchive`); a limit of at least one (`SafeMode`); at least as many attempts
as faults (`UsbRecovery`: the `_Static_assert` of the code). One theorem,
`NoRestartLoop`, has an assumption of its own: `RECOVER_LOOP_MAX = 2`, the code's
value. Every type invariant is proved, and with it checked by TLC only where a run has
no better use for it.

### 4.1 RadioEndpointProofs (any tasks, apps and calls)

`IInv == TypeOK /\ Accounting /\ FlagsAgree /\ Roles /\ OneOfEach /\ Quiet`.
`DriverAlive` alone is not inductive: that the last section of a detach may clear
`driver_ctx` follows from what the wait saw, and that must still be true when
the section runs.

* `Accounting` turns `in_flight = 0` into "nobody is inside".
* `FlagsAgree`: `leased = active`, a closing session is leased, `driver_ctx`
  is there while the slot is present or being removed.
* `Roles` ties a place to the flags: who is detaching sees `~present /\
  removing`, who is releasing sees `closing`.
* `OneOfEach`: one detach, one release, one recovery at a time.
* `Quiet`: what the wait established still holds where it is relied upon,
  because with `present` false or `closing` true nobody enters.

From it: `TypeCorrect` (with it, that the counters do not go below zero, so the
floors in the code never hide a miscount), `CountersExact`,
`DriverOutlivesCalls`. `WakeupsKept` needs a second invariant on top: how many
tasks wait at once (two, the release and the detach, by `OneOfEach`), so that
`MaxWaiters >= 2` never cuts off a token.

### 4.2 RadioEndpointStreamProofs (who may run the receiver)

`SInv` lies on top of `IInv`. The stream is in two places, `streaming` in the
slot and `running` in the driver, which are written at different times; `Excused`
says that they agree or that the stream is an `orphan`, and `OrphanKept` that an
orphan has its `excuse`.

* `LockKept`: who is past the wait for the control lock holds it, so that a call
  between its check and its commit is alone there.
* `PauseKept`: from entry to commit a pause is the only one, `paused` is what it
  asked for, and the owner it named owns the lease. The last holds because a
  lease ends only when nobody is counted inside and begins only when the slot is
  not paused.
* `Streams`: what runs and is no orphan runs under a lease, and `streaming` says so or
  a start is about to. `Released` is what makes this survive the end of a lease:
  a release that sends no stop has found nothing to stop, or a start in flight.
* `StopDone`, `IdleKept`, `PausedStill` carry a check or the driver's answer to
  the place where it is used.
* `StopCaused`: `stopping` has somebody who will clear it.

From it: `PauseReachesNamedOwner`, `PausedStaysStopped`, `ReleaseLeavesNoStream`,
`IdleCallsMeetNoStream`, `StoppingIsTakenBack`. `ReceiptsAreTrue` and
`RechecksAreTrue` rest on `Vouched`: a block of the current epoch, clean at its
sample, has met no control call and none is under way. They hold for every set of
calls, recoveries among them.

`NoWaitIsForAWaiter` (`WaitsEnd`) is what can be said of deadlock without liveness: a
task that cannot take the control lock waits for a holder that can go on, and one that
waits for quiet waits for a call inside that can go on, or that waits for such a holder.
So the chain of waits, through a mutex, a semaphore and a count, has at most two links
and never closes. It rests on `HolderKept` (the lock has a holder that is under it, and
nobody waits for quiet under the lock), `Accounting` and `NoLostWakeup`.

### 4.3 RadioEndpointRefinement

`SlotImplementsLease == Spec => ImplementsLease`, by the mapping at the end of
`RadioEndpoint`: `present` and `removing` give the phase, `leased` and `closing`
the lease, the places of the tasks who is inside. Each action is a step of
`EndpointLease` or leaves it alone; the invariant supplies the guards of
`EndDetach` and `EndClose`.

### 4.4 RtlAdapterProofs (any number of dongles, detaches and other devices)

`Full == Flags /\ Values /\ Roles /\ Owned /\ (~ignored => Endpoint) /\ Fresh`;
`Flags` and `Values` are types.

* `Roles`: `s_setup_active` is set exactly while the setup task is at work, and
  nothing is published meanwhile.
* `Owned`: a device that is alive is published or in the hands of one task.
* `Endpoint` says who answers for the endpoint: the published device, the setup
  that has registered and is about to publish, or the task that is taking it
  down. It holds as long as no unregister was refused.
* `Fresh`: the published device is on the bus, or the news of its removal is
  still in the queue.
* `Counts` is the rest of the types, and that a setup about to register has an
  attempt left. `TypeCorrect` is `TypeOK`.

`NoDoubleFree`, `DeviceOutlivesEndpoint` (`NotDangling`, with its condition) and
`NoRemovalMissed` follow from `Owned`, `Endpoint` and `Fresh`.

`NoProbeLost` (`ProbeKept`) needs a second invariant, `Kept`, about the past as the bus
tells it. `Order`: events that wait are in the order in which the dongles came, the
removal of one is told before the arrival of the next, and every dongle that a task, the
waiting probe or a late probe has met is older than any that is still to be told of.
`Unserved`: while a dongle is wanted nothing is published, and its own setup has
attempts left or has registered. Without `Order` the removal of an older dongle, still
in the queue, could take away the stamp of the newest probe, or a probe of a dongle to
come could be at work already. `NoneInTheWay` is the part of `Unserved`
that a probe needs: it never meets a published device and gives up.

### 4.5 AppRegistryProofs (any number of apps, callers and fences, any queue)

`IInv == TypeOK /\ Places /\ Tokens /\ FenceKept /\ FaultTold /\ FaultParked /\ LoopCounted`.

* `Places` says what runs at each place of the worker; `OneOwner` and
  `IdleAgrees` are corollaries.
* `Tokens`: no request carries a token that was not given out. Without it a
  stale request could acknowledge a fence of the future.
* `FenceKept`: the fence that is up and acknowledged finds the registry parked
  and the worker at rest. It is inductive because `Serves` looks at `held` when
  a request is served, not only when it is sent.
* `FaultTold` holds in both directions only because a fault never outlasts its
  park (`FaultParked`): whatever ends a park ends the fault too.
* `LoopCounted`: after a recovery restart the count is at least one until a
  recovery fails.

Theorems: `TypeCorrect`, `NoTwoOwners`, `TruthWhenIdle`,
`AcknowledgedFenceHolds`, `FaultIsReal`, and `NoRestartLoop` for
`RECOVER_LOOP_MAX = 2`, the code's value; with three the first failure may
restart once more, by design.

`NoFenceIsLost` (`FenceInHand`) and `AnswersStand` (`AnswerStands`) are the safety of
what `FenceAnswered` says in time: until a fence is answered it is queued or with the
worker, and its answer is final. Both rest on `FencesInv`, which adds to `IInv` that
tokens grow along the way from the screen through the queue to the worker
(`FenceOrder`) and that behind the answer to the newest no fence is left
(`NoneAfter`). Coalescing keeps both because the last request of those it joins wins.

### 4.6 UsbRecoveryProofs (any thresholds, tries and budget)

* `SlotKept`: `slot` says where the worker is, on a board without a power switch.
  `StackHasOneWorker` follows from it. On the other boards it is false, which
  is `recovery_stack`.
* `BudgetInv`: what was spent is never more than `count` knows, and while
  `settings_task` is inside a request it has decided to make, `count` is still
  below the budget. `BudgetHolds` follows.
* `Types`, from which `TypeCorrect`.
* `HoldIsSeen` (`CountsTogether`) is what the `_Static_assert` of
  `radio_open_retry.c` is for, and the one theorem that needs it. The app's count and
  the watchdog's are two variables; as long as the watchdog has every failure that the
  app has counted (`OwnFailures`), an app that holds off has shown it enough. They
  come apart only in a step that takes the endpoint away while the app is counting,
  or in a configure that succeeds after an open that failed (`Apart`): the two ways
  of 3.4, and the theorem says that there is no third. Beside
  the types it needs that an endpoint that is not registered has no errors
  (`Registered`). TLC agrees with `Attempts` one above `Faults` too.

### 4.7 CallArchiveProofs (any ring, any number of calls, days, cuts and requests)

* `RingInv`: while a call is on, the ring has a free slot, since `room()` has set
  it aside; and the block that ends a call stays at the head of the ring while its
  file is being finished, so that nothing overtakes it. `EndAlwaysFits` follows.
* `KeepInv`: what was last asked to be kept is on the card and has its marker, or its
  request is in the mailbox, or its marker could not be made.
  `KeepIsLostWithoutItsMarker` is `KeepRace`.
* `PlayerKeepsFile`: the lease is taken and the file deleted under the same lock,
  so the invariant is inductive as it stands.
* `TypeInv`: the types, and that an open file is some call's. `TypeCorrect` needs
  the other invariants, since the ring's length is bounded only by `room()`.
* `CallInv`: calls are numbered as they begin; behind the block that begins a call
  come only its audio and the block that closes it, unless it is the one being
  recorded (`Follows`); an open file's call continues at the head of the ring and
  is earlier than every call that is still to begin and later than every
  recording's; a call whose closing block says it ended well is never revoked
  afterwards (`Settled`). It is stated of a ring given as a parameter, so that the
  two or three blocks one call of the recorder publishes are taken one at a time
  (`Advance`), and by position, so that nothing is induced over the ring.
* `FileInv`: the open file's name is no recording's, it holds its own call's audio,
  and its `.meta` is right before it is renamed; while recording is paused no file
  is open but one that is being finished. `CallsApart` is part of it.
* `ListInv`: whatever takes a recording away has the list read again, and retention
  has names left to see only in a pass that has asked for that.
* `NoCallIsGivenUp`, `OneCallInAFile`, `EncryptedIsRemoved` and `ListIsTrue` follow.
* `ArchiveImplementsLibrary` is the refinement. The invariant supplies the guards: the
  block that begins a call at the head of the ring is the oldest of those that wait
  (`WaitingShrinks`, from `CallInv`), an open file's call is older than all of them
  (`OpenIsOldest`), a file that is removed is not played (`PlayedStays`), and the name
  that is renamed to is no recording's. There is one lemma for each action; what the
  archive does between, from an unlinked `.meta` to a list that is read again, is a
  stutter. `GoneIsGone` says of the archive what only the library makes easy to see: a
  call that was dropped, lost or removed is never a recording again.

### 4.8 SafeModeProofs (any limit)

The invariant relates the record, what the boot decided and the class of the last
reset: a faulting reset of a start that had not proved itself is counted by the
boot that follows it, once. `RetrySaysSo` and the refinement `KeepsBudget`
(`Spec => ImplementsBudget`) follow; in the refinement the boot that counts a
fault is a stutter, as the fault itself was the step.

### 4.9 Only model-checked

Every invariant and action property that a passing run checks is proved, and so are
the three refinements. Every liveness property is only model-checked: `DetachEnds`,
`ReleaseEnds`, `ProbeServed`, `FenceAnswered`, `Served`, `CallSettles`,
`SickIsActedOn`, `CuredIsOpened`. Liveness under fairness is beyond the prover,
and so are `ENABLED`, induction over data (the library's induction theorems take
operators as parameters) and `RECURSIVE` operators, of which there are none
here. For five of the eight a theorem gives the safety they stand on, that what is
waited for is never lost: `NoWaitIsForAWaiter` for detaches and releases, `NoProbeLost`
for probes, `NoFenceIsLost` for fences, `HoldIsSeen` for a sick dongle.

The other way round, `WaitsEnd`, `FenceInHand`, `AnswerStands`, `CountsTogether`
and what `NoneInTheWay` and `GoneIsGone` state are proved and in no configuration; each
was found true by TLC on the instances of section 3 before it was proved.

## 5. Not modelled

What has a protocol between tasks and is left out:

* *P25 control.* What sends the follower back to the control channel is hang and
  dwell times compared with a clock, against signal quality and voice energy. In
  a model without a clock each becomes a free choice, and what is left (`scan_ctrl`
  serialises two users under one lock) holds by construction.
* *HackRF adapter.* The same claim, publish and teardown protocol as the RTL
  adapter, with a second transfer pool.
* *Decode stack and reaper, Time Machine's stage.* The first waits for a state of
  the FreeRTOS kernel, the second for the memory order of two cores; actions that
  are atomic show neither.
* *Boot retry.* `usb_boot_retry` runs before the app, the watchdog and the cycle
  exist, so nothing interleaves with it; what it computes is deadlines.
* *Scanner's journal.* What an append leaves after a power cut is up to the order
  in which the file system writes, and that is not in this repository.
* *Firmware update.* Whether an image is kept is decided by the bootloader.
* *Direct mode of the app registry*, with every caller switching in its own task.
  It is entered only when the worker cannot be created at boot.
* *Subscribers of the endpoint registry and the event bus.* Tables of callbacks,
  called one after another outside or under one lock; no modelled state depends on
  their order.

What has none: transmit protection, coverage, mission and plan, Wi-Fi and
Bluetooth back-off are arithmetic over a clock or over intervals in one task, and
the host tests under `src/bench/tests` run their edges; decoders, DSP and audio are
numeric code that is compared with recordings; text interface, shells and boards
are rendering and register access; the drivers below the endpoint are derived from
librtlsdr and libusb, and a model of the slot needs of them only that a callback
begins, may fail and returns. `src/managed_components`, the SDK templates and the
host tools, most of the repository by size, are not the firmware's own logic.

The parts that are modelled are modelled in part; section 2 names under *Left out*
what each module does not have.
