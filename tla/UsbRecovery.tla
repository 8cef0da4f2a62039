------------------------------ MODULE UsbRecovery ------------------------------
(***************************************************************************)
(* How an RTL dongle that stops answering is brought back.  Four parties,  *)
(* each with a policy of its own: the receiver app that opens the dongle   *)
(* again and again until it holds off (radio_open_retry.c, app_fm.c), the  *)
(* health watchdog that counts what fails and escalates (radio_health.c),  *)
(* the automatic budget of cycles that survives a restart, and the one     *)
(* worker, on a static stack, that cycles the port or the dongle's power   *)
(* (src/main/headless_main.c).                                             *)
(*                                                                         *)
(* Times are left out: a deadline may have passed or not when it is asked. *)
(* An endpoint is registered or removed together with the event that tells *)
(* the watchdog; RadioEndpoint has the steps in between.  Control calls of *)
(* an app that streams already (gain, retune) are left out, and so is a    *)
(* fault that the transport reports: the one call that leads to            *)
(* radio_health_note_fault is rtlsdr_read_sync, which nothing calls.       *)
(***************************************************************************)
EXTENDS Integers

CONSTANTS
    Attempts,   \* RADIO_OPEN_IO_ATTEMPTS
    Faults,     \* RADIO_HEALTH_CONTROL_IO_FAULTS
    MaxTries,   \* RH_RECOVER_TRIES
    MaxCycles   \* SDR_PWR_MAX

ASSUME LimitsAssumption ==
    /\ Attempts \in Nat /\ Faults \in Nat \ {0}
    /\ MaxTries \in Nat /\ MaxCycles \in Nat
    /\ Attempts >= Faults   \* the _Static_assert of radio_open_retry.c

VARIABLES
    vbus,      \* this board can switch the dongle's power
    dongle,    \* what is plugged in, and how well it is
    bus,       \* the root port: off, empty, a device just enumerated, or seen
    present,   \* the endpoint is registered
    moved,     \* the registry's generation has moved since the app read it
    app,       \* the receiver app
    fails,     \* io_failures; Attempts of them are the hold
    errors,    \* control_io_errors, up to Faults
    health,    \* the watchdog's state of the endpoint
    tries,     \* recover_tries
    asked,     \* a recovery in place is queued at the application registry
    at,        \* where the two callers of hl_sdr_power_cycle_try are
    why,       \* what settings_task calls it for
    told,      \* absent_told
    slot,      \* s_sdrpwr_state
    worker,    \* the task on s_sdrpwr_stack
    count,     \* s_sdr_pwr_count, in memory a restart does not clear
    spent      \* ghost: automatic cycles since samples last moved

callers == <<at, why, told>>
work == <<slot, worker>>
budget == <<count, spent>>
looks == <<app, fails>>
watch == <<health, tries, asked>>
usb == <<dongle, bus, present, moved, errors>>
vars == <<vbus, usb, looks, watch, callers, work, budget>>

Callers == {"settings", "console"}

\* How well a dongle is: it streams; it starts, but delivers nothing; it takes a
\* configuration, but does not start; it answers no control request.
Kinds == {"good", "silent", "stuck", "wedged"}
Worse(d) == CASE d = "good"   -> {"silent", "stuck", "wedged"}
              [] d = "silent" -> {"stuck", "wedged"}
              [] d = "stuck"  -> {"wedged"}
              [] OTHER        -> {}

\* What the host makes of a dongle that is given power: one that is wedged may
\* fail its enumeration.
Comes(d) == CASE d = "out"    -> {"empty"}
              [] d = "wedged" -> {"new", "empty"}
              [] OTHER        -> {"new"}

Holding == fails = Attempts
Expected == app = "open"
Flowing == Expected /\ present /\ dongle = "good"

\* Where the callers are after a start.
AtRest == [c \in Callers |-> IF c = "settings" THEN "tick" ELSE "rest"]

Init ==
    /\ vbus \in BOOLEAN
    /\ dongle \in Kinds \cup {"out"} /\ bus \in Comes(dongle)
    /\ present = FALSE /\ moved = FALSE /\ errors = 0
    /\ app = "off" /\ fails = 0
    /\ health = "ABSENT" /\ tries = 0 /\ asked = FALSE
    /\ at = AtRest /\ why = "silent" /\ told = FALSE
    /\ slot = "IDLE" /\ worker = "none"
    /\ count = 0 /\ spent = 0

\* The program starts again: all but the budget is in memory it clears.
Booted ==
    /\ present' = FALSE /\ moved' = FALSE /\ errors' = 0
    /\ app' = "off" /\ fails' = 0
    /\ health' = "ABSENT" /\ tries' = 0 /\ asked' = FALSE
    /\ at' = AtRest /\ why' = "silent" /\ told' = FALSE
    /\ slot' = "IDLE" /\ worker' = "none"

\* esp_restart: the dongle keeps its power, the bus is reset, which may cure it.
Cured == IF dongle = "out" THEN {"out"} ELSE {dongle, "good"}
Reboot ==
    /\ dongle' \in Cured
    /\ bus' \in Comes(dongle')
    /\ Booted
    /\ UNCHANGED <<vbus, budget>>

-----------------------------------------------------------------------------
(* The dongle and its endpoint *)

\* s_generation counts on; what it was before the app's last attempt matters
\* while the attempt runs and while the app holds off.
Moves == moved' = (moved \/ Holding \/ app \in {"try", "start", "failed"})

\* endpoint_event, ATTACHED and DETACHED, with what the registry changes first.
\* The count of errors is the registration's own.
Attached ==
    /\ present' = TRUE /\ Moves /\ errors' = 0
    /\ health' = "SETTLING" /\ tries' = 0
Detached ==
    IF present
    THEN /\ present' = FALSE /\ Moves /\ errors' = 0
         /\ health' = "ABSENT" /\ tries' = 0
    ELSE UNCHANGED <<present, moved, errors, health, tries>>

\* The new device is set up.  One that does not answer may not get as far.  While
\* the lease of the one before is held the registration is answered BUSY, and the
\* setup waits.
Attach ==
    /\ bus = "new" /\ ~present /\ app \notin {"start", "open"}
    /\ bus' = "seen"
    /\ \/ Attached
       \/ /\ dongle # "good"
          /\ UNCHANGED <<present, moved, errors, health, tries>>
    /\ UNCHANGED <<vbus, dongle, looks, asked, callers, work, budget>>

Plug ==
    /\ dongle = "out"
    /\ dongle' \in Kinds
    /\ bus' \in (IF bus = "off" THEN {"off"} ELSE Comes(dongle'))
    /\ UNCHANGED <<vbus, present, moved, errors, looks, watch, callers, work, budget>>

Unplug ==
    /\ dongle # "out"
    /\ dongle' = "out"
    /\ bus' = IF bus = "off" THEN "off" ELSE "empty"
    /\ Detached
    /\ UNCHANGED <<vbus, looks, asked, callers, work, budget>>

Wedge ==
    /\ dongle' \in Worse(dongle)
    /\ UNCHANGED <<vbus, bus, present, moved, errors, looks, watch, callers, work, budget>>

-----------------------------------------------------------------------------
(* The receiver app: fm_rx_run_once with radio_open_retry *)

Enter ==
    /\ app = "off"
    /\ app' = "look" /\ fails' = 0
    /\ UNCHANGED <<vbus, usb, watch, callers, work, budget>>

Leave ==
    /\ app # "off"
    /\ app' = "off" /\ fails' = 0
    /\ UNCHANGED <<vbus, usb, watch, callers, work, budget>>

\* radio_open_retry_may_try, with the generation read before the attempt.
MayTry == ~Holding \/ moved
Look ==
    /\ app = "look" /\ MayTry
    /\ app' = "try"
    /\ fails' = IF Holding THEN 0 ELSE fails
    /\ moved' = FALSE
    /\ UNCHANGED <<vbus, dongle, bus, present, errors, watch, callers, work, budget>>

\* fm_radio_open makes two control calls, configure and iq_start.  One that is
\* refused because the endpoint is gone, and anything that is not an I/O error
\* (a lease or a stream that is still in use, no memory), begins the app's count
\* again and leaves the endpoint's alone.
Again == app' = "look" /\ fails' = 0 /\ UNCHANGED <<vbus, usb, watch, callers, work, budget>>
OpenRefused == app \in {"try", "start"} /\ ~present /\ Again
Balks == app \in {"try", "start"} /\ present /\ Again

\* session_leave_control: an I/O error adds to the endpoint's count, a success
\* ends it, and that of the first call comes before the second is made.
Opening(place, next, total) ==
    /\ app = place /\ present
    /\ app' = next /\ errors' = total
    /\ UNCHANGED <<vbus, dongle, bus, present, moved, watch, callers, work, budget>>
OneMore == IF errors < Faults THEN errors + 1 ELSE errors
ConfigureFails == dongle = "wedged" /\ Opening("try", "failed", OneMore) /\ UNCHANGED fails
Configures == dongle # "wedged" /\ Opening("try", "start", 0) /\ UNCHANGED fails
StartFails ==
    dongle \in {"stuck", "wedged"} /\ Opening("start", "failed", OneMore) /\ UNCHANGED fails
Opens == dongle \in {"good", "silent"} /\ Opening("start", "open", 0) /\ fails' = 0

\* radio_open_retry_failed after an I/O error.

\* Slip (CuredIsOpened): the hold remembers the generation of now, not of
\* before the attempt.
NoteNow ==
    /\ app = "failed"
    /\ app' = "look" /\ fails' = fails + 1
    /\ moved' = FALSE
    /\ UNCHANGED <<vbus, dongle, bus, present, errors, watch, callers, work, budget>>
\* Slip (SickIsActedOn): the app gives up before the watchdog has seen enough.
NoteEarly ==
    /\ app = "failed"
    /\ app' = "look"
    /\ fails' = IF fails + 2 >= Faults THEN Attempts ELSE fails + 1
    /\ UNCHANGED <<vbus, usb, watch, callers, work, budget>>
Note ==
    /\ app = "failed"
    /\ app' = "look" /\ fails' = fails + 1
    /\ UNCHANGED <<vbus, usb, watch, callers, work, budget>>

\* A read fails because the endpoint is gone; a time-out keeps the session.
Lose ==
    /\ app = "open" /\ ~present
    /\ app' = "look"
    /\ UNCHANGED <<vbus, usb, fails, watch, callers, work, budget>>

\* The queued recovery: an app that holds the lease leaves, the interface is
\* claimed again, the app enters.  If it fails the app is parked, or the program
\* starts anew.
Leased == app \in {"try", "start", "open"}
Recover ==
    /\ asked
    /\ \/ /\ asked' = FALSE
          /\ dongle' \in (IF present /\ dongle \in {"silent", "stuck"}
                         THEN {dongle, "good"} ELSE {dongle})
          /\ app' = IF present /\ Leased THEN "look" ELSE app
          /\ fails' = IF present /\ Leased THEN 0 ELSE fails
          /\ UNCHANGED <<vbus, bus, present, moved, errors, health, tries>>
          /\ UNCHANGED <<callers, work, budget>>
       \/ /\ present /\ Leased /\ dongle # "good"
          /\ asked' = FALSE /\ app' = "off" /\ fails' = 0
          /\ UNCHANGED <<vbus, usb, health, tries, callers, work, budget>>
       \/ /\ present /\ Leased /\ dongle # "good"
          /\ Reboot

-----------------------------------------------------------------------------
(* settings_task: the health watchdog, absence, and proof of health *)

\* sdr_auto_power_cycle: the budget is asked before the worker's slot.
AskCycle(reason) ==
    /\ why' = reason
    /\ at' = [at EXCEPT !["settings"] = IF count < MaxCycles THEN "claim" ELSE "refused"]

Ticking == at["settings"] = "tick"
Quiet == UNCHANGED <<vbus, usb, looks, told, work, budget>>
Goes(next) == health' = next /\ UNCHANGED <<tries, asked, at, why>>
Escalates ==
    /\ health' = "POWER_CYCLING" /\ UNCHANGED <<tries, asked>>
    /\ AskCycle("silent")

\* The three control errors in a row that no recovery in place can reach.
ControlDead ==
    present /\ errors >= Faults /\ health \notin {"POWER_CYCLING", "FAILED"}

TickAbsent == Ticking /\ ~present /\ health # "ABSENT" /\ Goes("ABSENT") /\ Quiet
TickDead == Ticking /\ ControlDead /\ Escalates /\ Quiet

Judging(state) == Ticking /\ present /\ ~ControlDead /\ health = state
TickSettled == Judging("SETTLING") /\ Goes("OK") /\ Quiet

\* Ten seconds in OK make the tries good again: eight without samples end it, and
\* an app that looks for a receiver has opened it or holds off by then.
TickFresh ==
    /\ Judging("OK") /\ tries > 0
    /\ Flowing \/ app = "off" \/ Holding
    /\ tries' = 0 /\ UNCHANGED <<health, asked, at, why>>
    /\ Quiet
TickStalls == Judging("OK") /\ Expected /\ ~Flowing /\ Goes("STALLED") /\ Quiet

StalledCase ==
    \/ ~Expected /\ Goes("SETTLING")
    \/ Flowing /\ Goes("OK")
    \/ /\ Expected /\ ~Flowing /\ tries < MaxTries
       /\ health' = "RECOVERING" /\ tries' = tries + 1 /\ asked' = TRUE
       /\ UNCHANGED <<at, why>>
    \/ Expected /\ ~Flowing /\ tries = MaxTries /\ Escalates
TickStalled == Judging("STALLED") /\ StalledCase /\ Quiet

TickRecovering ==
    Judging("RECOVERING") /\ Goes(IF Flowing THEN "OK" ELSE "STALLED") /\ Quiet
TickCycled ==
    /\ Judging("POWER_CYCLING")
    /\ health' = "SETTLING" /\ tries' = 0 /\ UNCHANGED <<asked, at, why>>
    /\ Quiet
TickFailed ==
    /\ Judging("FAILED")
    /\ health' = IF Flowing THEN "OK" ELSE "STALLED"
    /\ tries' = 0 /\ UNCHANGED <<asked, at, why>>
    /\ Quiet

Tick ==
    \/ TickAbsent \/ TickDead \/ TickSettled \/ TickFresh \/ TickStalls
    \/ TickStalled \/ TickRecovering \/ TickCycled \/ TickFailed

\* Thirty seconds without an endpoint while something is attached: a board with
\* a switch asks for a cycle, the others only say so.
Absent ==
    /\ Ticking /\ vbus /\ ~present /\ ~told
    /\ dongle # "out" /\ bus # "off"
    /\ AskCycle("absent")
    /\ UNCHANGED <<vbus, usb, looks, watch, told, work, budget>>
Found ==
    /\ Ticking /\ present /\ told
    /\ told' = FALSE
    /\ UNCHANGED <<vbus, usb, looks, watch, at, why, work, budget>>

\* sdr_health_ok, after ten seconds of samples.
\* Slip (BudgetKept): OK is enough, which an idle dongle with a dead control
\* pipe is too.
ProvenIdle == present /\ health = "OK"
Proven == present /\ health = "OK" /\ Flowing
Refill ==
    /\ Ticking /\ Proven /\ count > 0
    /\ count' = 0
    /\ spent' = IF Flowing THEN 0 ELSE spent
    /\ UNCHANGED <<vbus, usb, looks, watch, callers, work>>

-----------------------------------------------------------------------------
(* hl_sdr_power_cycle_try, called by settings_task and by `rtl reset' *)

GoTo(c, place) == at' = [at EXCEPT ![c] = place] /\ UNCHANGED <<why, told>>

\* The caller goes on with a refusal or without.
Back(c, refused) ==
    GoTo(c, CASE c = "console" -> "rest" [] refused -> "refused" [] OTHER -> "tick")

Ask ==
    /\ at["console"] = "rest"
    /\ GoTo("console", "claim")
    /\ UNCHANGED <<vbus, usb, looks, watch, work, budget>>

\* Slip (OneWorker): a finished worker counts as none.
ClaimFinished(c) ==
    /\ at[c] = "claim"
    /\ IF slot = "RUNNING"
       THEN Back(c, TRUE) /\ UNCHANGED slot
       ELSE slot' = "RUNNING" /\ GoTo(c, "create")
    /\ UNCHANGED <<vbus, usb, looks, watch, worker, budget>>
Claim(c) ==
    /\ at[c] = "claim"
    /\ CASE slot = "IDLE"     -> slot' = "RUNNING" /\ GoTo(c, "create")
         [] slot = "FINISHED" -> slot' = "RUNNING" /\ GoTo(c, "reclaim")
         [] slot = "RUNNING"  -> Back(c, TRUE) /\ UNCHANGED slot
    /\ UNCHANGED <<vbus, usb, looks, watch, worker, budget>>

\* sdrpwr_reclaim_finished_worker: it must be suspended within 200 ms.
Reclaim(c) ==
    /\ at[c] = "reclaim"
    /\ \/ /\ worker = "suspended"
          /\ worker' = "none"
          /\ GoTo(c, "create")
          /\ UNCHANGED slot
       \/ /\ worker # "suspended"
          /\ slot' = "FINISHED"
          /\ Back(c, TRUE)
          /\ UNCHANGED worker
    /\ UNCHANGED <<vbus, usb, looks, watch, budget>>

Create(c) ==
    /\ at[c] = "create"
    /\ IF ~vbus /\ bus \in {"off", "empty"}
       THEN /\ slot' = "IDLE"
            /\ Back(c, TRUE)
            /\ UNCHANGED <<worker, budget>>
       ELSE /\ worker' = "start"
            /\ Back(c, FALSE)
            /\ IF c = "settings"
               THEN count' = count + 1 /\ spent' = spent + 1
               ELSE UNCHANGED budget
            /\ UNCHANGED slot
    /\ UNCHANGED <<vbus, usb, looks, watch>>

\* What a refusal means to the part of settings_task that asked: the watchdog
\* gives the endpoint up, whatever has become of it since.
Refused ==
    /\ at["settings"] = "refused"
    /\ at' = [at EXCEPT !["settings"] = "tick"]
    /\ IF why = "silent"
       THEN health' = "FAILED" /\ UNCHANGED told
       ELSE told' = TRUE /\ UNCHANGED health
    /\ why' = "silent"
    /\ UNCHANGED <<vbus, usb, looks, tries, asked, work, budget>>

-----------------------------------------------------------------------------
(* The worker: sdr_power_task where there is a switch, sdr_port_task elsewhere *)

Bystanders == <<vbus, asked, callers, budget>>

VbusPark ==
    /\ vbus /\ worker = "start"
    /\ app' = "off" /\ fails' = 0 /\ worker' = "cut"
    /\ UNCHANGED <<usb, health, tries, slot>> /\ UNCHANGED Bystanders
VbusOff ==
    /\ vbus /\ worker = "cut"
    /\ bus' = "off" /\ Detached /\ worker' = "on"
    /\ UNCHANGED <<dongle, looks, slot>> /\ UNCHANGED Bystanders
VbusOn ==
    /\ vbus /\ worker = "on"
    /\ dongle' \in Cured /\ bus' \in Comes(dongle') /\ worker' = "wait"
    /\ UNCHANGED <<present, moved, errors, looks, health, tries, slot>>
    /\ UNCHANGED Bystanders
VbusBack ==
    /\ vbus /\ worker = "wait" /\ present
    /\ slot' = "IDLE" /\ worker' = "leaving"
    /\ UNCHANGED <<usb, looks, health, tries>> /\ UNCHANGED Bystanders
VbusGone ==
    /\ vbus /\ worker = "leaving"
    /\ worker' = "none"
    /\ UNCHANGED <<usb, looks, health, tries, slot>> /\ UNCHANGED Bystanders
VbusRestart ==
    /\ vbus /\ worker = "wait" /\ ~present
    /\ Reboot

\* rtl_adapter_port_reset: the teardown comes first, unless a control transfer
\* is stuck in the host.
PortTeardown ==
    /\ ~vbus /\ worker = "start"
    /\ \/ Detached
       \/ dongle = "wedged" /\ UNCHANGED <<present, moved, errors, health, tries>>
    /\ worker' = "torn"
    /\ UNCHANGED <<dongle, bus, looks, slot>> /\ UNCHANGED Bystanders

\* usb_port_cycle_run.
PortRefused ==   \* NOTHING, OFF_FAILED
    /\ ~vbus /\ worker = "torn"
    /\ worker' = "report"
    /\ UNCHANGED <<usb, looks, health, tries, slot>> /\ UNCHANGED Bystanders
PortCycled ==    \* DONE, NOT_RELEASED
    /\ ~vbus /\ worker = "torn" /\ bus \in {"new", "seen"}
    /\ worker' = "wait"
    /\ \/ Detached /\ dongle' \in Cured /\ bus' \in Comes(dongle')
       \/ UNCHANGED <<usb, health, tries>>
    /\ UNCHANGED <<looks, slot>> /\ UNCHANGED Bystanders
PortStillOff ==
    /\ ~vbus /\ worker = "torn" /\ bus \in {"new", "seen"}
    /\ worker' = "giveup"
    /\ bus' = "off" /\ Detached
    /\ UNCHANGED <<dongle, looks, slot>> /\ UNCHANGED Bystanders

PortWait ==
    /\ ~vbus /\ worker = "wait"
    /\ worker' = IF present THEN "report" ELSE "giveup"
    /\ UNCHANGED <<usb, looks, health, tries, slot>> /\ UNCHANGED Bystanders

\* sdr_port_give_up: the operator's setting decides.
GiveUp ==
    /\ worker = "giveup"
    /\ \/ Reboot
       \/ /\ worker' = "report"
          /\ UNCHANGED <<usb, looks, health, tries, slot>> /\ UNCHANGED Bystanders
Report ==
    /\ worker = "report"
    /\ slot' = "FINISHED" /\ worker' = "suspending"
    /\ UNCHANGED <<usb, looks, health, tries>> /\ UNCHANGED Bystanders
Suspend ==
    /\ worker = "suspending"
    /\ worker' = "suspended"
    /\ UNCHANGED <<usb, looks, health, tries, slot>> /\ UNCHANGED Bystanders

\* The board loses its power: the memory of the budget too.
PowerOn ==
    /\ bus' \in Comes(dongle) /\ UNCHANGED <<vbus, dongle>>
    /\ Booted
    /\ count' = 0 /\ spent' = 0

-----------------------------------------------------------------------------
World == Plug \/ Unplug \/ Wedge \/ Balks \/ PowerOn \/ Enter \/ Leave \/ Ask
App ==
    \/ Look \/ OpenRefused \/ ConfigureFails \/ Configures \/ StartFails \/ Opens
    \/ Note \/ Lose
Settings == Tick \/ Absent \/ Found \/ Refill \/ Refused
Try(c) == Claim(c) \/ Reclaim(c) \/ Create(c)
Worker ==
    \/ VbusPark \/ VbusOff \/ VbusOn \/ VbusBack \/ VbusGone \/ VbusRestart
    \/ PortTeardown \/ PortRefused \/ PortCycled \/ PortStillOff \/ PortWait
    \/ GiveUp \/ Report \/ Suspend

Next == World \/ Attach \/ App \/ Recover \/ Settings \/ Worker \/ \E c \in Callers : Try(c)
Spec == Init /\ [][Next]_vars

\* Each party is a task that runs: the host, the app's loop, the application
\* registry's worker, settings_task every 250 ms, the console, the cycle's worker.
\* A call that is made again and again does not meet a receiver in use or a lack
\* of memory each time.
Fairness ==
    /\ WF_vars(Attach) /\ WF_vars(App) /\ WF_vars(Recover) /\ WF_vars(Worker)
    /\ SF_vars(ConfigureFails \/ Configures) /\ SF_vars(Opens)
    /\ WF_vars(Tick \/ Refused \/ Try("settings")) /\ WF_vars(Try("console"))
FairSpec == Spec /\ Fairness

-----------------------------------------------------------------------------
(* Properties *)

Places == {"tick", "rest", "claim", "reclaim", "create", "refused"}
TypeOK ==
    /\ vbus \in BOOLEAN /\ present \in BOOLEAN /\ moved \in BOOLEAN
    /\ asked \in BOOLEAN /\ told \in BOOLEAN
    /\ dongle \in Kinds \cup {"out"} /\ bus \in {"off", "empty", "new", "seen"}
    /\ app \in {"off", "look", "try", "start", "failed", "open"}
    /\ fails \in 0 .. Attempts /\ errors \in 0 .. Faults
    /\ (app \in {"try", "start", "failed"} => fails < Attempts)
    /\ health \in {"ABSENT", "SETTLING", "OK", "STALLED", "RECOVERING",
                   "POWER_CYCLING", "FAILED"}
    /\ tries \in 0 .. MaxTries
    /\ at \in [Callers -> Places] /\ why \in {"silent", "absent"}
    /\ slot \in {"IDLE", "RUNNING", "FINISHED"}
    /\ worker \in {"none", "start", "cut", "on", "wait", "leaving", "torn",
                   "giveup", "report", "suspending", "suspended"}
    /\ count \in 0 .. MaxCycles /\ spent \in Nat

\* Where there is no switch, a caller that is about to create the worker finds
\* nobody on the static stack, and is the only one (headless_main.c, "two
\* workers on one static stack is the worst thing this function could do").
OneWorker ==
    ~vbus => \A c \in Callers : at[c] = "create" =>
        /\ worker = "none"
        /\ \A d \in Callers \ {c} : at[d] # "create"

\* The same for every board: the worker that cycles the power gives the slot
\* back before it has left the stack.
StackFree == \A c \in Callers : at[c] = "create" => worker = "none"

\* Between two times that samples were seen to move, no more cycles are started
\* on the watchdog's own account than the budget has, restarts or not: a dongle
\* that is wedged for good cannot turn them into a loop.
BudgetKept == spent <= MaxCycles

\* An app keeps trying a dongle that answers nothing, or starts and delivers
\* nothing: in the end the cycle is started or the endpoint is given up, unless
\* the dongle or the app went away.  Three things are left out, which HeldIsSeen
\* is about: a dongle that takes its configuration and does not start, failures
\* the app has counted before a replug it has not seen, and those it has counted
\* before a configure that succeeds.
Sick == present /\ dongle \in {"silent", "wedged"} /\ app # "off"
Failed == IF app = "failed" THEN fails + 1 ELSE fails
OwnFailures ==
    \/ Holding /\ moved
    \/ errors = Faults
    \/ Failed <= errors
SickIsActedOn ==
    (Sick /\ OwnFailures /\ (dongle = "silent" => Failed = 0 \/ Holding))
        ~> (worker # "none" \/ health = "FAILED" \/ ~Sick)

\* An app that holds off has shown the watchdog enough to act on
\* (radio_open_retry.c: "the limit must not cut in before the health watchdog
\* has seen enough to act: every failed open adds at least one control io error
\* on the endpoint").  The code does not keep it: a configure that succeeds
\* before a start that fails begins the endpoint's count again, each time.
HeldIsSeen == Holding /\ ~moved => errors = Faults

\* Where that can go wrong.  The counts are two variables of two tasks: as long
\* as the watchdog has every failure that the app has counted, an app that holds
\* off has shown it enough; and the watchdog loses one only where the endpoint
\* goes while the app is counting, or where a configure succeeds in between.
Counting == ~Holding /\ Failed > 0
Apart ==
    /\ Counting
    /\ \/ present /\ ~present'
       \/ app = "try" /\ app' = "start"
CountsTogether ==
    /\ [][OwnFailures => OwnFailures' \/ Apart]_vars
    /\ [](OwnFailures /\ Holding => moved \/ errors = Faults)

\* An app that looks for a receiver, held off or not, ends with samples from a
\* good dongle that is there, and the watchdog agrees.  Left out is a dongle that
\* was cured in place when the app had counted its last failure and the watchdog
\* had not: nothing moves the generation, and nobody cycles it (HeldIsSeen).
Cure == present /\ dongle = "good" /\ app # "off"
Unseen == Failed = Attempts /\ ~moved /\ errors < Faults
CuredIsOpened == (Cure /\ ~Unseen) ~> ((app = "open" /\ health = "OK") \/ ~Cure)

=============================================================================
