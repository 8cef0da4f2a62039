--------------------------- MODULE RadioEndpoint ---------------------------
(***************************************************************************)
(* One slot of the radio endpoint registry, radio_endpoint.c, and the      *)
(* tasks that call it.  A slot is shared by the app that leases the        *)
(* receiver, the USB task that attaches and detaches it, and the tasks     *)
(* that recover it, pause it or set its front end.                         *)
(*                                                                         *)
(* Every section of the code under s_registry_lock is one action.  Between *)
(* two of them a task waits for slot->control_lock, waits in               *)
(* wait_quiesced, or is inside a driver callback; each of those is a value *)
(* of pc, so that every interleaving of the tasks is explored.  Slots      *)
(* share nothing but the registry lock and the choice ls_radio_acquire     *)
(* makes among those that match, so one slot shows what each promises.     *)
(*                                                                         *)
(* A definition marked "Slip" is not part of the model: it is the one      *)
(* below it with a mistake a change of the code could make, and the        *)
(* property named after it is the one that catches the mistake.            *)
(***************************************************************************)
EXTENDS Integers, FiniteSets

CONSTANTS
    Task,       \* the FreeRTOS tasks that call the registry
    Owner,      \* the apps, by the owner string they acquire with
    OwnerOf,    \* the app each task belongs to
    Calls,      \* the calls each task makes
    Kinds,      \* slot->capabilities: 1 reads IQ, 2 reads packets
    MaxWaiters, \* LS_RADIO_MAX_WAITERS, the ceiling of slot->quiesced
    MaxIo,      \* bound on the run of failed control calls explored
    NoOwner,    \* the empty owner string
    NoTask      \* slot->control_lock when it is free

\* A control call on a session; pause and resume are the two values of
\* ls_radio_endpoint_pause's argument.
SessionOps == {"configure", "set_gain", "set_ppm", "start", "retune",
               "get_health", "stop"}
PauseOps   == {"pause", "resume"}
Ops == SessionOps \cup
       {"acquire", "release", "read", "observe", "recheck", "register",
        "unregister", "recover", "fe", "dashboard"}

ASSUME TaskAssumption   == IsFiniteSet(Task) /\ NoTask \notin Task
ASSUME OwnerAssumption  == NoOwner \notin Owner /\ OwnerOf \in [Task -> Owner]
ASSUME CallsAssumption  == Calls \in [Task -> SUBSET Ops]
ASSUME KindsAssumption  == Kinds \subseteq {1, 2}
ASSUME BoundAssumption  ==
    MaxWaiters \in Nat /\ MaxWaiters >= 2 /\ MaxIo \in Nat

VARIABLES
    \* endpoint_slot_t, written under the registry lock only
    present, removing, driver_ctx,
    leased, active, closing, owner,
    config_kind, streaming, stream_kind, paused, pause_pending, stopping,
    in_flight, waiters, diagnostic_controls, control_io_errors,
    ctl,      \* the task that holds slot->control_lock
    tokens,   \* the count of the semaphore slot->quiesced
    \* the tasks: where each is in its call, and the call's locals
    pc, op, kind, ret, who, flag,
    holds,    \* the apps whose session pointer is not NULL
    running,  \* the driver's side: the kind of stream that runs, 0 none
    fresh,    \* tasks whose receipt still carries the slot's context epoch
    receipts, \* tasks whose last observed read was stamped known
    \* ghosts: the tasks whose observed block, from its sample on, was
    \* overlapped by a control call in the driver, by a recovery, by the stop
    \* of a release, by a front-end call
    controlled, recovered, stopped, tuned,
    excuse,   \* ghost: why a stream may outlive its lease
    orphan    \* ghost: what runs is a stream that outlived its lease

device   == <<present, removing, driver_ctx>>
session  == <<leased, active, closing, owner>>
stream   == <<config_kind, streaming, stream_kind, paused, pause_pending,
              stopping>>
counts   == <<in_flight, waiters, diagnostic_controls, control_io_errors>>
slot     == <<device, session, stream, counts>>
locals   == <<op, kind, ret, who, flag>>
driver   == <<running, excuse, orphan>>
overlaps == <<controlled, recovered, stopped, tuned>>
evidence == <<fresh, receipts, overlaps>>
vars == <<slot, ctl, tokens, pc, locals, holds, driver, evidence>>

-----------------------------------------------------------------------------
\* The places of a task, by what the code has promised it there.

ControlPc == {"lock", "check", "driver", "commit", "count", "leave"}
ReadPc    == {"sample", "reading", "receipt", "leaveRead", "recheck"}
ReleasePc == {"cancelRel", "lockRel", "stopRel", "unlockRel", "leaveRel"}
FePc      == {"lockFe", "fe", "unlockFe", "leaveFe"}
WaitPc    == {"wait", "blocked", "woken"}
WaiterPc  == {"blocked", "woken"}
RecoverPc == {"lockRec", "recover", "unlockRec", "endRec"}
UnregPc   == {"cancelUnreg", "endUnreg"}
Pc == ControlPc \cup ReadPc \cup ReleasePc \cup FePc \cup WaitPc \cup
      RecoverPc \cup UnregPc \cup
      {"idle", "unlock", "endRel", "return", "toggle"}

InFlightPc == ControlPc \cup ReadPc \cup ReleasePc \cup FePc
LockPc     == {"lock", "lockRel", "lockRec", "lockFe"}
\* Inside a callback of slot->ops, with slot->driver_ctx as its argument.
DriverPc   == {"driver", "reading", "recheck", "cancelRel", "stopRel", "fe",
               "recover", "cancelUnreg"}

AtOf(f, S) == {t \in Task : f[t] \in S}
At(S)      == AtOf(pc, S)
InFlight   == At(InFlightPc)
Blocked    == At({"blocked"})

\* The tasks slot->diagnostic_controls counts: every call that entered with
\* require_streaming false, and every pause.
InControl == At(ControlPc)

FlagTypes ==
    /\ present \in BOOLEAN /\ removing \in BOOLEAN /\ driver_ctx \in BOOLEAN
    /\ leased \in BOOLEAN /\ active \in BOOLEAN /\ closing \in BOOLEAN
    /\ streaming \in BOOLEAN /\ paused \in BOOLEAN
    /\ pause_pending \in BOOLEAN /\ stopping \in BOOLEAN
    /\ flag \in [Task -> BOOLEAN]

CountTypes ==
    /\ in_flight \in Nat /\ waiters \in Nat
    /\ diagnostic_controls \in Nat /\ control_io_errors \in Nat
    /\ tokens \in 0..MaxWaiters
    /\ config_kind \in 0..2 /\ stream_kind \in 0..2 /\ running \in 0..2

CallTypes ==
    /\ pc \in [Task -> Pc]
    /\ op \in [Task -> Ops \cup PauseOps \cup {"none"}]
    /\ kind \in [Task -> 0..2]
    /\ ret \in [Task -> {"ok", "io", "other"}]
    /\ who \in [Task -> Owner \cup {NoOwner}]

SetTypes ==
    /\ owner \in Owner \cup {NoOwner} /\ holds \in SUBSET Owner
    /\ ctl \in Task \cup {NoTask}
    /\ fresh \in SUBSET Task /\ receipts \in SUBSET Task
    /\ controlled \in SUBSET Task /\ recovered \in SUBSET Task
    /\ stopped \in SUBSET Task /\ tuned \in SUBSET Task
    /\ excuse \in SUBSET {"start", "stop"} /\ orphan \in BOOLEAN

TypeOK == FlagTypes /\ CountTypes /\ CallTypes /\ SetTypes

\* s_endpoints is zeroed at boot: nothing is attached.
Init ==
    /\ present = FALSE /\ removing = FALSE /\ driver_ctx = FALSE
    /\ leased = FALSE /\ active = FALSE /\ closing = FALSE
    /\ owner = NoOwner
    /\ config_kind = 0 /\ stream_kind = 0 /\ streaming = FALSE
    /\ paused = FALSE /\ pause_pending = FALSE /\ stopping = FALSE
    /\ in_flight = 0 /\ waiters = 0
    /\ diagnostic_controls = 0 /\ control_io_errors = 0
    /\ ctl = NoTask /\ tokens = 0
    /\ pc = [t \in Task |-> "idle"]
    /\ op = [t \in Task |-> "none"] /\ kind = [t \in Task |-> 0]
    /\ ret = [t \in Task |-> "ok"] /\ who = [t \in Task |-> NoOwner]
    /\ flag = [t \in Task |-> FALSE]
    /\ holds = {} /\ running = 0 /\ excuse = {} /\ orphan = FALSE
    /\ fresh = {} /\ receipts = {}
    /\ controlled = {} /\ recovered = {} /\ stopped = {} /\ tuned = {}

-----------------------------------------------------------------------------
\* Helpers of the actions.

Goto(t, place) == pc' = [pc EXCEPT ![t] = place]
Begin(t, o) == pc[t] = "idle" /\ o \in Calls[t]

\* A task goes in with the call o on its mind, and comes back.
Start(t, o, place) == Goto(t, place) /\ op' = [op EXCEPT ![t] = o]
Finish(t) ==
    /\ Goto(t, "idle")
    /\ op' = [op EXCEPT ![t] = "none"] /\ kind' = [kind EXCEPT ![t] = 0]
    /\ ret' = [ret EXCEPT ![t] = "ok"] /\ who' = [who EXCEPT ![t] = NoOwner]
    /\ flag' = [flag EXCEPT ![t] = FALSE]

\* diagnostic_epoch_next: no receipt taken before carries the epoch now.
NewEpoch == fresh' = {} /\ UNCHANGED <<receipts, overlaps>>

\* The tasks that sample a block or keep the receipt of one: a driver call
\* that begins overlaps theirs.
Watching == receipts \cup
    {t \in Task : pc[t] \in {"reading", "receipt"} /\ op[t] = "observe"}

TouchControl ==
    controlled' = controlled \cup Watching
    /\ UNCHANGED <<fresh, receipts, recovered, stopped, tuned>>
TouchRecover ==
    recovered' = recovered \cup Watching
    /\ UNCHANGED <<fresh, receipts, controlled, stopped, tuned>>
TouchRelease ==
    stopped' = stopped \cup Watching
    /\ UNCHANGED <<fresh, receipts, controlled, recovered, tuned>>
TouchFrontEnd ==
    tuned' = tuned \cup Watching
    /\ UNCHANGED <<fresh, receipts, controlled, recovered, stopped>>

\* One more call inside the endpoint, a control (c = 1) or not (c = 0).
CountIn(c) ==
    /\ in_flight' = in_flight + 1
    /\ diagnostic_controls' = diagnostic_controls + c
    /\ UNCHANGED <<waiters, control_io_errors, tokens>>

\* Every leave counts down with a floor at zero.
OneLess(n) == IF n > 0 THEN n - 1 ELSE 0

\* Slip: the diagnostic count is left alone (Accounting).
CountOutForgetsControls(c) ==
    /\ in_flight' = OneLess(in_flight)
    /\ tokens' = IF in_flight' # 0 THEN tokens
                 ELSE IF tokens + waiters < MaxWaiters THEN tokens + waiters
                 ELSE MaxWaiters
    /\ UNCHANGED <<waiters, diagnostic_controls, control_io_errors>>

\* Slip: only the first waiter is woken (NoLostWakeup, DetachEnds).
CountOutWakesOne(c) ==
    /\ in_flight' = OneLess(in_flight)
    /\ diagnostic_controls' = IF c = 1 THEN OneLess(diagnostic_controls)
                              ELSE diagnostic_controls
    /\ tokens' = IF in_flight' = 0 /\ waiters > 0 /\ tokens = 0 THEN 1
                 ELSE tokens
    /\ UNCHANGED <<waiters, control_io_errors>>

\* One call less, and note_quiesced_locked: at zero every waiter gets a
\* token.
CountOut(c) ==
    /\ in_flight' = OneLess(in_flight)
    /\ diagnostic_controls' = IF c = 1 THEN OneLess(diagnostic_controls)
                              ELSE diagnostic_controls
    /\ tokens' = IF in_flight' # 0 THEN tokens
                 ELSE IF tokens + waiters < MaxWaiters THEN tokens + waiters
                 ELSE MaxWaiters
    /\ UNCHANGED <<waiters, control_io_errors>>

-----------------------------------------------------------------------------
\* The registry: attach, detach, recovery.

\* ls_radio_endpoint_register.  A slot that is present, being removed or
\* still leased is refused without a change.
Register(t) ==
    /\ Begin(t, "register")
    /\ ~present /\ ~removing /\ ~leased
    /\ present' = TRUE /\ removing' = FALSE /\ driver_ctx' = TRUE
    /\ active' = FALSE /\ closing' = FALSE /\ owner' = NoOwner
    /\ config_kind' = 0 /\ stream_kind' = 0 /\ streaming' = FALSE
    /\ paused' = FALSE /\ pause_pending' = FALSE /\ stopping' = FALSE
    /\ in_flight' = 0 /\ waiters' = 0
    /\ diagnostic_controls' = 0 /\ control_io_errors' = 0
    /\ running' = 0 /\ excuse' = {} /\ orphan' = FALSE
    /\ NewEpoch
    /\ UNCHANGED <<leased, ctl, tokens, pc, locals, holds>>

\* ls_radio_endpoint_unregister, its first section.
Unregister(t) ==
    /\ Begin(t, "unregister")
    /\ present /\ ~removing
    /\ present' = FALSE /\ removing' = TRUE
    /\ streaming' = FALSE /\ stopping' = TRUE
    /\ Start(t, "unregister", "cancelUnreg")
    /\ NewEpoch
    /\ UNCHANGED <<driver_ctx, session, config_kind, stream_kind, paused,
                   pause_pending, counts, ctl, tokens, kind, ret, who, flag,
                   holds, driver>>

\* Slip: reads are cancelled, so nobody can be inside (DriverAlive).
CancelUnregisterIsEnough(t) ==
    /\ pc[t] = "cancelUnreg"
    /\ Goto(t, "endUnreg")
    /\ UNCHANGED <<slot, ctl, tokens, locals, holds, driver, evidence>>

CancelUnregister(t) ==
    /\ pc[t] = "cancelUnreg"
    /\ Goto(t, "wait")
    /\ UNCHANGED <<slot, ctl, tokens, locals, holds, driver, evidence>>

\* The last section of ls_radio_endpoint_unregister.
EndUnregister(t) ==
    /\ pc[t] = "endUnreg"
    /\ driver_ctx' = FALSE /\ removing' = FALSE
    /\ running' = 0 /\ excuse' = {} /\ orphan' = FALSE
    /\ Finish(t)
    /\ UNCHANGED <<present, session, stream, counts, ctl, tokens, holds,
                   evidence>>

\* Slip: the lease is not looked at (ImplementsLease).
RecoverLeased(t) ==
    /\ Begin(t, "recover")
    /\ present /\ ~removing
    /\ removing' = TRUE
    /\ Start(t, "recover", "lockRec")
    /\ NewEpoch
    /\ UNCHANGED <<present, driver_ctx, session, stream, counts, ctl, tokens,
                   kind, ret, who, flag, holds, driver>>

\* ls_radio_endpoint_recover: refused while leased or being removed.
Recover(t) ==
    /\ Begin(t, "recover")
    /\ present /\ ~leased /\ ~removing
    /\ removing' = TRUE
    /\ Start(t, "recover", "lockRec")
    /\ NewEpoch
    /\ UNCHANGED <<present, driver_ctx, session, stream, counts, ctl, tokens,
                   kind, ret, who, flag, holds, driver>>

RecoverReturn(t) ==
    /\ pc[t] = "recover"
    /\ Goto(t, "unlockRec")
    /\ UNCHANGED <<slot, ctl, tokens, locals, holds, driver, evidence>>

EndRecover(t) ==
    /\ pc[t] = "endRec"
    /\ removing' = FALSE
    /\ Finish(t)
    /\ UNCHANGED <<present, driver_ctx, session, stream, counts, ctl, tokens,
                   holds, driver, evidence>>

\* wait_quiesced, for a detach and for a release.
AfterWait(t) == IF op[t] = "unregister" THEN "endUnreg" ELSE "endRel"

WaitCheck(t) ==
    /\ pc[t] = "wait"
    /\ \/ in_flight = 0 /\ Goto(t, AfterWait(t)) /\ UNCHANGED waiters
       \/ in_flight # 0 /\ Goto(t, "blocked") /\ waiters' = waiters + 1
    /\ UNCHANGED <<device, session, stream, in_flight, diagnostic_controls,
                   control_io_errors, ctl, tokens, locals, holds, driver,
                   evidence>>

TakeQuiesced(t) ==
    /\ pc[t] = "blocked" /\ tokens > 0
    /\ tokens' = tokens - 1
    /\ Goto(t, "woken")
    /\ UNCHANGED <<slot, ctl, locals, holds, driver, evidence>>

Woken(t) ==
    /\ pc[t] = "woken"
    /\ waiters' = waiters - 1
    /\ Goto(t, IF in_flight = 0 THEN AfterWait(t) ELSE "wait")
    /\ UNCHANGED <<device, session, stream, in_flight, diagnostic_controls,
                   control_io_errors, ctl, tokens, locals, holds, driver,
                   evidence>>

\* slot->control_lock, taken and given by every call that reaches the
\* driver under it.
AfterLock(place) == CASE place = "lock"    -> "check"
                      [] place = "lockRel" -> "stopRel"
                      [] place = "lockRec" -> "recover"
                      [] place = "lockFe"  -> "fe"
AfterUnlock(place) == CASE place = "unlockRel" -> "leaveRel"
                        [] place = "unlockRec" -> "endRec"
                        [] place = "unlockFe"  -> "leaveFe"

TakeControl(t) ==
    /\ pc[t] \in LockPc /\ ctl = NoTask
    /\ ctl' = t
    /\ Goto(t, AfterLock(pc[t]))
    /\ \/ pc[t] = "lock" /\ UNCHANGED evidence
       \/ pc[t] = "lockRel" /\ TouchRelease
       \/ pc[t] = "lockRec" /\ TouchRecover
       \/ pc[t] = "lockFe" /\ TouchFrontEnd
    /\ UNCHANGED <<slot, tokens, locals, holds, driver>>

GiveControl(t) ==
    /\ ctl' = NoTask
    /\ \/ pc[t] = "unlock" /\ Finish(t)
       \/ /\ pc[t] \in {"unlockRel", "unlockRec", "unlockFe"}
          /\ Goto(t, AfterUnlock(pc[t])) /\ UNCHANGED locals
    /\ UNCHANGED <<slot, tokens, holds, driver, evidence>>

\* fe_enter, slot->ops.fe_ctl and fe_leave: no lease is needed.
FeEnter(t) ==
    /\ Begin(t, "fe")
    /\ present /\ ~removing
    /\ CountIn(0)
    /\ Start(t, "fe", "lockFe")
    /\ UNCHANGED <<device, session, stream, ctl, kind, ret, who, flag, holds,
                   driver, evidence>>

FeReturn(t) ==
    /\ pc[t] = "fe"
    /\ Goto(t, "unlockFe")
    /\ UNCHANGED <<slot, ctl, tokens, locals, holds, driver, evidence>>

FeLeave(t) ==
    /\ pc[t] = "leaveFe"
    /\ CountOut(0)
    /\ Finish(t)
    /\ UNCHANGED <<device, session, stream, ctl, holds, driver, evidence>>

-----------------------------------------------------------------------------
\* The lease.

\* ls_radio_acquire on a slot that meets the requirements.
Acquire(t) ==
    /\ Begin(t, "acquire") /\ OwnerOf[t] \notin holds
    /\ present /\ ~leased /\ ~paused
    /\ leased' = TRUE /\ active' = TRUE /\ closing' = FALSE
    /\ owner' = OwnerOf[t]
    /\ holds' = holds \cup {OwnerOf[t]}
    /\ NewEpoch
    /\ UNCHANGED <<device, stream, counts, ctl, tokens, pc, locals, driver>>

StartInFlight == \E u \in Task : pc[u] \in ControlPc /\ op[u] = "start"

\* ls_radio_release: what to stop is read here, before the control lock.  A
\* session that is closing or closed is left alone.
Release(t) ==
    /\ Begin(t, "release") /\ OwnerOf[t] \in holds
    /\ active /\ ~closing
    /\ closing' = TRUE /\ stopping' = TRUE
    /\ flag' = [flag EXCEPT ![t] = streaming]
    /\ \/ present /\ CountIn(0) /\ Start(t, "release", "cancelRel")
       \/ /\ ~present /\ Start(t, "release", "wait")
          /\ UNCHANGED <<counts, tokens>>
    /\ excuse' = IF StartInFlight THEN excuse \cup {"start"}
                 ELSE excuse
    /\ NewEpoch
    /\ UNCHANGED <<device, leased, active, owner, config_kind, streaming,
                   stream_kind, paused, pause_pending, ctl, kind, ret, who,
                   holds, running, orphan>>

\* Slip: the stream is cancelled, never stopped (NoOrphanStream).
CancelReleaseOnly(t) ==
    /\ pc[t] = "cancelRel"
    /\ Goto(t, "leaveRel")
    /\ UNCHANGED <<slot, ctl, tokens, locals, holds, driver, evidence>>

CancelRelease(t) ==
    /\ pc[t] = "cancelRel"
    /\ Goto(t, IF flag[t] THEN "lockRel" ELSE "leaveRel")
    /\ UNCHANGED <<slot, ctl, tokens, locals, holds, driver, evidence>>

StopRelease(t) ==
    /\ pc[t] = "stopRel"
    /\ \/ running' = 0 /\ orphan' = FALSE /\ UNCHANGED excuse
       \/ excuse' = excuse \cup {"stop"} /\ UNCHANGED <<running, orphan>>
    /\ Goto(t, "unlockRel")
    /\ UNCHANGED <<slot, ctl, tokens, locals, holds, evidence>>

\* Slip: the release waits for itself to leave (ReleaseEnds).
LeaveReleaseInside(t) ==
    /\ pc[t] = "leaveRel"
    /\ Goto(t, "wait")
    /\ UNCHANGED <<slot, ctl, tokens, locals, holds, driver, evidence>>

LeaveRelease(t) ==
    /\ pc[t] = "leaveRel"
    /\ CountOut(0)
    /\ Goto(t, "wait")
    /\ UNCHANGED <<device, session, stream, ctl, locals, holds, driver,
                   evidence>>

EndRelease(t) ==
    /\ pc[t] = "endRel"
    /\ leased' = FALSE /\ active' = FALSE /\ closing' = FALSE
    /\ owner' = NoOwner
    /\ streaming' = FALSE /\ stopping' = FALSE /\ stream_kind' = 0
    /\ excuse' = IF running = 0 THEN {} ELSE excuse
    /\ orphan' = (running # 0)
    /\ Goto(t, "return")
    /\ UNCHANGED <<device, config_kind, paused, pause_pending, counts, ctl,
                   tokens, locals, holds, running, evidence>>

\* The caller drops its pointer once ls_radio_release has returned.
Return(t) ==
    /\ pc[t] = "return"
    /\ holds' = holds \ {OwnerOf[t]}
    /\ Finish(t)
    /\ UNCHANGED <<slot, ctl, tokens, driver, evidence>>

-----------------------------------------------------------------------------
\* Control calls: session_enter, the control lock, the check, the driver,
\* the commit, session_leave_control or session_leave, and the lock given.

SessionUsable(t, k) ==
    /\ OwnerOf[t] \in holds
    /\ active /\ ~closing /\ leased
    /\ present /\ k \in Kinds

\* The kinds a call exists for; the others are IQ only.
KindsOf(o) == IF o \in {"configure", "start", "stop"} THEN {1, 2} ELSE {1}

ControlEnter(t) ==
    \E o \in SessionOps : \E k \in KindsOf(o) :
        /\ Begin(t, o)
        /\ SessionUsable(t, k)
        /\ CountIn(1)
        /\ Start(t, o, "lock") /\ kind' = [kind EXCEPT ![t] = k]
        /\ NewEpoch
        /\ UNCHANGED <<device, session, stream, ctl, ret, who, flag, holds,
                       driver>>

\* sdr_set_endpoint: the dashboard reads a snapshot and asks to change it.
Look(t) ==
    /\ Begin(t, "dashboard")
    /\ present
    /\ Start(t, IF paused THEN "resume" ELSE "pause", "toggle")
    /\ who' = [who EXCEPT ![t] = owner]
    /\ UNCHANGED <<slot, ctl, tokens, kind, ret, flag, holds, driver,
                   evidence>>

\* Slip: the owner of the snapshot is not compared (PauseHitsNamedOwner).
MayPauseAnyone(t) == present /\ ~removing /\ ~closing /\ ~pause_pending

\* ls_radio_endpoint_pause, given the owner of that snapshot.
MayPause(t) ==
    present /\ owner = who[t] /\ ~removing /\ ~closing /\ ~pause_pending

PauseEnter(t) ==
    /\ pc[t] = "toggle" /\ MayPause(t)
    /\ CountIn(1)
    /\ pause_pending' = TRUE /\ paused' = (op[t] = "pause")
    /\ Goto(t, "lock")
    /\ NewEpoch
    /\ UNCHANGED <<device, session, config_kind, streaming, stream_kind,
                   stopping, ctl, locals, holds, driver>>

PauseRefuse(t) ==
    /\ pc[t] = "toggle" /\ ~MayPause(t)
    /\ Finish(t)
    /\ UNCHANGED <<slot, ctl, tokens, holds, driver, evidence>>

\* Slip: a running stream is no reason to refuse (IdleOnlyCalls).
RefusedWhenGone(o, k) ==
    \/ ~present
    \/ o = "start" /\ (paused \/ config_kind # k)

\* Slip: a start looks at the stream alone (PausedMeansStopped).
RefusedUnlessAtRest(o, k) ==
    \/ ~present
    \/ o = "start" /\ (config_kind # k \/ streaming)
    \/ o \in {"configure", "set_ppm", "get_health"} /\ streaming
    \/ o = "retune" /\ streaming /\ stream_kind # 1
    \/ o = "stop" /\ streaming /\ stream_kind # k

\* What the section after the control lock refuses, besides values out of
\* range and operations the driver lacks.
Refused(o, k) ==
    \/ ~present
    \/ o = "start" /\ (paused \/ config_kind # k \/ streaming)
    \/ o \in {"configure", "set_ppm", "get_health"} /\ streaming
    \/ o = "retune" /\ streaming /\ stream_kind # 1
    \/ o = "stop" /\ streaming /\ stream_kind # k
MayLack == {"configure", "set_gain", "set_ppm", "retune", "get_health"}

\* session_leave_control counts what the IQ control calls came back with.
Counted(o, k) ==
    k = 1 /\ o \in {"configure", "set_gain", "set_ppm", "start", "retune"}
Leaving(t) == IF Counted(op[t], kind[t]) THEN "count" ELSE "leave"

CheckRefuse(t) ==
    /\ op[t] \in SessionOps
    /\ Refused(op[t], kind[t]) \/ op[t] \in MayLack
    /\ ret' = [ret EXCEPT ![t] = "other"]
    /\ Goto(t, IF op[t] = "stop" THEN "commit" ELSE Leaving(t))
    /\ UNCHANGED <<stopping, evidence>>

CheckPass(t) ==
    /\ op[t] \in SessionOps /\ ~Refused(op[t], kind[t])
    /\ stopping' = (op[t] = "stop" \/ stopping)
    /\ IF op[t] = "stop" /\ ~streaming
       THEN Goto(t, "commit") /\ UNCHANGED evidence
       ELSE Goto(t, "driver") /\ TouchControl
    /\ UNCHANGED ret

CheckPause(t) ==
    /\ op[t] \in PauseOps
    /\ stopping' = (op[t] = "pause")
    /\ IF op[t] = "pause" /\ present /\ streaming
       THEN Goto(t, "driver") /\ TouchControl
       ELSE Goto(t, "commit") /\ UNCHANGED evidence
    /\ UNCHANGED ret

Check(t) ==
    /\ pc[t] = "check"
    /\ CheckRefuse(t) \/ CheckPass(t) \/ CheckPause(t)
    /\ UNCHANGED <<device, session, config_kind, streaming, stream_kind,
                   paused, pause_pending, counts, ctl, tokens, op, kind, who,
                   flag, holds, driver>>

\* The driver callback returns r.  A start that succeeds leaves a stream
\* running, a stop that succeeds none; a retune stops the stream around the
\* tune and may fail to start it again.
RunningAfter(o, k, r) ==
    CASE o = "start" /\ r = "ok"             -> {k}
      [] o \in {"stop", "pause"} /\ r = "ok" -> {0}
      [] o = "retune" /\ r # "ok"            -> {0, running}
      [] OTHER                               -> {running}

Commits(o, r) ==
    \/ o \in {"stop", "pause"}
    \/ o \in {"configure", "set_gain", "start", "retune"} /\ r = "ok"

DriverReturn(t) ==
    /\ pc[t] = "driver"
    /\ \E r \in {"ok", "io", "other"} :
        /\ r = "io" => control_io_errors < MaxIo
        /\ ret' = [ret EXCEPT ![t] = r]
        /\ running' \in RunningAfter(op[t], kind[t], r)
        /\ orphan' = (orphan /\ running' # 0 /\ ~(op[t] = "start" /\ r = "ok"))
        /\ Goto(t, IF Commits(op[t], r) THEN "commit" ELSE Leaving(t))
    /\ UNCHANGED <<slot, ctl, tokens, op, kind, who, flag, holds, excuse,
                   evidence>>

\* The section after the driver.  What it stores of the tuning is left out.
CommitConfigure(t) ==
    /\ op[t] = "configure" /\ present
    /\ config_kind' = kind[t]
    /\ UNCHANGED <<streaming, stream_kind, paused, pause_pending, stopping>>

CommitStart(t) ==
    /\ op[t] = "start" /\ present
    /\ streaming' = TRUE /\ stopping' = FALSE /\ stream_kind' = kind[t]
    /\ UNCHANGED <<config_kind, paused, pause_pending>>

CommitStop(t) ==
    /\ op[t] = "stop" /\ present
    /\ stopping' = FALSE
    /\ streaming' = (streaming /\ ret[t] # "ok")
    /\ stream_kind' = IF ret[t] = "ok" THEN 0 ELSE stream_kind
    /\ UNCHANGED <<config_kind, paused, pause_pending>>

\* Slip: a pause does not take its stopping flag back (StoppingHasCause).
CommitPauseStopping(t) ==
    /\ op[t] \in PauseOps
    /\ pause_pending' = FALSE
    /\ streaming' = (streaming /\ ~(ret[t] = "ok" /\ op[t] = "pause"))
    /\ stream_kind' = IF ret[t] = "ok" /\ op[t] = "pause" THEN 0
                      ELSE stream_kind
    /\ paused' = (paused /\ ret[t] = "ok")
    /\ UNCHANGED <<config_kind, stopping>>

CommitPause(t) ==
    /\ op[t] \in PauseOps
    /\ stopping' = FALSE /\ pause_pending' = FALSE
    /\ streaming' = (streaming /\ ~(ret[t] = "ok" /\ op[t] = "pause"))
    /\ stream_kind' = IF ret[t] = "ok" /\ op[t] = "pause" THEN 0
                      ELSE stream_kind
    /\ paused' = (paused /\ ret[t] = "ok")
    /\ UNCHANGED config_kind

CommitNothing(t) ==
    /\ \/ op[t] \in {"set_gain", "retune"}
       \/ op[t] \in {"configure", "start", "stop"} /\ ~present
    /\ UNCHANGED stream

Commit(t) ==
    /\ pc[t] = "commit"
    /\ \/ CommitConfigure(t) \/ CommitStart(t) \/ CommitStop(t)
       \/ CommitPause(t) \/ CommitNothing(t)
    /\ Goto(t, Leaving(t))
    /\ UNCHANGED <<device, session, counts, ctl, tokens, locals, holds,
                   driver, evidence>>

\* session_leave_control, its own section.
Count(t) ==
    /\ pc[t] = "count"
    /\ control_io_errors' =
           CASE present /\ ret[t] = "io" -> control_io_errors + 1
             [] present /\ ret[t] = "ok" -> 0
             [] OTHER                    -> control_io_errors
    /\ Goto(t, "leave")
    /\ UNCHANGED <<device, session, stream, in_flight, waiters,
                   diagnostic_controls, ctl, tokens, locals, holds, driver,
                   evidence>>

\* session_leave of a control call; the control lock is given after it.
Leave(t) ==
    /\ pc[t] = "leave"
    /\ CountOut(1)
    /\ Goto(t, "unlock")
    /\ UNCHANGED <<device, session, stream, ctl, locals, holds, driver,
                   evidence>>

-----------------------------------------------------------------------------
\* Reads, outside the control lock.  An observed read takes the context it
\* ran in before and after; a receipt is known when nothing changed.

Forget(t) ==
    controlled' = controlled \ {t} /\ recovered' = recovered \ {t}
    /\ stopped' = stopped \ {t} /\ tuned' = tuned \ {t}

StreamUsable(t, k) == SessionUsable(t, k) /\ ~paused /\ streaming

ReadEnter(t) ==
    \E o \in {"read", "observe"} : \E k \in {1, 2} :
        /\ Begin(t, o) /\ (o = "observe" => k = 1)
        /\ StreamUsable(t, k)
        /\ CountIn(0)
        /\ Start(t, o, "sample") /\ kind' = [kind EXCEPT ![t] = k]
        /\ receipts' = receipts \ {t} /\ Forget(t)
        /\ UNCHANGED <<device, session, stream, ctl, ret, who, flag, holds,
                       driver, fresh>>

\* Driver calls that run as the block is sampled overlap it already.
Overlap(t) ==
    /\ controlled' = controlled \cup {u \in {t} : At({"driver"}) # {}}
    /\ recovered' = recovered \cup {u \in {t} : At({"recover"}) # {}}
    /\ stopped' = stopped \cup {u \in {t} : At({"stopRel"}) # {}}
    /\ tuned' = tuned \cup {u \in {t} : At({"fe"}) # {}}

AfterRead(t) == IF op[t] = "observe" THEN "receipt" ELSE "leaveRead"

Sample(t) ==
    /\ pc[t] = "sample"
    /\ flag' = [flag EXCEPT ![t] = diagnostic_controls = 0 /\ ~stopping]
    /\ IF stream_kind = kind[t]
       THEN Goto(t, "reading") /\ UNCHANGED ret
       ELSE Goto(t, AfterRead(t)) /\ ret' = [ret EXCEPT ![t] = "other"]
    /\ IF op[t] = "observe"
       THEN fresh' = fresh \cup {t} /\ Overlap(t)
       ELSE UNCHANGED <<fresh, overlaps>>
    /\ UNCHANGED <<slot, ctl, tokens, op, kind, who, holds, driver, receipts>>

ReadReturn(t) ==
    /\ pc[t] = "reading"
    /\ \E r \in {"ok", "other"} : ret' = [ret EXCEPT ![t] = r]
    /\ Goto(t, AfterRead(t))
    /\ UNCHANGED <<slot, ctl, tokens, op, kind, who, flag, holds, driver,
                   evidence>>

\* Slip: only what is under way counts, not what is over (RecheckTruth).
SameContextNow(t) == present /\ ~stopping /\ diagnostic_controls = 0

SameContext(t) ==
    present /\ ~stopping /\ diagnostic_controls = 0 /\ t \in fresh

\* Slip: the context before the block is not looked at (ReceiptTruth).
KnownAfterwards(t) == SameContext(t) /\ ret[t] = "ok"

\* r->known; the transport's own evidence is known and unchanged, or not.
Known(t) == flag[t] /\ SameContext(t) /\ ret[t] = "ok"

Receipt(t) ==
    /\ pc[t] = "receipt"
    /\ \/ /\ Known(t)
          /\ receipts' = receipts \cup {t}
          /\ UNCHANGED <<fresh, overlaps>>
       \/ fresh' = fresh \ {t} /\ Forget(t) /\ UNCHANGED receipts
    /\ Goto(t, "leaveRead")
    /\ UNCHANGED <<slot, ctl, tokens, locals, holds, driver>>

\* session_leave of a read.
LeaveRead(t) ==
    /\ pc[t] = "leaveRead"
    /\ CountOut(0)
    /\ Finish(t)
    /\ UNCHANGED <<device, session, stream, ctl, holds, driver, evidence>>

\* ls_radio_iq_receipt_current.
RecheckEnter(t) ==
    /\ Begin(t, "recheck") /\ t \in receipts
    /\ StreamUsable(t, 1)
    /\ CountIn(0)
    /\ Start(t, "recheck", "recheck")
    /\ UNCHANGED <<device, session, stream, ctl, kind, ret, who, flag, holds,
                   driver, evidence>>

RecheckLeave(t) ==
    /\ pc[t] = "recheck"
    /\ CountOut(0)
    /\ Finish(t)
    /\ IF SameContext(t) THEN UNCHANGED evidence
       ELSE /\ receipts' = receipts \ {t} /\ fresh' = fresh \ {t}
            /\ Forget(t)
    /\ UNCHANGED <<device, session, stream, ctl, holds, driver>>

-----------------------------------------------------------------------------
\* A call begins, or one under way goes on.

Enter(t) ==
    \/ Register(t) \/ Unregister(t) \/ Recover(t) \/ FeEnter(t)
    \/ Acquire(t) \/ Release(t)
    \/ ControlEnter(t) \/ Look(t) \/ ReadEnter(t) \/ RecheckEnter(t)

GoOn(t) ==
    \/ CancelUnregister(t) \/ EndUnregister(t)
    \/ RecoverReturn(t) \/ EndRecover(t)
    \/ WaitCheck(t) \/ TakeQuiesced(t) \/ Woken(t)
    \/ GiveControl(t) \/ FeReturn(t) \/ FeLeave(t)
    \/ CancelRelease(t) \/ StopRelease(t) \/ LeaveRelease(t)
    \/ EndRelease(t) \/ Return(t)
    \/ PauseEnter(t) \/ PauseRefuse(t)
    \/ Check(t) \/ DriverReturn(t) \/ Commit(t) \/ Count(t) \/ Leave(t)
    \/ Sample(t) \/ ReadReturn(t) \/ Receipt(t) \/ LeaveRead(t)
    \/ RecheckLeave(t)

Next == \E t \in Task : Enter(t) \/ TakeControl(t) \/ GoOn(t)

Spec == Init /\ [][Next]_vars

(***************************************************************************)
(* A task in a call is scheduled again, and every driver callback returns: *)
(* cancel_read "must make a blocked read return promptly" and the others   *)
(* are USB transfers with timeouts.  FreeRTOS hands a mutex to its waiters *)
(* in order, so one that keeps waiting for it gets it.  Nobody has to      *)
(* begin a call.                                                           *)
(***************************************************************************)
Fairness == \A t \in Task : WF_vars(GoOn(t)) /\ SF_vars(TakeControl(t))

FairSpec == Spec /\ Fairness

-----------------------------------------------------------------------------
\* Properties.

\* No driver callback runs with a context the driver has taken back: detach
\* clears driver_ctx and ops only once every call that passed the presence
\* check has left, and nobody goes in after it.
DriverAlive == At(DriverPc) # {} => driver_ctx

\* The counters the waits rest on are exact: in_flight and
\* diagnostic_controls count the tasks inside, waiters the tasks in
\* wait_quiesced, and the reset in register never drops a task.
Accounting ==
    /\ in_flight = Cardinality(InFlight)
    /\ diagnostic_controls = Cardinality(InControl)
    /\ waiters = Cardinality(At(WaiterPc))

\* A task blocked on slot->quiesced always has a token to wake it once the
\* slot is quiet, however many stale tokens, waiters and re-registrations
\* came before.
NoLostWakeup == in_flight = 0 => tokens >= Cardinality(Blocked)

\* stopping turns every read into STOPPED, so it never stays set on a
\* present endpoint that nobody is stopping, pausing or releasing.
StoppingHasCause ==
    present /\ stopping =>
        \E t \in Task :
            \/ op[t] \in {"stop", "pause"} /\ pc[t] \in ControlPc
            \/ op[t] = "release" /\ pc[t] # "return"

\* Once a dashboard stop has finished, the registry has no stream until it is
\* allowed again, whatever starts were under way when it came, and the driver
\* runs none but one that had outlived its lease before: the registry does
\* not know of that one, and stops nothing.
PausedMeansStopped ==
    present /\ paused /\ ~pause_pending =>
        ~streaming /\ (running = 0 \/ orphan)

\* A dashboard stop reaches the driver only while the owner it named holds
\* the endpoint, though the owner was checked before the control lock.
PauseHitsNamedOwner ==
    \A t \in Task : pc[t] = "driver" /\ op[t] = "pause" =>
        owner = who[t]

\* A released receiver streams on only if its driver refused the stop, or
\* if the release overlapped a start, whose stream it could not see.
NoOrphanStream ==
    present /\ ~leased /\ running # 0 => excuse # {}

\* The calls the driver takes only at rest: configure, start, a reference
\* correction, the diagnostic counters.
AtRest(t) ==
    pc[t] = "driver" /\ op[t] \in {"configure", "start", "set_ppm", "get_health"}

\* Such a call meets no stream of a lease that lasts: what the check under the
\* control lock made of streaming is true of the driver.  It can meet a stream
\* that outlived an earlier lease, and no other; NoOrphanStream says how one
\* comes to be, AtRestAlways that the code does let it happen.
IdleOnlyCalls == \A t \in Task : AtRest(t) => running = 0 \/ orphan

\* A receipt is stamped known only when no control call reached the driver
\* during its block, whoever held and recovered the receiver before.
ReceiptTruth ==
    \A t \in Task : pc[t] = "receipt" /\ Known(t) =>
        t \notin controlled

\* ls_radio_iq_receipt_current vouches for a block only when no control call
\* has reached the driver since it was sampled.
RecheckTruth ==
    \A t \in Task : pc[t] = "recheck" /\ SameContext(t) =>
        t \notin controlled

\* A detach always ends: every call inside the driver leaves and the last
\* one wakes it.
DetachEnds ==
    \A t \in Task : pc[t] = "cancelUnreg" ~> pc[t] = "idle"

\* A release always ends, unless front-end calls keep coming: they need no
\* lease and are not refused while one closes.
ReleaseEnds ==
    \A t \in Task :
        \/ op[t] = "release" ~> op[t] # "release"
        \/ []<>(At(FePc) # {})

\* A task in a call has a step of its own: it waits neither for the control
\* lock nor for a token.
CanGo(t) ==
    /\ pc[t] # "idle"
    /\ pc[t] \in LockPc => ctl = NoTask
    /\ pc[t] = "blocked" => tokens > 0

\* No wait is for somebody who waits in turn: whoever keeps the control lock
\* from another can go on, and a task blocked in wait_quiesced is kept there
\* by a call inside that can go on or waits for the lock alone.
WaitsEnd ==
    \A t \in Task :
        /\ pc[t] \in LockPc /\ ~CanGo(t) => CanGo(ctl)
        /\ pc[t] = "blocked" /\ ~CanGo(t) =>
               \E u \in InFlight :
                   CanGo(u) \/ (pc[u] \in LockPc /\ CanGo(ctl))

-----------------------------------------------------------------------------
\* What radio_endpoint.h says and the code does not keep: TLC finds each of
\* these violated (README, 3.4).

\* Recovery runs while the endpoint is idle, as radio_endpoint.h says of it:
\* "It is only called while the endpoint is idle."
RecoverIdle == At({"recover"}) # {} => running = 0

\* IdleOnlyCalls of every stream; radio_endpoint.h of a reference correction:
\* "Not while streaming".  After a release whose stop the driver refused, or
\* that overlapped a start, the calls of the next lease meet the old stream.
AtRestAlways == \A t \in Task : AtRest(t) => running = 0

\* ReceiptTruth of the front-end controls, which set the tuner as well;
\* radio_endpoint.h: "Context changes include attempted controls (unknown
\* driver side effects)".
ReceiptSeesFrontEnd ==
    \A t \in Task : pc[t] = "receipt" /\ Known(t) =>
        t \notin tuned

\* ReceiptTruth of a recovery that got the control lock late, when the
\* receiver was leased and streaming again.
ReceiptSeesRecovery ==
    \A t \in Task : pc[t] = "receipt" /\ Known(t) =>
        t \notin recovered

\* ReceiptTruth of the stop a release sends; radio_endpoint.h: "A control in
\* flight or token exhaustion makes the context unknown".
ReceiptSeesRelease ==
    \A t \in Task : pc[t] = "receipt" /\ Known(t) =>
        t \notin stopped

-----------------------------------------------------------------------------
\* The slot implements the abstract lease.

Phase == IF present
         THEN IF removing THEN "recovering" ELSE "present"
         ELSE IF removing THEN "removing" ELSE "absent"
LeaseState == IF ~leased THEN "free"
              ELSE IF closing THEN "closing" ELSE "held"
Users == At(ControlPc \cup ReadPc \cup ReleasePc)

L == INSTANCE EndpointLease WITH phase <- Phase, lease <- LeaseState,
                                 users <- Users, guests <- At(FePc)

\* Every step of the slot is a step of the lease or none of its business.
ImplementsLease == L!LeaseSpec

-----------------------------------------------------------------------------
\* The inductive invariant: who may be where, given the slot's flags.

Releasing(t) == \/ pc[t] \in ReleasePc \cup {"endRel"}
                \/ pc[t] \in WaitPc /\ op[t] = "release"
Detaching(t) == \/ pc[t] \in UnregPc
                \/ pc[t] \in WaitPc /\ op[t] = "unregister"
Recovering(t) == pc[t] \in RecoverPc

FlagsAgree ==
    /\ leased = active
    /\ closing => leased
    /\ driver_ctx = (present \/ removing)

Roles ==
    \A t \in Task :
        /\ pc[t] \in WaitPc => op[t] \in {"release", "unregister"}
        /\ pc[t] \in ReleasePc \cup {"endRel"} => op[t] = "release"
        /\ pc[t] \in UnregPc => op[t] = "unregister"
        /\ Releasing(t) => closing
        /\ Detaching(t) => ~present /\ removing
        /\ Recovering(t) => present /\ removing

OneOfEach ==
    \A t, u \in Task :
        /\ Releasing(t) /\ Releasing(u) => t = u
        /\ Detaching(t) /\ Detaching(u) => t = u
        /\ Recovering(t) /\ Recovering(u) => t = u

\* What wait_quiesced established still holds where it is relied upon.
Quiet ==
    \A t, u \in Task :
        /\ ~present /\ ~removing => pc[u] \notin InFlightPc
        /\ pc[t] = "endUnreg" => pc[u] \notin InFlightPc
        /\ pc[t] = "endRel" =>
               pc[u] \notin ControlPc \cup ReadPc \cup ReleasePc

IInv == TypeOK /\ Accounting /\ FlagsAgree /\ Roles /\ OneOfEach /\ Quiet
=============================================================================
