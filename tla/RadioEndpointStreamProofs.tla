----------------------- MODULE RadioEndpointStreamProofs -----------------------
(***************************************************************************)
(* The stream of one slot: who may run it, stop it, pause it and speak for *)
(* it, for every set of tasks, apps and calls.                             *)
(***************************************************************************)
EXTENDS RadioEndpointProofs

\* A call under the control lock.
LockedPc == {"check", "driver", "commit", "count", "leave", "unlock",
             "stopRel", "unlockRel", "recover", "unlockRec", "fe", "unlockFe"}

\* Who is under the control lock holds it, so that only one is.
LockKept == \A t \in Task : pc[t] \in LockedPc => ctl = t

\* ... and who holds it is under it, never waiting for anything.
HolderKept == ctl # NoTask => pc[ctl] \in LockedPc

\* What a task is doing, by where it is.
OpsKept ==
    \A t \in Task :
        /\ pc[t] \in ControlPc => op[t] \in SessionOps \cup PauseOps
        /\ pc[t] = "toggle" => op[t] \in PauseOps

\* A call that needs a lease has one; a device that is gone does not stream.
LeaseKept ==
    /\ \A t \in Task :
        pc[t] \in ControlPc /\ op[t] \in SessionOps => leased
    /\ streaming => present

\* From its entry to its commit a pause keeps the slot as it found it: it is
\* the only one, and the owner it named still owns the lease.
Pausing(t) ==
    op[t] \in PauseOps /\ pc[t] \in {"lock", "check", "driver", "commit"}
PauseKept ==
    \A t \in Task : Pausing(t) =>
        /\ pause_pending /\ (paused <=> op[t] = "pause")
        /\ op[t] = "pause" => owner = who[t]
        /\ \A u \in Task : Pausing(u) => t = u

\* The driver is at rest, or runs what an earlier lease left.
Excused == running = 0 \/ orphan

\* Only a refused stop or an overlapped start leaves a stream behind.
OrphanKept == present /\ orphan => excuse # {}

\* A stop that has succeeded and is yet to be noted.
StopDone ==
    \A t \in Task :
        /\ pc[t] = "commit" /\ op[t] \in {"stop", "pause"} /\ ret[t] = "ok"
        => running = 0 \/ ~streaming

\* The driver streams only under a lease, and the slot says so, except
\* between a start and its commit.
Starting == \E t \in Task : pc[t] = "commit" /\ op[t] = "start"
Streams == present /\ ~Excused => leased /\ (streaming \/ Starting)

\* A release that need not stop the receiver, or has, leaves it at rest.
StopAhead(t) ==
    \/ pc[t] \in {"lockRel", "stopRel"}
    \/ pc[t] = "cancelRel" /\ flag[t]
Released ==
    \A t \in Task : present /\ Releasing(t) =>
        /\ StartInFlight => excuse # {}
        /\ StopAhead(t) \/ running = 0 \/ excuse # {}

\* What the check found at rest is at rest in the driver.
IdleKept ==
    \A t \in Task :
        /\ pc[t] = "driver"
        /\ op[t] \in {"configure", "start", "set_ppm", "get_health"}
        => Excused

\* After a pause no start is past its check.
PausedStill ==
    paused /\ ~pause_pending =>
        /\ \A t \in Task : op[t] = "start" => pc[t] \notin {"driver", "commit"}
        /\ present => ~streaming /\ Excused

\* Who set stopping is still there to take it back.
Stopper(t) ==
    \/ op[t] \in {"stop", "pause"} /\ pc[t] \in {"driver", "commit"}
    \/ Releasing(t)
StopCaused == present /\ stopping => \E t \in Task : Stopper(t)

SInv == /\ LockKept /\ OpsKept /\ LeaseKept /\ PauseKept /\ StopDone
        /\ OrphanKept /\ Streams /\ Released /\ IdleKept /\ PausedStill /\ StopCaused

\* A block of the slot's epoch that was clean at its sample, or is no longer
\* being read, has met no control call, and none is under way.
Watched(t) == pc[t] \in {"reading", "receipt"} /\ op[t] = "observe"
Vouched ==
    /\ \A t \in Task :
        pc[t] = "sample" /\ op[t] = "observe" => t \notin controlled \cup receipts
    /\ \A t \in Task :
        t \in fresh /\ (Watched(t) => flag[t]) =>
            t \notin controlled /\ \A u \in Task : pc[u] \notin ControlPc

-----------------------------------------------------------------------------
\* Where a task goes when it gives the control lock.
LEMMA GivesControl ==
    ASSUME NEW t \in Task, GiveControl(t)
    PROVE  \E p \in {"idle", "leaveRel", "endRec", "leaveFe"} : Goto(t, p)
<1>1. CASE pc[t] = "unlock"
  BY <1>1 DEF GiveControl, Finish
<1>2. CASE pc[t] = "unlockRel"
  BY <1>2 DEF GiveControl, AfterUnlock
<1>3. CASE pc[t] = "unlockRec"
  BY <1>3 DEF GiveControl, AfterUnlock
<1>4. CASE pc[t] = "unlockFe"
  BY <1>4 DEF GiveControl, AfterUnlock
<1> QED
  BY <1>1, <1>2, <1>3, <1>4 DEF GiveControl

\* No control call is counted when none is there.
LEMMA NoControl ==
    ASSUME IInv, diagnostic_controls = 0
    PROVE  \A t \in Task : pc[t] \notin ControlPc
<1>1. Cardinality(AtOf(pc, ControlPc)) = 0
  BY DEF IInv, Accounting, InControl, At
<1> QED
  BY <1>1, EmptyCount DEF IInv, TypeOK, CallTypes

\* The control lock is taken free and given by its holder.
LEMMA LockStep ==
    ASSUME IInv, LockKept, NEW t \in Task,
           Enter(t) \/ TakeControl(t) \/ GoOn(t)
    PROVE  LockKept'
<1>0. LockKept /\ NoTask \notin Task
  BY TaskAssumption
<1>1. pc \in [Task -> Pc] /\ ctl \in Task \cup {NoTask}
  BY DEF IInv, TypeOK, CallTypes, SetTypes
<1> USE DEF slot, device, session, stream, locals, Goto, Start, Finish, Begin,
            LockKept, LockedPc
<1>Register. CASE Register(t)
  BY <1>0, <1>1, <1>Register, SMT DEF Register
<1>Unregister. CASE Unregister(t)
  BY <1>0, <1>1, <1>Unregister, SMT DEF Unregister
<1>Recover. CASE Recover(t)
  BY <1>0, <1>1, <1>Recover, SMT DEF Recover
<1>FeEnter. CASE FeEnter(t)
  BY <1>0, <1>1, <1>FeEnter, SMT DEF FeEnter
<1>Acquire. CASE Acquire(t)
  BY <1>0, <1>1, <1>Acquire, SMT DEF Acquire
<1>Release. CASE Release(t)
  BY <1>0, <1>1, <1>Release, SMT DEF Release
<1>ControlEnter. CASE ControlEnter(t)
  BY <1>0, <1>1, <1>ControlEnter, SMT DEF ControlEnter, SessionUsable
<1>Look. CASE Look(t)
  BY <1>0, <1>1, <1>Look, SMT DEF Look
<1>ReadEnter. CASE ReadEnter(t)
  BY <1>0, <1>1, <1>ReadEnter, SMT DEF ReadEnter, SessionUsable, StreamUsable
<1>RecheckEnter. CASE RecheckEnter(t)
  BY <1>0, <1>1, <1>RecheckEnter, SMT DEF RecheckEnter, SessionUsable,
      StreamUsable
<1>TakeControl. CASE TakeControl(t)
  BY <1>0, <1>1, <1>TakeControl, SMT DEF TakeControl, AfterLock, LockPc
<1>CancelUnregister. CASE CancelUnregister(t)
  BY <1>0, <1>1, <1>CancelUnregister, SMT DEF CancelUnregister
<1>EndUnregister. CASE EndUnregister(t)
  BY <1>0, <1>1, <1>EndUnregister, SMT DEF EndUnregister
<1>RecoverReturn. CASE RecoverReturn(t)
  BY <1>0, <1>1, <1>RecoverReturn, SMT DEF RecoverReturn
<1>EndRecover. CASE EndRecover(t)
  BY <1>0, <1>1, <1>EndRecover, SMT DEF EndRecover
<1>WaitCheck. CASE WaitCheck(t)
  BY <1>0, <1>1, <1>WaitCheck, SMT DEF WaitCheck, AfterWait
<1>TakeQuiesced. CASE TakeQuiesced(t)
  BY <1>0, <1>1, <1>TakeQuiesced, SMT DEF TakeQuiesced
<1>Woken. CASE Woken(t)
  BY <1>0, <1>1, <1>Woken, SMT DEF Woken, AfterWait
<1>GiveControl. CASE GiveControl(t)
  BY <1>0, <1>1, <1>GiveControl, SMT DEF GiveControl, AfterUnlock
<1>FeReturn. CASE FeReturn(t)
  BY <1>0, <1>1, <1>FeReturn, SMT DEF FeReturn
<1>FeLeave. CASE FeLeave(t)
  BY <1>0, <1>1, <1>FeLeave, SMT DEF FeLeave
<1>CancelRelease. CASE CancelRelease(t)
  BY <1>0, <1>1, <1>CancelRelease, SMT DEF CancelRelease
<1>StopRelease. CASE StopRelease(t)
  BY <1>0, <1>1, <1>StopRelease, SMT DEF StopRelease
<1>LeaveRelease. CASE LeaveRelease(t)
  BY <1>0, <1>1, <1>LeaveRelease, SMT DEF LeaveRelease
<1>EndRelease. CASE EndRelease(t)
  BY <1>0, <1>1, <1>EndRelease, SMT DEF EndRelease
<1>Return. CASE Return(t)
  BY <1>0, <1>1, <1>Return, SMT DEF Return
<1>PauseEnter. CASE PauseEnter(t)
  BY <1>0, <1>1, <1>PauseEnter, SMT DEF PauseEnter, MayPause
<1>PauseRefuse. CASE PauseRefuse(t)
  BY <1>0, <1>1, <1>PauseRefuse, SMT DEF PauseRefuse
<1>Check. CASE Check(t)
  BY <1>0, <1>1, <1>Check, SMT DEF Check, CheckRefuse, CheckPass, CheckPause,
      Leaving
<1>DriverReturn. CASE DriverReturn(t)
  BY <1>0, <1>1, <1>DriverReturn, SMT DEF DriverReturn, Leaving
<1>Commit. CASE Commit(t)
  BY <1>0, <1>1, <1>Commit, SMT DEF Commit, Leaving
<1>Count. CASE Count(t)
  BY <1>0, <1>1, <1>Count, SMT DEF Count
<1>Leave. CASE Leave(t)
  BY <1>0, <1>1, <1>Leave, SMT DEF Leave
<1>Sample. CASE Sample(t)
  BY <1>0, <1>1, <1>Sample, SMT DEF Sample, AfterRead
<1>ReadReturn. CASE ReadReturn(t)
  BY <1>0, <1>1, <1>ReadReturn, SMT DEF ReadReturn, AfterRead
<1>Receipt. CASE Receipt(t)
  BY <1>0, <1>1, <1>Receipt, SMT DEF Receipt
<1>LeaveRead. CASE LeaveRead(t)
  BY <1>0, <1>1, <1>LeaveRead, SMT DEF LeaveRead
<1>RecheckLeave. CASE RecheckLeave(t)
  BY <1>0, <1>1, <1>RecheckLeave, SMT DEF RecheckLeave
<1> QED
  BY <1>Register, <1>Unregister, <1>Recover, <1>FeEnter, <1>Acquire,
      <1>Release, <1>ControlEnter, <1>Look, <1>ReadEnter, <1>RecheckEnter,
      <1>TakeControl, <1>CancelUnregister, <1>EndUnregister, <1>RecoverReturn,
      <1>EndRecover, <1>WaitCheck, <1>TakeQuiesced, <1>Woken, <1>GiveControl,
      <1>FeReturn, <1>FeLeave, <1>CancelRelease, <1>StopRelease,
      <1>LeaveRelease, <1>EndRelease, <1>Return, <1>PauseEnter,
      <1>PauseRefuse, <1>Check, <1>DriverReturn, <1>Commit, <1>Count,
      <1>Leave, <1>Sample, <1>ReadReturn, <1>Receipt, <1>LeaveRead,
      <1>RecheckLeave DEF Enter, GoOn

\* Who has the control lock keeps it until a call gives it.
LEMMA HolderStep ==
    ASSUME IInv, HolderKept, NEW t \in Task,
           Enter(t) \/ TakeControl(t) \/ GoOn(t)
    PROVE  HolderKept'
<1>0. HolderKept /\ NoTask \notin Task
  BY TaskAssumption
<1>1. pc \in [Task -> Pc] /\ ctl \in Task \cup {NoTask}
  BY DEF IInv, TypeOK, CallTypes, SetTypes
<1> USE DEF slot, device, session, stream, locals, Goto, Start, Finish, Begin,
            HolderKept, LockedPc
<1>Register. CASE Register(t)
  BY <1>0, <1>1, <1>Register, SMT DEF Register
<1>Unregister. CASE Unregister(t)
  BY <1>0, <1>1, <1>Unregister, SMT DEF Unregister
<1>Recover. CASE Recover(t)
  BY <1>0, <1>1, <1>Recover, SMT DEF Recover
<1>FeEnter. CASE FeEnter(t)
  BY <1>0, <1>1, <1>FeEnter, SMT DEF FeEnter
<1>Acquire. CASE Acquire(t)
  BY <1>0, <1>1, <1>Acquire, SMT DEF Acquire
<1>Release. CASE Release(t)
  BY <1>0, <1>1, <1>Release, SMT DEF Release
<1>ControlEnter. CASE ControlEnter(t)
  BY <1>0, <1>1, <1>ControlEnter, SMT DEF ControlEnter, SessionUsable
<1>Look. CASE Look(t)
  BY <1>0, <1>1, <1>Look, SMT DEF Look
<1>ReadEnter. CASE ReadEnter(t)
  BY <1>0, <1>1, <1>ReadEnter, SMT DEF ReadEnter, SessionUsable, StreamUsable
<1>RecheckEnter. CASE RecheckEnter(t)
  BY <1>0, <1>1, <1>RecheckEnter, SMT DEF RecheckEnter, SessionUsable,
      StreamUsable
<1>TakeControl. CASE TakeControl(t)
  BY <1>0, <1>1, <1>TakeControl, SMT DEF TakeControl, AfterLock, LockPc
<1>CancelUnregister. CASE CancelUnregister(t)
  BY <1>0, <1>1, <1>CancelUnregister, SMT DEF CancelUnregister
<1>EndUnregister. CASE EndUnregister(t)
  BY <1>0, <1>1, <1>EndUnregister, SMT DEF EndUnregister
<1>RecoverReturn. CASE RecoverReturn(t)
  BY <1>0, <1>1, <1>RecoverReturn, SMT DEF RecoverReturn
<1>EndRecover. CASE EndRecover(t)
  BY <1>0, <1>1, <1>EndRecover, SMT DEF EndRecover
<1>WaitCheck. CASE WaitCheck(t)
  BY <1>0, <1>1, <1>WaitCheck, SMT DEF WaitCheck, AfterWait
<1>TakeQuiesced. CASE TakeQuiesced(t)
  BY <1>0, <1>1, <1>TakeQuiesced, SMT DEF TakeQuiesced
<1>Woken. CASE Woken(t)
  BY <1>0, <1>1, <1>Woken, SMT DEF Woken, AfterWait
<1>GiveControl. CASE GiveControl(t)
  BY <1>0, <1>1, <1>GiveControl, SMT DEF GiveControl, AfterUnlock
<1>FeReturn. CASE FeReturn(t)
  BY <1>0, <1>1, <1>FeReturn, SMT DEF FeReturn
<1>FeLeave. CASE FeLeave(t)
  BY <1>0, <1>1, <1>FeLeave, SMT DEF FeLeave
<1>CancelRelease. CASE CancelRelease(t)
  BY <1>0, <1>1, <1>CancelRelease, SMT DEF CancelRelease
<1>StopRelease. CASE StopRelease(t)
  BY <1>0, <1>1, <1>StopRelease, SMT DEF StopRelease
<1>LeaveRelease. CASE LeaveRelease(t)
  BY <1>0, <1>1, <1>LeaveRelease, SMT DEF LeaveRelease
<1>EndRelease. CASE EndRelease(t)
  BY <1>0, <1>1, <1>EndRelease, SMT DEF EndRelease
<1>Return. CASE Return(t)
  BY <1>0, <1>1, <1>Return, SMT DEF Return
<1>PauseEnter. CASE PauseEnter(t)
  BY <1>0, <1>1, <1>PauseEnter, SMT DEF PauseEnter, MayPause
<1>PauseRefuse. CASE PauseRefuse(t)
  BY <1>0, <1>1, <1>PauseRefuse, SMT DEF PauseRefuse
<1>Check. CASE Check(t)
  BY <1>0, <1>1, <1>Check, SMT DEF Check, CheckRefuse, CheckPass, CheckPause,
      Leaving
<1>DriverReturn. CASE DriverReturn(t)
  BY <1>0, <1>1, <1>DriverReturn, SMT DEF DriverReturn, Leaving
<1>Commit. CASE Commit(t)
  BY <1>0, <1>1, <1>Commit, SMT DEF Commit, Leaving
<1>Count. CASE Count(t)
  BY <1>0, <1>1, <1>Count, SMT DEF Count
<1>Leave. CASE Leave(t)
  BY <1>0, <1>1, <1>Leave, SMT DEF Leave
<1>Sample. CASE Sample(t)
  BY <1>0, <1>1, <1>Sample, SMT DEF Sample, AfterRead
<1>ReadReturn. CASE ReadReturn(t)
  BY <1>0, <1>1, <1>ReadReturn, SMT DEF ReadReturn, AfterRead
<1>Receipt. CASE Receipt(t)
  BY <1>0, <1>1, <1>Receipt, SMT DEF Receipt
<1>LeaveRead. CASE LeaveRead(t)
  BY <1>0, <1>1, <1>LeaveRead, SMT DEF LeaveRead
<1>RecheckLeave. CASE RecheckLeave(t)
  BY <1>0, <1>1, <1>RecheckLeave, SMT DEF RecheckLeave
<1> QED
  BY <1>Register, <1>Unregister, <1>Recover, <1>FeEnter, <1>Acquire,
      <1>Release, <1>ControlEnter, <1>Look, <1>ReadEnter, <1>RecheckEnter,
      <1>TakeControl, <1>CancelUnregister, <1>EndUnregister, <1>RecoverReturn,
      <1>EndRecover, <1>WaitCheck, <1>TakeQuiesced, <1>Woken, <1>GiveControl,
      <1>FeReturn, <1>FeLeave, <1>CancelRelease, <1>StopRelease,
      <1>LeaveRelease, <1>EndRelease, <1>Return, <1>PauseEnter,
      <1>PauseRefuse, <1>Check, <1>DriverReturn, <1>Commit, <1>Count,
      <1>Leave, <1>Sample, <1>ReadReturn, <1>Receipt, <1>LeaveRead,
      <1>RecheckLeave DEF Enter, GoOn

\* A call stays the call it is.
LEMMA OpsStep ==
    ASSUME IInv, OpsKept, NEW t \in Task,
           Enter(t) \/ TakeControl(t) \/ GoOn(t)
    PROVE  OpsKept'
<1>0. OpsKept
  OBVIOUS
<1>1. /\ pc \in [Task -> Pc] /\ ctl \in Task \cup {NoTask}
      /\ op \in [Task -> Ops \cup PauseOps \cup {"none"}]
      /\ ret \in [Task -> {"ok", "io", "other"}]
      /\ flag \in [Task -> BOOLEAN]
      /\ who \in [Task -> Owner \cup {NoOwner}]
  BY DEF IInv, TypeOK, FlagTypes, CallTypes, SetTypes
<1> USE DEF slot, device, session, stream, locals, Goto, Start, Finish, Begin,
            OpsKept, SessionOps, PauseOps, ControlPc, ReadPc, ReleasePc, FePc,
            WaitPc, RecoverPc, UnregPc
<1>Register. CASE Register(t)
  BY <1>0, <1>1, <1>Register, SMT DEF Register
<1>Unregister. CASE Unregister(t)
  BY <1>0, <1>1, <1>Unregister, SMT DEF Unregister
<1>Recover. CASE Recover(t)
  BY <1>0, <1>1, <1>Recover, SMT DEF Recover
<1>FeEnter. CASE FeEnter(t)
  BY <1>0, <1>1, <1>FeEnter, SMT DEF FeEnter
<1>Acquire. CASE Acquire(t)
  BY <1>0, <1>1, <1>Acquire, SMT DEF Acquire
<1>Release. CASE Release(t)
  BY <1>0, <1>1, <1>Release, SMT DEF Release
<1>ControlEnter. CASE ControlEnter(t)
  BY <1>0, <1>1, <1>ControlEnter, SMT DEF ControlEnter, SessionUsable
<1>Look. CASE Look(t)
  BY <1>0, <1>1, <1>Look, SMT DEF Look
<1>ReadEnter. CASE ReadEnter(t)
  BY <1>0, <1>1, <1>ReadEnter, SMT DEF ReadEnter, SessionUsable, StreamUsable
<1>RecheckEnter. CASE RecheckEnter(t)
  BY <1>0, <1>1, <1>RecheckEnter, SMT DEF RecheckEnter, SessionUsable,
      StreamUsable
<1>TakeControl. CASE TakeControl(t)
  BY <1>0, <1>1, <1>TakeControl, SMT DEF TakeControl, AfterLock, LockPc
<1>CancelUnregister. CASE CancelUnregister(t)
  BY <1>0, <1>1, <1>CancelUnregister, SMT DEF CancelUnregister
<1>EndUnregister. CASE EndUnregister(t)
  BY <1>0, <1>1, <1>EndUnregister, SMT DEF EndUnregister
<1>RecoverReturn. CASE RecoverReturn(t)
  BY <1>0, <1>1, <1>RecoverReturn, SMT DEF RecoverReturn
<1>EndRecover. CASE EndRecover(t)
  BY <1>0, <1>1, <1>EndRecover, SMT DEF EndRecover
<1>WaitCheck. CASE WaitCheck(t)
  BY <1>0, <1>1, <1>WaitCheck, SMT DEF WaitCheck, AfterWait
<1>TakeQuiesced. CASE TakeQuiesced(t)
  BY <1>0, <1>1, <1>TakeQuiesced, SMT DEF TakeQuiesced
<1>Woken. CASE Woken(t)
  BY <1>0, <1>1, <1>Woken, SMT DEF Woken, AfterWait
<1>GiveControl. CASE GiveControl(t)
  BY <1>0, <1>1, <1>GiveControl, SMT DEF GiveControl, AfterUnlock
<1>FeReturn. CASE FeReturn(t)
  BY <1>0, <1>1, <1>FeReturn, SMT DEF FeReturn
<1>FeLeave. CASE FeLeave(t)
  BY <1>0, <1>1, <1>FeLeave, SMT DEF FeLeave
<1>CancelRelease. CASE CancelRelease(t)
  BY <1>0, <1>1, <1>CancelRelease, SMT DEF CancelRelease
<1>StopRelease. CASE StopRelease(t)
  BY <1>0, <1>1, <1>StopRelease, SMT DEF StopRelease
<1>LeaveRelease. CASE LeaveRelease(t)
  BY <1>0, <1>1, <1>LeaveRelease, SMT DEF LeaveRelease
<1>EndRelease. CASE EndRelease(t)
  BY <1>0, <1>1, <1>EndRelease, SMT DEF EndRelease
<1>Return. CASE Return(t)
  BY <1>0, <1>1, <1>Return, SMT DEF Return
<1>PauseEnter. CASE PauseEnter(t)
  BY <1>0, <1>1, <1>PauseEnter, SMT DEF PauseEnter, MayPause
<1>PauseRefuse. CASE PauseRefuse(t)
  BY <1>0, <1>1, <1>PauseRefuse, SMT DEF PauseRefuse
<1>Check. CASE Check(t)
  BY <1>0, <1>1, <1>Check, SMT DEF Check, CheckRefuse, CheckPass, CheckPause,
      Leaving
<1>DriverReturn. CASE DriverReturn(t)
  BY <1>0, <1>1, <1>DriverReturn, SMT DEF DriverReturn, Leaving
<1>Commit. CASE Commit(t)
  BY <1>0, <1>1, <1>Commit, SMT DEF Commit, Leaving
<1>Count. CASE Count(t)
  BY <1>0, <1>1, <1>Count, SMT DEF Count
<1>Leave. CASE Leave(t)
  BY <1>0, <1>1, <1>Leave, SMT DEF Leave
<1>Sample. CASE Sample(t)
  BY <1>0, <1>1, <1>Sample, SMT DEF Sample, AfterRead
<1>ReadReturn. CASE ReadReturn(t)
  BY <1>0, <1>1, <1>ReadReturn, SMT DEF ReadReturn, AfterRead
<1>Receipt. CASE Receipt(t)
  BY <1>0, <1>1, <1>Receipt, SMT DEF Receipt
<1>LeaveRead. CASE LeaveRead(t)
  BY <1>0, <1>1, <1>LeaveRead, SMT DEF LeaveRead
<1>RecheckLeave. CASE RecheckLeave(t)
  BY <1>0, <1>1, <1>RecheckLeave, SMT DEF RecheckLeave
<1> QED
  BY <1>Register, <1>Unregister, <1>Recover, <1>FeEnter, <1>Acquire,
      <1>Release, <1>ControlEnter, <1>Look, <1>ReadEnter, <1>RecheckEnter,
      <1>TakeControl, <1>CancelUnregister, <1>EndUnregister, <1>RecoverReturn,
      <1>EndRecover, <1>WaitCheck, <1>TakeQuiesced, <1>Woken, <1>GiveControl,
      <1>FeReturn, <1>FeLeave, <1>CancelRelease, <1>StopRelease,
      <1>LeaveRelease, <1>EndRelease, <1>Return, <1>PauseEnter,
      <1>PauseRefuse, <1>Check, <1>DriverReturn, <1>Commit, <1>Count,
      <1>Leave, <1>Sample, <1>ReadReturn, <1>Receipt, <1>LeaveRead,
      <1>RecheckLeave DEF Enter, GoOn

\* A control call's lease does not end under it.
LEMMA LeaseKeptStep ==
    ASSUME IInv, OpsKept, LeaseKept, NEW t \in Task,
           Enter(t) \/ TakeControl(t) \/ GoOn(t)
    PROVE  LeaseKept'
<1>0. LeaseKept /\ FlagsAgree /\ Roles /\ Quiet /\ OpsKept
  BY DEF IInv
<1>1. /\ pc \in [Task -> Pc] /\ ctl \in Task \cup {NoTask}
      /\ op \in [Task -> Ops \cup PauseOps \cup {"none"}]
      /\ ret \in [Task -> {"ok", "io", "other"}]
      /\ flag \in [Task -> BOOLEAN]
      /\ who \in [Task -> Owner \cup {NoOwner}]
  BY DEF IInv, TypeOK, FlagTypes, CallTypes, SetTypes
<1>2. {present, leased, streaming, paused, pause_pending, stopping} \subseteq BOOLEAN
  BY DEF IInv, TypeOK, FlagTypes
<1> USE DEF slot, device, session, stream, locals, Goto, Start, Finish, Begin,
            LeaseKept, OpsKept, SessionOps, PauseOps, FlagsAgree, Roles,
            Quiet, Releasing, Detaching, Recovering, InFlightPc, ControlPc,
            ReadPc, ReleasePc, FePc, WaitPc, RecoverPc, UnregPc
<1>Register. CASE Register(t)
  BY <1>0, <1>1, <1>Register, SMT DEF Register
<1>Unregister. CASE Unregister(t)
  BY <1>0, <1>1, <1>Unregister, SMT DEF Unregister
<1>Recover. CASE Recover(t)
  BY <1>0, <1>1, <1>Recover, SMT DEF Recover
<1>FeEnter. CASE FeEnter(t)
  BY <1>0, <1>1, <1>FeEnter, SMT DEF FeEnter
<1>Acquire. CASE Acquire(t)
  BY <1>0, <1>1, <1>Acquire, SMT DEF Acquire
<1>Release. CASE Release(t)
  BY <1>0, <1>1, <1>Release, SMT DEF Release
<1>ControlEnter. CASE ControlEnter(t)
  BY <1>0, <1>1, <1>ControlEnter, SMT DEF ControlEnter, SessionUsable
<1>Look. CASE Look(t)
  BY <1>0, <1>1, <1>Look, SMT DEF Look
<1>ReadEnter. CASE ReadEnter(t)
  BY <1>0, <1>1, <1>ReadEnter, SMT DEF ReadEnter, SessionUsable, StreamUsable
<1>RecheckEnter. CASE RecheckEnter(t)
  BY <1>0, <1>1, <1>RecheckEnter, SMT DEF RecheckEnter, SessionUsable,
      StreamUsable
<1>TakeControl. CASE TakeControl(t)
  BY <1>0, <1>1, <1>TakeControl, SMT DEF TakeControl, AfterLock, LockPc
<1>CancelUnregister. CASE CancelUnregister(t)
  BY <1>0, <1>1, <1>CancelUnregister, SMT DEF CancelUnregister
<1>EndUnregister. CASE EndUnregister(t)
  BY <1>0, <1>1, <1>EndUnregister, SMT DEF EndUnregister
<1>RecoverReturn. CASE RecoverReturn(t)
  BY <1>0, <1>1, <1>RecoverReturn, SMT DEF RecoverReturn
<1>EndRecover. CASE EndRecover(t)
  BY <1>0, <1>1, <1>EndRecover, SMT DEF EndRecover
<1>WaitCheck. CASE WaitCheck(t)
  BY <1>0, <1>1, <1>WaitCheck, SMT DEF WaitCheck, AfterWait
<1>TakeQuiesced. CASE TakeQuiesced(t)
  BY <1>0, <1>1, <1>TakeQuiesced, SMT DEF TakeQuiesced
<1>Woken. CASE Woken(t)
  BY <1>0, <1>1, <1>Woken, SMT DEF Woken, AfterWait
<1>GiveControl. CASE GiveControl(t)
  BY <1>0, <1>1, <1>GiveControl, SMT DEF GiveControl, AfterUnlock
<1>FeReturn. CASE FeReturn(t)
  BY <1>0, <1>1, <1>FeReturn, SMT DEF FeReturn
<1>FeLeave. CASE FeLeave(t)
  BY <1>0, <1>1, <1>FeLeave, SMT DEF FeLeave
<1>CancelRelease. CASE CancelRelease(t)
  BY <1>0, <1>1, <1>CancelRelease, SMT DEF CancelRelease
<1>StopRelease. CASE StopRelease(t)
  BY <1>0, <1>1, <1>StopRelease, SMT DEF StopRelease
<1>LeaveRelease. CASE LeaveRelease(t)
  BY <1>0, <1>1, <1>LeaveRelease, SMT DEF LeaveRelease
<1>EndRelease. CASE EndRelease(t)
  BY <1>0, <1>1, <1>EndRelease, SMT DEF EndRelease
<1>Return. CASE Return(t)
  BY <1>0, <1>1, <1>Return, SMT DEF Return
<1>PauseEnter. CASE PauseEnter(t)
  BY <1>0, <1>1, <1>PauseEnter, SMT DEF PauseEnter, MayPause
<1>PauseRefuse. CASE PauseRefuse(t)
  BY <1>0, <1>1, <1>PauseRefuse, SMT DEF PauseRefuse
<1>Check. CASE Check(t)
  BY <1>0, <1>1, <1>Check, SMT DEF Check, CheckRefuse, CheckPass, CheckPause,
      Leaving
<1>DriverReturn. CASE DriverReturn(t)
  BY <1>0, <1>1, <1>DriverReturn, SMT DEF DriverReturn, Leaving
<1>Commit. CASE Commit(t)
  BY <1>0, <1>1, <1>Commit, <1>2, SMT DEF Commit, Leaving, CommitConfigure,
      CommitStart, CommitStop, CommitPause, CommitNothing
<1>Count. CASE Count(t)
  BY <1>0, <1>1, <1>Count, SMT DEF Count
<1>Leave. CASE Leave(t)
  BY <1>0, <1>1, <1>Leave, SMT DEF Leave
<1>Sample. CASE Sample(t)
  BY <1>0, <1>1, <1>Sample, SMT DEF Sample, AfterRead
<1>ReadReturn. CASE ReadReturn(t)
  BY <1>0, <1>1, <1>ReadReturn, SMT DEF ReadReturn, AfterRead
<1>Receipt. CASE Receipt(t)
  BY <1>0, <1>1, <1>Receipt, SMT DEF Receipt
<1>LeaveRead. CASE LeaveRead(t)
  BY <1>0, <1>1, <1>LeaveRead, SMT DEF LeaveRead
<1>RecheckLeave. CASE RecheckLeave(t)
  BY <1>0, <1>1, <1>RecheckLeave, SMT DEF RecheckLeave
<1> QED
  BY <1>Register, <1>Unregister, <1>Recover, <1>FeEnter, <1>Acquire,
      <1>Release, <1>ControlEnter, <1>Look, <1>ReadEnter, <1>RecheckEnter,
      <1>TakeControl, <1>CancelUnregister, <1>EndUnregister, <1>RecoverReturn,
      <1>EndRecover, <1>WaitCheck, <1>TakeQuiesced, <1>Woken, <1>GiveControl,
      <1>FeReturn, <1>FeLeave, <1>CancelRelease, <1>StopRelease,
      <1>LeaveRelease, <1>EndRelease, <1>Return, <1>PauseEnter,
      <1>PauseRefuse, <1>Check, <1>DriverReturn, <1>Commit, <1>Count,
      <1>Leave, <1>Sample, <1>ReadReturn, <1>Receipt, <1>LeaveRead,
      <1>RecheckLeave DEF Enter, GoOn

\* A pause meets no other, and no change of owner.
LEMMA PauseStep ==
    ASSUME IInv, LockKept, PauseKept, NEW t \in Task,
           Enter(t) \/ TakeControl(t) \/ GoOn(t)
    PROVE  PauseKept'
<1>0. LockKept /\ PauseKept /\ FlagsAgree /\ Roles /\ Quiet
  BY DEF IInv
<1>1. /\ pc \in [Task -> Pc] /\ ctl \in Task \cup {NoTask}
      /\ op \in [Task -> Ops \cup PauseOps \cup {"none"}]
      /\ ret \in [Task -> {"ok", "io", "other"}]
      /\ flag \in [Task -> BOOLEAN]
      /\ who \in [Task -> Owner \cup {NoOwner}]
  BY DEF IInv, TypeOK, FlagTypes, CallTypes, SetTypes
<1> USE DEF slot, device, session, stream, locals, Goto, Start, Finish, Begin,
            LockKept, LockedPc, PauseKept, Pausing, SessionOps, PauseOps,
            FlagsAgree, Roles, Quiet, Releasing, Detaching, Recovering,
            InFlightPc, ControlPc, ReadPc, ReleasePc, FePc, WaitPc, RecoverPc,
            UnregPc
<1>Register. CASE Register(t)
  BY <1>0, <1>1, <1>Register, SMT DEF Register
<1>Unregister. CASE Unregister(t)
  BY <1>0, <1>1, <1>Unregister, SMT DEF Unregister
<1>Recover. CASE Recover(t)
  BY <1>0, <1>1, <1>Recover, SMT DEF Recover
<1>FeEnter. CASE FeEnter(t)
  BY <1>0, <1>1, <1>FeEnter, SMT DEF FeEnter
<1>Acquire. CASE Acquire(t)
  BY <1>0, <1>1, <1>Acquire, SMT DEF Acquire
<1>Release. CASE Release(t)
  BY <1>0, <1>1, <1>Release, SMT DEF Release
<1>ControlEnter. CASE ControlEnter(t)
  BY <1>0, <1>1, <1>ControlEnter, SMT DEF ControlEnter, SessionUsable
<1>Look. CASE Look(t)
  BY <1>0, <1>1, <1>Look, SMT DEF Look
<1>ReadEnter. CASE ReadEnter(t)
  BY <1>0, <1>1, <1>ReadEnter, SMT DEF ReadEnter, SessionUsable, StreamUsable
<1>RecheckEnter. CASE RecheckEnter(t)
  BY <1>0, <1>1, <1>RecheckEnter, SMT DEF RecheckEnter, SessionUsable,
      StreamUsable
<1>TakeControl. CASE TakeControl(t)
  BY <1>0, <1>1, <1>TakeControl, SMT DEF TakeControl, AfterLock, LockPc
<1>CancelUnregister. CASE CancelUnregister(t)
  BY <1>0, <1>1, <1>CancelUnregister, SMT DEF CancelUnregister
<1>EndUnregister. CASE EndUnregister(t)
  BY <1>0, <1>1, <1>EndUnregister, SMT DEF EndUnregister
<1>RecoverReturn. CASE RecoverReturn(t)
  BY <1>0, <1>1, <1>RecoverReturn, SMT DEF RecoverReturn
<1>EndRecover. CASE EndRecover(t)
  BY <1>0, <1>1, <1>EndRecover, SMT DEF EndRecover
<1>WaitCheck. CASE WaitCheck(t)
  BY <1>0, <1>1, <1>WaitCheck, SMT DEF WaitCheck, AfterWait
<1>TakeQuiesced. CASE TakeQuiesced(t)
  BY <1>0, <1>1, <1>TakeQuiesced, SMT DEF TakeQuiesced
<1>Woken. CASE Woken(t)
  BY <1>0, <1>1, <1>Woken, SMT DEF Woken, AfterWait
<1>GiveControl. CASE GiveControl(t)
  <2>1. \E p \in {"idle", "leaveRel", "endRec", "leaveFe"} : Goto(t, p)
    BY <1>GiveControl, GivesControl
  <2>2. \A u \in Task : u # t =>
           pc'[u] = pc[u] /\ op'[u] = op[u] /\ who'[u] = who[u]
    BY <1>1, <1>GiveControl, <2>1 DEF GiveControl
  <2> QED
    BY <1>0, <1>1, <1>GiveControl, <2>1, <2>2, SMT DEF GiveControl
<1>FeReturn. CASE FeReturn(t)
  BY <1>0, <1>1, <1>FeReturn, SMT DEF FeReturn
<1>FeLeave. CASE FeLeave(t)
  BY <1>0, <1>1, <1>FeLeave, SMT DEF FeLeave
<1>CancelRelease. CASE CancelRelease(t)
  BY <1>0, <1>1, <1>CancelRelease, SMT DEF CancelRelease
<1>StopRelease. CASE StopRelease(t)
  BY <1>0, <1>1, <1>StopRelease, SMT DEF StopRelease
<1>LeaveRelease. CASE LeaveRelease(t)
  BY <1>0, <1>1, <1>LeaveRelease, SMT DEF LeaveRelease
<1>EndRelease. CASE EndRelease(t)
  BY <1>0, <1>1, <1>EndRelease, SMT DEF EndRelease
<1>Return. CASE Return(t)
  BY <1>0, <1>1, <1>Return, SMT DEF Return
<1>PauseEnter. CASE PauseEnter(t)
  <2>1. \A u \in Task : ~Pausing(u)
    BY <1>0, <1>PauseEnter DEF PauseEnter, MayPause
  <2>2. \A u \in Task : Pausing(u)' => u = t
    BY <1>1, <1>PauseEnter, <2>1, SMT DEF PauseEnter
  <2>3. op' = op /\ who' = who /\ owner' = owner /\ owner = who[t]
    BY <1>PauseEnter DEF PauseEnter, MayPause
  <2>4. pause_pending' /\ (paused' <=> op[t] = "pause")
    BY <1>PauseEnter DEF PauseEnter
  <2> QED
    BY <2>2, <2>3, <2>4, Zenon DEF PauseKept
<1>PauseRefuse. CASE PauseRefuse(t)
  BY <1>0, <1>1, <1>PauseRefuse, SMT DEF PauseRefuse
<1>Check. CASE Check(t)
  BY <1>0, <1>1, <1>Check, SMT DEF Check, CheckRefuse, CheckPass, CheckPause,
      Leaving
<1>DriverReturn. CASE DriverReturn(t)
  BY <1>0, <1>1, <1>DriverReturn, SMT DEF DriverReturn, Leaving, Counted,
      Commits
<1>Commit. CASE Commit(t)
  BY <1>0, <1>1, <1>Commit, SMT DEF Commit, Leaving, CommitConfigure,
      CommitStart, CommitStop, CommitPause, CommitNothing, Counted
<1>Count. CASE Count(t)
  BY <1>0, <1>1, <1>Count, SMT DEF Count
<1>Leave. CASE Leave(t)
  BY <1>0, <1>1, <1>Leave, SMT DEF Leave
<1>Sample. CASE Sample(t)
  BY <1>0, <1>1, <1>Sample, SMT DEF Sample, AfterRead
<1>ReadReturn. CASE ReadReturn(t)
  BY <1>0, <1>1, <1>ReadReturn, SMT DEF ReadReturn, AfterRead
<1>Receipt. CASE Receipt(t)
  BY <1>0, <1>1, <1>Receipt, SMT DEF Receipt
<1>LeaveRead. CASE LeaveRead(t)
  BY <1>0, <1>1, <1>LeaveRead, SMT DEF LeaveRead
<1>RecheckLeave. CASE RecheckLeave(t)
  BY <1>0, <1>1, <1>RecheckLeave, SMT DEF RecheckLeave
<1> QED
  BY <1>Register, <1>Unregister, <1>Recover, <1>FeEnter, <1>Acquire,
      <1>Release, <1>ControlEnter, <1>Look, <1>ReadEnter, <1>RecheckEnter,
      <1>TakeControl, <1>CancelUnregister, <1>EndUnregister, <1>RecoverReturn,
      <1>EndRecover, <1>WaitCheck, <1>TakeQuiesced, <1>Woken, <1>GiveControl,
      <1>FeReturn, <1>FeLeave, <1>CancelRelease, <1>StopRelease,
      <1>LeaveRelease, <1>EndRelease, <1>Return, <1>PauseEnter,
      <1>PauseRefuse, <1>Check, <1>DriverReturn, <1>Commit, <1>Count,
      <1>Leave, <1>Sample, <1>ReadReturn, <1>Receipt, <1>LeaveRead,
      <1>RecheckLeave DEF Enter, GoOn

\* Nobody starts the receiver between a stop and its commit.
LEMMA StopDoneStep ==
    ASSUME IInv, LockKept, OpsKept, LeaseKept, StopDone, NEW t \in Task,
           Enter(t) \/ TakeControl(t) \/ GoOn(t)
    PROVE  StopDone'
<1>0. LockKept /\ LeaseKept /\ OpsKept /\ StopDone /\ FlagsAgree /\ Roles /\ Quiet
  BY DEF IInv
<1>1. /\ pc \in [Task -> Pc] /\ ctl \in Task \cup {NoTask}
      /\ op \in [Task -> Ops \cup PauseOps \cup {"none"}]
      /\ ret \in [Task -> {"ok", "io", "other"}]
      /\ flag \in [Task -> BOOLEAN]
      /\ who \in [Task -> Owner \cup {NoOwner}]
  BY DEF IInv, TypeOK, FlagTypes, CallTypes, SetTypes
<1> USE DEF slot, device, session, stream, locals, Goto, Start, Finish, Begin,
            driver, LockKept, LockedPc, OpsKept, LeaseKept, StopDone,
            SessionOps, PauseOps, FlagsAgree, Roles, Quiet, Releasing,
            Detaching, Recovering, InFlightPc, ControlPc, ReadPc, ReleasePc,
            FePc, WaitPc, RecoverPc, UnregPc
<1>Register. CASE Register(t)
  BY <1>0, <1>1, <1>Register, SMT DEF Register
<1>Unregister. CASE Unregister(t)
  BY <1>0, <1>1, <1>Unregister, SMT DEF Unregister
<1>Recover. CASE Recover(t)
  BY <1>0, <1>1, <1>Recover, SMT DEF Recover
<1>FeEnter. CASE FeEnter(t)
  BY <1>0, <1>1, <1>FeEnter, SMT DEF FeEnter
<1>Acquire. CASE Acquire(t)
  BY <1>0, <1>1, <1>Acquire, SMT DEF Acquire
<1>Release. CASE Release(t)
  BY <1>0, <1>1, <1>Release, SMT DEF Release
<1>ControlEnter. CASE ControlEnter(t)
  BY <1>0, <1>1, <1>ControlEnter, SMT DEF ControlEnter, SessionUsable
<1>Look. CASE Look(t)
  BY <1>0, <1>1, <1>Look, SMT DEF Look
<1>ReadEnter. CASE ReadEnter(t)
  BY <1>0, <1>1, <1>ReadEnter, SMT DEF ReadEnter, SessionUsable, StreamUsable
<1>RecheckEnter. CASE RecheckEnter(t)
  BY <1>0, <1>1, <1>RecheckEnter, SMT DEF RecheckEnter, SessionUsable,
      StreamUsable
<1>TakeControl. CASE TakeControl(t)
  BY <1>0, <1>1, <1>TakeControl, SMT DEF TakeControl, AfterLock, LockPc
<1>CancelUnregister. CASE CancelUnregister(t)
  BY <1>0, <1>1, <1>CancelUnregister, SMT DEF CancelUnregister
<1>EndUnregister. CASE EndUnregister(t)
  BY <1>0, <1>1, <1>EndUnregister, SMT DEF EndUnregister
<1>RecoverReturn. CASE RecoverReturn(t)
  BY <1>0, <1>1, <1>RecoverReturn, SMT DEF RecoverReturn
<1>EndRecover. CASE EndRecover(t)
  BY <1>0, <1>1, <1>EndRecover, SMT DEF EndRecover
<1>WaitCheck. CASE WaitCheck(t)
  BY <1>0, <1>1, <1>WaitCheck, SMT DEF WaitCheck, AfterWait
<1>TakeQuiesced. CASE TakeQuiesced(t)
  BY <1>0, <1>1, <1>TakeQuiesced, SMT DEF TakeQuiesced
<1>Woken. CASE Woken(t)
  BY <1>0, <1>1, <1>Woken, SMT DEF Woken, AfterWait
<1>GiveControl. CASE GiveControl(t)
  BY <1>0, <1>1, <1>GiveControl, SMT DEF GiveControl, AfterUnlock
<1>FeReturn. CASE FeReturn(t)
  BY <1>0, <1>1, <1>FeReturn, SMT DEF FeReturn
<1>FeLeave. CASE FeLeave(t)
  BY <1>0, <1>1, <1>FeLeave, SMT DEF FeLeave
<1>CancelRelease. CASE CancelRelease(t)
  BY <1>0, <1>1, <1>CancelRelease, SMT DEF CancelRelease
<1>StopRelease. CASE StopRelease(t)
  BY <1>0, <1>1, <1>StopRelease, SMT DEF StopRelease
<1>LeaveRelease. CASE LeaveRelease(t)
  BY <1>0, <1>1, <1>LeaveRelease, SMT DEF LeaveRelease
<1>EndRelease. CASE EndRelease(t)
  BY <1>0, <1>1, <1>EndRelease, SMT DEF EndRelease
<1>Return. CASE Return(t)
  BY <1>0, <1>1, <1>Return, SMT DEF Return
<1>PauseEnter. CASE PauseEnter(t)
  BY <1>0, <1>1, <1>PauseEnter, SMT DEF PauseEnter, MayPause
<1>PauseRefuse. CASE PauseRefuse(t)
  BY <1>0, <1>1, <1>PauseRefuse, SMT DEF PauseRefuse
<1>Check. CASE Check(t)
  BY <1>0, <1>1, <1>Check, SMT DEF Check, CheckRefuse, CheckPass, CheckPause,
      Leaving
<1>DriverReturn. CASE DriverReturn(t)
  BY <1>0, <1>1, <1>DriverReturn, SMT DEF DriverReturn, Leaving, RunningAfter,
      Commits
<1>Commit. CASE Commit(t)
  BY <1>0, <1>1, <1>Commit, SMT DEF Commit, Leaving, CommitConfigure,
      CommitStart, CommitStop, CommitPause, CommitNothing
<1>Count. CASE Count(t)
  BY <1>0, <1>1, <1>Count, SMT DEF Count
<1>Leave. CASE Leave(t)
  BY <1>0, <1>1, <1>Leave, SMT DEF Leave
<1>Sample. CASE Sample(t)
  BY <1>0, <1>1, <1>Sample, SMT DEF Sample, AfterRead
<1>ReadReturn. CASE ReadReturn(t)
  BY <1>0, <1>1, <1>ReadReturn, SMT DEF ReadReturn, AfterRead
<1>Receipt. CASE Receipt(t)
  BY <1>0, <1>1, <1>Receipt, SMT DEF Receipt
<1>LeaveRead. CASE LeaveRead(t)
  BY <1>0, <1>1, <1>LeaveRead, SMT DEF LeaveRead
<1>RecheckLeave. CASE RecheckLeave(t)
  BY <1>0, <1>1, <1>RecheckLeave, SMT DEF RecheckLeave
<1> QED
  BY <1>Register, <1>Unregister, <1>Recover, <1>FeEnter, <1>Acquire,
      <1>Release, <1>ControlEnter, <1>Look, <1>ReadEnter, <1>RecheckEnter,
      <1>TakeControl, <1>CancelUnregister, <1>EndUnregister, <1>RecoverReturn,
      <1>EndRecover, <1>WaitCheck, <1>TakeQuiesced, <1>Woken, <1>GiveControl,
      <1>FeReturn, <1>FeLeave, <1>CancelRelease, <1>StopRelease,
      <1>LeaveRelease, <1>EndRelease, <1>Return, <1>PauseEnter,
      <1>PauseRefuse, <1>Check, <1>DriverReturn, <1>Commit, <1>Count,
      <1>Leave, <1>Sample, <1>ReadReturn, <1>Receipt, <1>LeaveRead,
      <1>RecheckLeave DEF Enter, GoOn

\* No step leaves a receiver running without a lease.
LEMMA StreamsStep ==
    ASSUME IInv, LockKept, OpsKept, LeaseKept, StopDone, Released, Streams,
           NEW t \in Task,
           Enter(t) \/ TakeControl(t) \/ GoOn(t)
    PROVE  Streams'
<1>0. LockKept /\ OpsKept /\ LeaseKept /\ StopDone /\ Released /\ Streams /\ FlagsAgree /\ Roles /\ OneOfEach /\ Quiet
  BY DEF IInv
<1>1. /\ pc \in [Task -> Pc] /\ ctl \in Task \cup {NoTask}
      /\ op \in [Task -> Ops \cup PauseOps \cup {"none"}]
      /\ ret \in [Task -> {"ok", "io", "other"}]
      /\ flag \in [Task -> BOOLEAN]
      /\ who \in [Task -> Owner \cup {NoOwner}]
  BY DEF IInv, TypeOK, FlagTypes, CallTypes, SetTypes
<1>2. {present, leased, closing, streaming, paused, pause_pending, stopping}
        \subseteq BOOLEAN
  BY DEF IInv, TypeOK, FlagTypes
<1> USE DEF slot, device, session, stream, locals, Goto, Start, Finish, Begin,
            driver, LockKept, OpsKept, LeaseKept, StopDone, Released, Streams,
            LockedPc, Excused, Starting, StopAhead, SessionOps, PauseOps,
            FlagsAgree, Roles, OneOfEach, Quiet, Releasing, Detaching,
            Recovering, InFlightPc, ControlPc, ReadPc, ReleasePc, FePc,
            WaitPc, RecoverPc, UnregPc
<1>Register. CASE Register(t)
  BY <1>0, <1>1, <1>Register, SMT DEF Register
<1>Unregister. CASE Unregister(t)
  BY <1>0, <1>1, <1>Unregister, SMT DEF Unregister
<1>Recover. CASE Recover(t)
  BY <1>0, <1>1, <1>Recover, SMT DEF Recover
<1>FeEnter. CASE FeEnter(t)
  BY <1>0, <1>1, <1>FeEnter, SMT DEF FeEnter
<1>Acquire. CASE Acquire(t)
  BY <1>0, <1>1, <1>Acquire, SMT DEF Acquire
<1>Release. CASE Release(t)
  BY <1>0, <1>1, <1>Release, <1>2, SMT DEF Release, StartInFlight
<1>ControlEnter. CASE ControlEnter(t)
  BY <1>0, <1>1, <1>ControlEnter, SMT DEF ControlEnter, SessionUsable
<1>Look. CASE Look(t)
  BY <1>0, <1>1, <1>Look, SMT DEF Look
<1>ReadEnter. CASE ReadEnter(t)
  BY <1>0, <1>1, <1>ReadEnter, SMT DEF ReadEnter, SessionUsable, StreamUsable
<1>RecheckEnter. CASE RecheckEnter(t)
  BY <1>0, <1>1, <1>RecheckEnter, SMT DEF RecheckEnter, SessionUsable,
      StreamUsable
<1>TakeControl. CASE TakeControl(t)
  BY <1>0, <1>1, <1>TakeControl, SMT DEF TakeControl, AfterLock, LockPc
<1>CancelUnregister. CASE CancelUnregister(t)
  BY <1>0, <1>1, <1>CancelUnregister, SMT DEF CancelUnregister
<1>EndUnregister. CASE EndUnregister(t)
  BY <1>0, <1>1, <1>EndUnregister, SMT DEF EndUnregister
<1>RecoverReturn. CASE RecoverReturn(t)
  BY <1>0, <1>1, <1>RecoverReturn, SMT DEF RecoverReturn
<1>EndRecover. CASE EndRecover(t)
  BY <1>0, <1>1, <1>EndRecover, SMT DEF EndRecover
<1>WaitCheck. CASE WaitCheck(t)
  BY <1>0, <1>1, <1>WaitCheck, SMT DEF WaitCheck, AfterWait
<1>TakeQuiesced. CASE TakeQuiesced(t)
  BY <1>0, <1>1, <1>TakeQuiesced, SMT DEF TakeQuiesced
<1>Woken. CASE Woken(t)
  BY <1>0, <1>1, <1>Woken, SMT DEF Woken, AfterWait
<1>GiveControl. CASE GiveControl(t)
  BY <1>0, <1>1, <1>GiveControl, SMT DEF GiveControl, AfterUnlock
<1>FeReturn. CASE FeReturn(t)
  BY <1>0, <1>1, <1>FeReturn, SMT DEF FeReturn
<1>FeLeave. CASE FeLeave(t)
  BY <1>0, <1>1, <1>FeLeave, SMT DEF FeLeave
<1>CancelRelease. CASE CancelRelease(t)
  BY <1>0, <1>1, <1>CancelRelease, SMT DEF CancelRelease
<1>StopRelease. CASE StopRelease(t)
  BY <1>0, <1>1, <1>StopRelease, SMT DEF StopRelease
<1>LeaveRelease. CASE LeaveRelease(t)
  BY <1>0, <1>1, <1>LeaveRelease, SMT DEF LeaveRelease
<1>EndRelease. CASE EndRelease(t)
  <2>1. orphan' \/ running' = 0
    BY <1>EndRelease DEF EndRelease
  <2> QED
    BY <1>0, <1>1, <1>EndRelease, <2>1, SMT DEF EndRelease
<1>Return. CASE Return(t)
  BY <1>0, <1>1, <1>Return, SMT DEF Return
<1>PauseEnter. CASE PauseEnter(t)
  BY <1>0, <1>1, <1>PauseEnter, SMT DEF PauseEnter, MayPause
<1>PauseRefuse. CASE PauseRefuse(t)
  BY <1>0, <1>1, <1>PauseRefuse, SMT DEF PauseRefuse
<1>Check. CASE Check(t)
  BY <1>0, <1>1, <1>Check, SMT DEF Check, CheckRefuse, CheckPass, CheckPause,
      Leaving
<1>DriverReturn. CASE DriverReturn(t)
  <2>1. PICK r \in {"ok", "io", "other"} :
           /\ ret' = [ret EXCEPT ![t] = r]
           /\ running' \in RunningAfter(op[t], kind[t], r)
           /\ orphan' = (orphan /\ running' # 0 /\ ~(op[t] = "start" /\ r = "ok"))
           /\ Goto(t, IF Commits(op[t], r) THEN "commit" ELSE Leaving(t))
    BY <1>DriverReturn DEF DriverReturn
  <2>2. orphan => orphan' \/ running' = 0 \/ (op[t] = "start" /\ r = "ok")
    BY <2>1
  <2>3. /\ UNCHANGED <<slot, op>> /\ pc[t] = "driver"
        /\ running' \in RunningAfter(op[t], kind[t], r)
    BY <2>1, <1>DriverReturn DEF DriverReturn
  <2> QED
    BY <1>0, <1>1, <1>2, <2>1, <2>2, <2>3, SMT DEF Leaving, RunningAfter, Commits
<1>Commit. CASE Commit(t)
  BY <1>0, <1>1, <1>Commit, <1>2, SMT DEF Commit, Leaving, CommitConfigure,
      CommitStart, CommitStop, CommitPause, CommitNothing
<1>Count. CASE Count(t)
  BY <1>0, <1>1, <1>Count, SMT DEF Count
<1>Leave. CASE Leave(t)
  BY <1>0, <1>1, <1>Leave, SMT DEF Leave
<1>Sample. CASE Sample(t)
  BY <1>0, <1>1, <1>Sample, SMT DEF Sample, AfterRead
<1>ReadReturn. CASE ReadReturn(t)
  BY <1>0, <1>1, <1>ReadReturn, SMT DEF ReadReturn, AfterRead
<1>Receipt. CASE Receipt(t)
  BY <1>0, <1>1, <1>Receipt, SMT DEF Receipt
<1>LeaveRead. CASE LeaveRead(t)
  BY <1>0, <1>1, <1>LeaveRead, SMT DEF LeaveRead
<1>RecheckLeave. CASE RecheckLeave(t)
  BY <1>0, <1>1, <1>RecheckLeave, SMT DEF RecheckLeave
<1> QED
  BY <1>Register, <1>Unregister, <1>Recover, <1>FeEnter, <1>Acquire,
      <1>Release, <1>ControlEnter, <1>Look, <1>ReadEnter, <1>RecheckEnter,
      <1>TakeControl, <1>CancelUnregister, <1>EndUnregister, <1>RecoverReturn,
      <1>EndRecover, <1>WaitCheck, <1>TakeQuiesced, <1>Woken, <1>GiveControl,
      <1>FeReturn, <1>FeLeave, <1>CancelRelease, <1>StopRelease,
      <1>LeaveRelease, <1>EndRelease, <1>Return, <1>PauseEnter,
      <1>PauseRefuse, <1>Check, <1>DriverReturn, <1>Commit, <1>Count,
      <1>Leave, <1>Sample, <1>ReadReturn, <1>Receipt, <1>LeaveRead,
      <1>RecheckLeave DEF Enter, GoOn

\* A release sees every stream, or every start that will make one.
LEMMA ReleasedStep ==
    ASSUME IInv, LockKept, OpsKept, LeaseKept, OrphanKept, Streams, Released,
           NEW t \in Task,
           Enter(t) \/ TakeControl(t) \/ GoOn(t)
    PROVE  Released'
<1>0. LockKept /\ OpsKept /\ LeaseKept /\ OrphanKept /\ Streams /\ Released /\ FlagsAgree /\ Roles /\ OneOfEach /\ Quiet
  BY DEF IInv
<1>1. /\ pc \in [Task -> Pc] /\ ctl \in Task \cup {NoTask}
      /\ op \in [Task -> Ops \cup PauseOps \cup {"none"}]
      /\ ret \in [Task -> {"ok", "io", "other"}]
      /\ flag \in [Task -> BOOLEAN]
      /\ who \in [Task -> Owner \cup {NoOwner}]
  BY DEF IInv, TypeOK, FlagTypes, CallTypes, SetTypes
<1>2. {present, leased, closing, streaming, paused, pause_pending, stopping}
        \subseteq BOOLEAN
  BY DEF IInv, TypeOK, FlagTypes
<1> USE DEF slot, device, session, stream, locals, Goto, Start, Finish, Begin,
            driver, LockKept, OpsKept, LeaseKept, OrphanKept, Streams, Released,
            LockedPc, Excused, Starting, StartInFlight, StopAhead, SessionOps, PauseOps,
            FlagsAgree, Roles, OneOfEach, Quiet, Releasing, Detaching,
            Recovering, InFlightPc, ControlPc, ReadPc, ReleasePc, FePc,
            WaitPc, RecoverPc, UnregPc
<1>Register. CASE Register(t)
  BY <1>0, <1>1, <1>Register, SMT DEF Register
<1>Unregister. CASE Unregister(t)
  BY <1>0, <1>1, <1>Unregister, SMT DEF Unregister
<1>Recover. CASE Recover(t)
  BY <1>0, <1>1, <1>Recover, SMT DEF Recover
<1>FeEnter. CASE FeEnter(t)
  BY <1>0, <1>1, <1>FeEnter, SMT DEF FeEnter
<1>Acquire. CASE Acquire(t)
  BY <1>0, <1>1, <1>Acquire, SMT DEF Acquire
<1>Release. CASE Release(t)
  <2>1. \A u \in Task : ~Releasing(u)
    BY <1>0, <1>Release DEF Release
  <2>2. \A u \in Task : Releasing(u)' => u = t
    BY <1>1, <1>Release, <2>1, SMT DEF Release
  <2>3. StartInFlight' => StartInFlight
    BY <1>1, <1>Release, SMT DEF Release
  <2>4. StartInFlight => excuse' # {}
    BY <1>Release DEF Release
  <2>5. CASE streaming
    BY <1>1, <1>2, <1>Release, <2>2, <2>3, <2>4, <2>5, SMT DEF Release
  <2>6. CASE ~streaming
    <3>1. present => running = 0 \/ excuse # {} \/ StartInFlight
      BY <1>0, <2>6, SMT
    <3>2. present => running' = 0 \/ excuse' # {}
      BY <1>Release, <2>4, <3>1 DEF Release
    <3> QED
      BY <1>Release, <2>3, <2>4, <3>2 DEF Release
  <2> QED
    BY <2>5, <2>6
<1>ControlEnter. CASE ControlEnter(t)
  BY <1>0, <1>1, <1>ControlEnter, SMT DEF ControlEnter, SessionUsable
<1>Look. CASE Look(t)
  BY <1>0, <1>1, <1>Look, SMT DEF Look
<1>ReadEnter. CASE ReadEnter(t)
  BY <1>0, <1>1, <1>ReadEnter, SMT DEF ReadEnter, SessionUsable, StreamUsable
<1>RecheckEnter. CASE RecheckEnter(t)
  BY <1>0, <1>1, <1>RecheckEnter, SMT DEF RecheckEnter, SessionUsable,
      StreamUsable
<1>TakeControl. CASE TakeControl(t)
  BY <1>0, <1>1, <1>TakeControl, SMT DEF TakeControl, AfterLock, LockPc
<1>CancelUnregister. CASE CancelUnregister(t)
  BY <1>0, <1>1, <1>CancelUnregister, SMT DEF CancelUnregister
<1>EndUnregister. CASE EndUnregister(t)
  BY <1>0, <1>1, <1>EndUnregister, SMT DEF EndUnregister
<1>RecoverReturn. CASE RecoverReturn(t)
  BY <1>0, <1>1, <1>RecoverReturn, SMT DEF RecoverReturn
<1>EndRecover. CASE EndRecover(t)
  BY <1>0, <1>1, <1>EndRecover, SMT DEF EndRecover
<1>WaitCheck. CASE WaitCheck(t)
  BY <1>0, <1>1, <1>WaitCheck, SMT DEF WaitCheck, AfterWait
<1>TakeQuiesced. CASE TakeQuiesced(t)
  BY <1>0, <1>1, <1>TakeQuiesced, SMT DEF TakeQuiesced
<1>Woken. CASE Woken(t)
  BY <1>0, <1>1, <1>Woken, SMT DEF Woken, AfterWait
<1>GiveControl. CASE GiveControl(t)
  BY <1>0, <1>1, <1>GiveControl, SMT DEF GiveControl, AfterUnlock
<1>FeReturn. CASE FeReturn(t)
  BY <1>0, <1>1, <1>FeReturn, SMT DEF FeReturn
<1>FeLeave. CASE FeLeave(t)
  BY <1>0, <1>1, <1>FeLeave, SMT DEF FeLeave
<1>CancelRelease. CASE CancelRelease(t)
  BY <1>0, <1>1, <1>CancelRelease, SMT DEF CancelRelease
<1>StopRelease. CASE StopRelease(t)
  BY <1>0, <1>1, <1>StopRelease, SMT DEF StopRelease
<1>LeaveRelease. CASE LeaveRelease(t)
  BY <1>0, <1>1, <1>LeaveRelease, SMT DEF LeaveRelease
<1>EndRelease. CASE EndRelease(t)
  BY <1>0, <1>1, <1>EndRelease, SMT DEF EndRelease
<1>Return. CASE Return(t)
  BY <1>0, <1>1, <1>Return, SMT DEF Return
<1>PauseEnter. CASE PauseEnter(t)
  BY <1>0, <1>1, <1>PauseEnter, SMT DEF PauseEnter, MayPause
<1>PauseRefuse. CASE PauseRefuse(t)
  BY <1>0, <1>1, <1>PauseRefuse, SMT DEF PauseRefuse
<1>Check. CASE Check(t)
  BY <1>0, <1>1, <1>Check, SMT DEF Check, CheckRefuse, CheckPass, CheckPause,
      Leaving
<1>DriverReturn. CASE DriverReturn(t)
  BY <1>0, <1>1, <1>DriverReturn, SMT DEF DriverReturn, Leaving, RunningAfter,
      Commits
<1>Commit. CASE Commit(t)
  BY <1>0, <1>1, <1>Commit, <1>2, SMT DEF Commit, Leaving, CommitConfigure,
      CommitStart, CommitStop, CommitPause, CommitNothing
<1>Count. CASE Count(t)
  BY <1>0, <1>1, <1>Count, SMT DEF Count
<1>Leave. CASE Leave(t)
  BY <1>0, <1>1, <1>Leave, SMT DEF Leave
<1>Sample. CASE Sample(t)
  BY <1>0, <1>1, <1>Sample, SMT DEF Sample, AfterRead
<1>ReadReturn. CASE ReadReturn(t)
  BY <1>0, <1>1, <1>ReadReturn, SMT DEF ReadReturn, AfterRead
<1>Receipt. CASE Receipt(t)
  BY <1>0, <1>1, <1>Receipt, SMT DEF Receipt
<1>LeaveRead. CASE LeaveRead(t)
  BY <1>0, <1>1, <1>LeaveRead, SMT DEF LeaveRead
<1>RecheckLeave. CASE RecheckLeave(t)
  BY <1>0, <1>1, <1>RecheckLeave, SMT DEF RecheckLeave
<1> QED
  BY <1>Register, <1>Unregister, <1>Recover, <1>FeEnter, <1>Acquire,
      <1>Release, <1>ControlEnter, <1>Look, <1>ReadEnter, <1>RecheckEnter,
      <1>TakeControl, <1>CancelUnregister, <1>EndUnregister, <1>RecoverReturn,
      <1>EndRecover, <1>WaitCheck, <1>TakeQuiesced, <1>Woken, <1>GiveControl,
      <1>FeReturn, <1>FeLeave, <1>CancelRelease, <1>StopRelease,
      <1>LeaveRelease, <1>EndRelease, <1>Return, <1>PauseEnter,
      <1>PauseRefuse, <1>Check, <1>DriverReturn, <1>Commit, <1>Count,
      <1>Leave, <1>Sample, <1>ReadReturn, <1>Receipt, <1>LeaveRead,
      <1>RecheckLeave DEF Enter, GoOn

\* A stream outlives its lease at the end of a release, with its excuse.
LEMMA OrphanStep ==
    ASSUME IInv, Released, OrphanKept, NEW t \in Task,
           Enter(t) \/ TakeControl(t) \/ GoOn(t)
    PROVE  OrphanKept'
<1>0. OrphanKept /\ Released /\ FlagsAgree /\ Roles
  BY DEF IInv
<1>1. excuse \in SUBSET {"start", "stop"}
  BY DEF IInv, TypeOK, SetTypes
<1> USE DEF slot, device, session, stream, driver, OrphanKept
<1>Register. CASE Register(t)
  BY <1>Register DEF Register
<1>Unregister. CASE Unregister(t)
  BY <1>Unregister DEF Unregister
<1>Release. CASE Release(t)
  <2>1. orphan' = orphan /\ present' = present /\ excuse \subseteq excuse'
    BY <1>1, <1>Release DEF Release
  <2> QED
    BY <1>0, <2>1
<1>EndUnregister. CASE EndUnregister(t)
  BY <1>EndUnregister DEF EndUnregister
<1>StopRelease. CASE StopRelease(t)
  BY <1>0, <1>1, <1>StopRelease DEF StopRelease
<1>EndRelease. CASE EndRelease(t)
  <2>1. present => running = 0 \/ excuse # {}
    BY <1>0, <1>EndRelease DEF EndRelease, Released, Releasing, StopAhead
  <2> QED
    BY <2>1, <1>EndRelease DEF EndRelease
<1>DriverReturn. CASE DriverReturn(t)
  <2>1. present' = present /\ excuse' = excuse /\ (orphan' => orphan)
    BY <1>DriverReturn DEF DriverReturn
  <2> QED
    BY <1>0, <2>1
<1>Other. CASE UNCHANGED <<present, orphan, excuse>>
  BY <1>0, <1>Other
<1> QED
  BY <1>Register, <1>Unregister, <1>Release, <1>EndUnregister, <1>StopRelease,
     <1>EndRelease, <1>DriverReturn, <1>Other
     DEF Enter, GoOn, Recover, FeEnter, Acquire, ControlEnter, Look, ReadEnter,
         RecheckEnter, TakeControl, CancelUnregister, RecoverReturn,
         EndRecover, WaitCheck, TakeQuiesced, Woken, GiveControl, FeReturn,
         FeLeave, CancelRelease, LeaveRelease, Return, PauseEnter, PauseRefuse,
         Check, Commit, Count, Leave, Sample, ReadReturn, Receipt, LeaveRead,
         RecheckLeave

\* What is at rest under the control lock stays at rest.
LEMMA IdleStep ==
    ASSUME IInv, LockKept, OpsKept, Streams, IdleKept,
           NEW t \in Task,
           Enter(t) \/ TakeControl(t) \/ GoOn(t)
    PROVE  IdleKept'
<1>0. LockKept /\ OpsKept /\ Streams /\ IdleKept /\ FlagsAgree /\ Roles /\ OneOfEach /\ Quiet
  BY DEF IInv
<1>1. /\ pc \in [Task -> Pc] /\ ctl \in Task \cup {NoTask}
      /\ op \in [Task -> Ops \cup PauseOps \cup {"none"}]
      /\ ret \in [Task -> {"ok", "io", "other"}]
      /\ flag \in [Task -> BOOLEAN]
      /\ who \in [Task -> Owner \cup {NoOwner}]
  BY DEF IInv, TypeOK, FlagTypes, CallTypes, SetTypes
<1>2. {present, leased, closing, streaming, paused, pause_pending, stopping}
        \subseteq BOOLEAN
  BY DEF IInv, TypeOK, FlagTypes
<1> USE DEF slot, device, session, stream, locals, Goto, Start, Finish, Begin,
            driver, LockKept, OpsKept, Streams, IdleKept, LockedPc, Excused,
            Starting, SessionOps, PauseOps, FlagsAgree, Roles, OneOfEach,
            Quiet, Releasing, Detaching, Recovering, InFlightPc, ControlPc,
            ReadPc, ReleasePc, FePc, WaitPc, RecoverPc, UnregPc
<1>Register. CASE Register(t)
  BY <1>0, <1>1, <1>Register, SMT DEF Register
<1>Unregister. CASE Unregister(t)
  BY <1>0, <1>1, <1>Unregister, SMT DEF Unregister
<1>Recover. CASE Recover(t)
  BY <1>0, <1>1, <1>Recover, SMT DEF Recover
<1>FeEnter. CASE FeEnter(t)
  BY <1>0, <1>1, <1>FeEnter, SMT DEF FeEnter
<1>Acquire. CASE Acquire(t)
  BY <1>0, <1>1, <1>Acquire, SMT DEF Acquire
<1>Release. CASE Release(t)
  BY <1>0, <1>1, <1>Release, SMT DEF Release
<1>ControlEnter. CASE ControlEnter(t)
  BY <1>0, <1>1, <1>ControlEnter, SMT DEF ControlEnter, SessionUsable
<1>Look. CASE Look(t)
  BY <1>0, <1>1, <1>Look, SMT DEF Look
<1>ReadEnter. CASE ReadEnter(t)
  BY <1>0, <1>1, <1>ReadEnter, SMT DEF ReadEnter, SessionUsable, StreamUsable
<1>RecheckEnter. CASE RecheckEnter(t)
  BY <1>0, <1>1, <1>RecheckEnter, SMT DEF RecheckEnter, SessionUsable,
      StreamUsable
<1>TakeControl. CASE TakeControl(t)
  BY <1>0, <1>1, <1>TakeControl, SMT DEF TakeControl, AfterLock, LockPc
<1>CancelUnregister. CASE CancelUnregister(t)
  BY <1>0, <1>1, <1>CancelUnregister, SMT DEF CancelUnregister
<1>EndUnregister. CASE EndUnregister(t)
  BY <1>0, <1>1, <1>EndUnregister, SMT DEF EndUnregister
<1>RecoverReturn. CASE RecoverReturn(t)
  BY <1>0, <1>1, <1>RecoverReturn, SMT DEF RecoverReturn
<1>EndRecover. CASE EndRecover(t)
  BY <1>0, <1>1, <1>EndRecover, SMT DEF EndRecover
<1>WaitCheck. CASE WaitCheck(t)
  BY <1>0, <1>1, <1>WaitCheck, SMT DEF WaitCheck, AfterWait
<1>TakeQuiesced. CASE TakeQuiesced(t)
  BY <1>0, <1>1, <1>TakeQuiesced, SMT DEF TakeQuiesced
<1>Woken. CASE Woken(t)
  BY <1>0, <1>1, <1>Woken, SMT DEF Woken, AfterWait
<1>GiveControl. CASE GiveControl(t)
  BY <1>0, <1>1, <1>GiveControl, SMT DEF GiveControl, AfterUnlock
<1>FeReturn. CASE FeReturn(t)
  BY <1>0, <1>1, <1>FeReturn, SMT DEF FeReturn
<1>FeLeave. CASE FeLeave(t)
  BY <1>0, <1>1, <1>FeLeave, SMT DEF FeLeave
<1>CancelRelease. CASE CancelRelease(t)
  BY <1>0, <1>1, <1>CancelRelease, SMT DEF CancelRelease
<1>StopRelease. CASE StopRelease(t)
  BY <1>0, <1>1, <1>StopRelease, SMT DEF StopRelease
<1>LeaveRelease. CASE LeaveRelease(t)
  BY <1>0, <1>1, <1>LeaveRelease, SMT DEF LeaveRelease
<1>EndRelease. CASE EndRelease(t)
  BY <1>0, <1>1, <1>EndRelease, SMT DEF EndRelease
<1>Return. CASE Return(t)
  BY <1>0, <1>1, <1>Return, SMT DEF Return
<1>PauseEnter. CASE PauseEnter(t)
  BY <1>0, <1>1, <1>PauseEnter, SMT DEF PauseEnter, MayPause
<1>PauseRefuse. CASE PauseRefuse(t)
  BY <1>0, <1>1, <1>PauseRefuse, SMT DEF PauseRefuse
<1>Check. CASE Check(t)
  BY <1>0, <1>1, <1>Check, <1>2, SMT DEF Check, CheckRefuse, CheckPass,
      CheckPause, Leaving, Refused
<1>DriverReturn. CASE DriverReturn(t)
  BY <1>0, <1>1, <1>DriverReturn, SMT DEF DriverReturn, Leaving, RunningAfter,
      Commits
<1>Commit. CASE Commit(t)
  BY <1>0, <1>1, <1>Commit, SMT DEF Commit, Leaving, CommitConfigure,
      CommitStart, CommitStop, CommitPause, CommitNothing
<1>Count. CASE Count(t)
  BY <1>0, <1>1, <1>Count, SMT DEF Count
<1>Leave. CASE Leave(t)
  BY <1>0, <1>1, <1>Leave, SMT DEF Leave
<1>Sample. CASE Sample(t)
  BY <1>0, <1>1, <1>Sample, SMT DEF Sample, AfterRead
<1>ReadReturn. CASE ReadReturn(t)
  BY <1>0, <1>1, <1>ReadReturn, SMT DEF ReadReturn, AfterRead
<1>Receipt. CASE Receipt(t)
  BY <1>0, <1>1, <1>Receipt, SMT DEF Receipt
<1>LeaveRead. CASE LeaveRead(t)
  BY <1>0, <1>1, <1>LeaveRead, SMT DEF LeaveRead
<1>RecheckLeave. CASE RecheckLeave(t)
  BY <1>0, <1>1, <1>RecheckLeave, SMT DEF RecheckLeave
<1> QED
  BY <1>Register, <1>Unregister, <1>Recover, <1>FeEnter, <1>Acquire,
      <1>Release, <1>ControlEnter, <1>Look, <1>ReadEnter, <1>RecheckEnter,
      <1>TakeControl, <1>CancelUnregister, <1>EndUnregister, <1>RecoverReturn,
      <1>EndRecover, <1>WaitCheck, <1>TakeQuiesced, <1>Woken, <1>GiveControl,
      <1>FeReturn, <1>FeLeave, <1>CancelRelease, <1>StopRelease,
      <1>LeaveRelease, <1>EndRelease, <1>Return, <1>PauseEnter,
      <1>PauseRefuse, <1>Check, <1>DriverReturn, <1>Commit, <1>Count,
      <1>Leave, <1>Sample, <1>ReadReturn, <1>Receipt, <1>LeaveRead,
      <1>RecheckLeave DEF Enter, GoOn

\* After a pause nothing starts.
LEMMA StillStep ==
    ASSUME IInv, LockKept, OpsKept, LeaseKept, PauseKept, StopDone, Streams, PausedStill,
           NEW t \in Task,
           Enter(t) \/ TakeControl(t) \/ GoOn(t)
    PROVE  PausedStill'
<1>0. LockKept /\ OpsKept /\ LeaseKept /\ PauseKept /\ StopDone /\ Streams /\ PausedStill /\ FlagsAgree /\ Roles /\ OneOfEach /\ Quiet
  BY DEF IInv
<1>1. /\ pc \in [Task -> Pc] /\ ctl \in Task \cup {NoTask}
      /\ op \in [Task -> Ops \cup PauseOps \cup {"none"}]
      /\ ret \in [Task -> {"ok", "io", "other"}]
      /\ flag \in [Task -> BOOLEAN]
      /\ who \in [Task -> Owner \cup {NoOwner}]
  BY DEF IInv, TypeOK, FlagTypes, CallTypes, SetTypes
<1>2. {present, leased, closing, streaming, paused, pause_pending, stopping}
        \subseteq BOOLEAN
  BY DEF IInv, TypeOK, FlagTypes
<1> USE DEF slot, device, session, stream, locals, Goto, Start, Finish, Begin,
            driver, LockKept, OpsKept, LeaseKept, PauseKept, StopDone,
            Streams, PausedStill, LockedPc, Excused, Starting, Pausing,
            SessionOps, PauseOps, FlagsAgree, Roles, OneOfEach, Quiet,
            Releasing, Detaching, Recovering, InFlightPc, ControlPc, ReadPc,
            ReleasePc, FePc, WaitPc, RecoverPc, UnregPc
<1>Register. CASE Register(t)
  BY <1>0, <1>1, <1>Register, SMT DEF Register
<1>Unregister. CASE Unregister(t)
  BY <1>0, <1>1, <1>Unregister, SMT DEF Unregister
<1>Recover. CASE Recover(t)
  BY <1>0, <1>1, <1>Recover, SMT DEF Recover
<1>FeEnter. CASE FeEnter(t)
  BY <1>0, <1>1, <1>FeEnter, SMT DEF FeEnter
<1>Acquire. CASE Acquire(t)
  BY <1>0, <1>1, <1>Acquire, SMT DEF Acquire
<1>Release. CASE Release(t)
  BY <1>0, <1>1, <1>Release, SMT DEF Release
<1>ControlEnter. CASE ControlEnter(t)
  BY <1>0, <1>1, <1>ControlEnter, SMT DEF ControlEnter, SessionUsable
<1>Look. CASE Look(t)
  BY <1>0, <1>1, <1>Look, SMT DEF Look
<1>ReadEnter. CASE ReadEnter(t)
  BY <1>0, <1>1, <1>ReadEnter, SMT DEF ReadEnter, SessionUsable, StreamUsable
<1>RecheckEnter. CASE RecheckEnter(t)
  BY <1>0, <1>1, <1>RecheckEnter, SMT DEF RecheckEnter, SessionUsable,
      StreamUsable
<1>TakeControl. CASE TakeControl(t)
  BY <1>0, <1>1, <1>TakeControl, SMT DEF TakeControl, AfterLock, LockPc
<1>CancelUnregister. CASE CancelUnregister(t)
  BY <1>0, <1>1, <1>CancelUnregister, SMT DEF CancelUnregister
<1>EndUnregister. CASE EndUnregister(t)
  BY <1>0, <1>1, <1>EndUnregister, SMT DEF EndUnregister
<1>RecoverReturn. CASE RecoverReturn(t)
  BY <1>0, <1>1, <1>RecoverReturn, SMT DEF RecoverReturn
<1>EndRecover. CASE EndRecover(t)
  BY <1>0, <1>1, <1>EndRecover, SMT DEF EndRecover
<1>WaitCheck. CASE WaitCheck(t)
  BY <1>0, <1>1, <1>WaitCheck, SMT DEF WaitCheck, AfterWait
<1>TakeQuiesced. CASE TakeQuiesced(t)
  BY <1>0, <1>1, <1>TakeQuiesced, SMT DEF TakeQuiesced
<1>Woken. CASE Woken(t)
  BY <1>0, <1>1, <1>Woken, SMT DEF Woken, AfterWait
<1>GiveControl. CASE GiveControl(t)
  BY <1>0, <1>1, <1>GiveControl, SMT DEF GiveControl, AfterUnlock
<1>FeReturn. CASE FeReturn(t)
  BY <1>0, <1>1, <1>FeReturn, SMT DEF FeReturn
<1>FeLeave. CASE FeLeave(t)
  BY <1>0, <1>1, <1>FeLeave, SMT DEF FeLeave
<1>CancelRelease. CASE CancelRelease(t)
  BY <1>0, <1>1, <1>CancelRelease, SMT DEF CancelRelease
<1>StopRelease. CASE StopRelease(t)
  BY <1>0, <1>1, <1>StopRelease, SMT DEF StopRelease
<1>LeaveRelease. CASE LeaveRelease(t)
  BY <1>0, <1>1, <1>LeaveRelease, SMT DEF LeaveRelease
<1>EndRelease. CASE EndRelease(t)
  <2>1. orphan' \/ running' = 0
    BY <1>EndRelease DEF EndRelease
  <2> QED
    BY <1>0, <1>1, <1>EndRelease, <2>1, SMT DEF EndRelease
<1>Return. CASE Return(t)
  BY <1>0, <1>1, <1>Return, SMT DEF Return
<1>PauseEnter. CASE PauseEnter(t)
  BY <1>0, <1>1, <1>PauseEnter, SMT DEF PauseEnter, MayPause
<1>PauseRefuse. CASE PauseRefuse(t)
  BY <1>0, <1>1, <1>PauseRefuse, SMT DEF PauseRefuse
<1>Check. CASE Check(t)
  BY <1>0, <1>1, <1>Check, <1>2, SMT DEF Check, CheckRefuse, CheckPass,
      CheckPause, Leaving, Refused
<1>DriverReturn. CASE DriverReturn(t)
  <2>1. PICK r \in {"ok", "io", "other"} :
           /\ ret' = [ret EXCEPT ![t] = r]
           /\ running' \in RunningAfter(op[t], kind[t], r)
           /\ orphan' = (orphan /\ running' # 0 /\ ~(op[t] = "start" /\ r = "ok"))
           /\ Goto(t, IF Commits(op[t], r) THEN "commit" ELSE Leaving(t))
    BY <1>DriverReturn DEF DriverReturn
  <2>2. orphan => orphan' \/ running' = 0 \/ (op[t] = "start" /\ r = "ok")
    BY <2>1
  <2>3. /\ UNCHANGED <<slot, op>> /\ pc[t] = "driver"
        /\ running' \in RunningAfter(op[t], kind[t], r)
    BY <2>1, <1>DriverReturn DEF DriverReturn
  <2> QED
    BY <1>0, <1>1, <1>2, <2>1, <2>2, <2>3, SMT DEF Leaving, RunningAfter, Commits
<1>Commit. CASE Commit(t)
  <2>1. UNCHANGED <<present, op, driver>> /\ Goto(t, Leaving(t))
    BY <1>Commit DEF Commit
  <2>2. \A u \in Task : pc'[u] \notin {"driver", "commit"}
    BY <1>0, <1>1, <1>Commit, <2>1, SMT DEF Commit, Leaving
  <2>3. ASSUME present, ~streaming, op[t] # "start" PROVE Excused
    BY <1>0, <1>1, <1>Commit, <2>3, SMT DEF Commit
  <2>4. CASE CommitPause(t)
    <3>0. op[t] \in PauseOps /\ pc[t] = "commit"
      BY <1>Commit, <2>4 DEF Commit, CommitPause
    <3>1. paused' => op[t] = "pause" /\ ret[t] = "ok"
      <4>1. paused' => paused /\ ret[t] = "ok"
        BY <2>4 DEF CommitPause
      <4>2. paused <=> op[t] = "pause"
        BY <1>0, <3>0
      <4> QED
        BY <4>1, <4>2
    <3>2. paused' => ~streaming' /\ (running = 0 \/ ~streaming)
      <4>1. paused' => ~streaming'
        BY <2>4, <3>1 DEF CommitPause
      <4>2. op[t] = "pause" /\ ret[t] = "ok" => running = 0 \/ ~streaming
        BY <1>0, <3>0
      <4> QED
        BY <3>1, <4>1, <4>2
    <3>3. paused' /\ present => Excused
      BY <2>3, <3>1, <3>2
    <3> QED
      BY <2>1, <2>2, <3>2, <3>3
  <2>5. CASE CommitStart(t)
    BY <1>0, <1>Commit, <2>5, SMT DEF Commit, CommitStart
  <2>6. CASE CommitConfigure(t) \/ CommitStop(t) \/ CommitNothing(t)
    <3>1. UNCHANGED <<paused, pause_pending>> /\ (~streaming => ~streaming')
      BY <1>2, <2>6 DEF CommitConfigure, CommitStop, CommitNothing
    <3> QED
      BY <1>0, <2>1, <2>2, <3>1
  <2> QED
    BY <1>Commit, <2>4, <2>5, <2>6 DEF Commit
<1>Count. CASE Count(t)
  BY <1>0, <1>1, <1>Count, SMT DEF Count
<1>Leave. CASE Leave(t)
  BY <1>0, <1>1, <1>Leave, SMT DEF Leave
<1>Sample. CASE Sample(t)
  BY <1>0, <1>1, <1>Sample, SMT DEF Sample, AfterRead
<1>ReadReturn. CASE ReadReturn(t)
  BY <1>0, <1>1, <1>ReadReturn, SMT DEF ReadReturn, AfterRead
<1>Receipt. CASE Receipt(t)
  BY <1>0, <1>1, <1>Receipt, SMT DEF Receipt
<1>LeaveRead. CASE LeaveRead(t)
  BY <1>0, <1>1, <1>LeaveRead, SMT DEF LeaveRead
<1>RecheckLeave. CASE RecheckLeave(t)
  BY <1>0, <1>1, <1>RecheckLeave, SMT DEF RecheckLeave
<1> QED
  BY <1>Register, <1>Unregister, <1>Recover, <1>FeEnter, <1>Acquire,
      <1>Release, <1>ControlEnter, <1>Look, <1>ReadEnter, <1>RecheckEnter,
      <1>TakeControl, <1>CancelUnregister, <1>EndUnregister, <1>RecoverReturn,
      <1>EndRecover, <1>WaitCheck, <1>TakeQuiesced, <1>Woken, <1>GiveControl,
      <1>FeReturn, <1>FeLeave, <1>CancelRelease, <1>StopRelease,
      <1>LeaveRelease, <1>EndRelease, <1>Return, <1>PauseEnter,
      <1>PauseRefuse, <1>Check, <1>DriverReturn, <1>Commit, <1>Count,
      <1>Leave, <1>Sample, <1>ReadReturn, <1>Receipt, <1>LeaveRead,
      <1>RecheckLeave DEF Enter, GoOn

\* Who sets stopping stays until it is cleared.
LEMMA CausedStep ==
    ASSUME IInv, LockKept, OpsKept, StopCaused,
           NEW t \in Task,
           Enter(t) \/ TakeControl(t) \/ GoOn(t)
    PROVE  StopCaused'
<1>0. LockKept /\ OpsKept /\ StopCaused /\ FlagsAgree /\ Roles /\ OneOfEach /\ Quiet
  BY DEF IInv
<1>1. /\ pc \in [Task -> Pc] /\ ctl \in Task \cup {NoTask}
      /\ op \in [Task -> Ops \cup PauseOps \cup {"none"}]
      /\ ret \in [Task -> {"ok", "io", "other"}]
      /\ flag \in [Task -> BOOLEAN]
      /\ who \in [Task -> Owner \cup {NoOwner}]
  BY DEF IInv, TypeOK, FlagTypes, CallTypes, SetTypes
<1>2. {present, leased, closing, streaming, paused, pause_pending, stopping}
        \subseteq BOOLEAN
  BY DEF IInv, TypeOK, FlagTypes
<1> USE DEF slot, device, session, stream, locals, Goto, Start, Finish, Begin,
            driver, LockKept, OpsKept, StopCaused, LockedPc, Stopper,
            SessionOps, PauseOps, FlagsAgree, Roles, OneOfEach, Quiet,
            Releasing, Detaching, Recovering, InFlightPc, ControlPc, ReadPc,
            ReleasePc, FePc, WaitPc, RecoverPc, UnregPc
<1>Register. CASE Register(t)
  BY <1>0, <1>1, <1>Register, SMT DEF Register
<1>Unregister. CASE Unregister(t)
  BY <1>0, <1>1, <1>Unregister, SMT DEF Unregister
<1>Recover. CASE Recover(t)
  BY <1>0, <1>1, <1>Recover, SMT DEF Recover
<1>FeEnter. CASE FeEnter(t)
  BY <1>0, <1>1, <1>FeEnter, SMT DEF FeEnter
<1>Acquire. CASE Acquire(t)
  BY <1>0, <1>1, <1>Acquire, SMT DEF Acquire
<1>Release. CASE Release(t)
  BY <1>0, <1>1, <1>Release, SMT DEF Release
<1>ControlEnter. CASE ControlEnter(t)
  BY <1>0, <1>1, <1>ControlEnter, SMT DEF ControlEnter, SessionUsable
<1>Look. CASE Look(t)
  BY <1>0, <1>1, <1>Look, SMT DEF Look
<1>ReadEnter. CASE ReadEnter(t)
  BY <1>0, <1>1, <1>ReadEnter, SMT DEF ReadEnter, SessionUsable, StreamUsable
<1>RecheckEnter. CASE RecheckEnter(t)
  BY <1>0, <1>1, <1>RecheckEnter, SMT DEF RecheckEnter, SessionUsable,
      StreamUsable
<1>TakeControl. CASE TakeControl(t)
  BY <1>0, <1>1, <1>TakeControl, SMT DEF TakeControl, AfterLock, LockPc
<1>CancelUnregister. CASE CancelUnregister(t)
  BY <1>0, <1>1, <1>CancelUnregister, SMT DEF CancelUnregister
<1>EndUnregister. CASE EndUnregister(t)
  BY <1>0, <1>1, <1>EndUnregister, SMT DEF EndUnregister
<1>RecoverReturn. CASE RecoverReturn(t)
  BY <1>0, <1>1, <1>RecoverReturn, SMT DEF RecoverReturn
<1>EndRecover. CASE EndRecover(t)
  BY <1>0, <1>1, <1>EndRecover, SMT DEF EndRecover
<1>WaitCheck. CASE WaitCheck(t)
  BY <1>0, <1>1, <1>WaitCheck, SMT DEF WaitCheck, AfterWait
<1>TakeQuiesced. CASE TakeQuiesced(t)
  BY <1>0, <1>1, <1>TakeQuiesced, SMT DEF TakeQuiesced
<1>Woken. CASE Woken(t)
  BY <1>0, <1>1, <1>Woken, SMT DEF Woken, AfterWait
<1>GiveControl. CASE GiveControl(t)
  BY <1>0, <1>1, <1>GiveControl, SMT DEF GiveControl, AfterUnlock
<1>FeReturn. CASE FeReturn(t)
  BY <1>0, <1>1, <1>FeReturn, SMT DEF FeReturn
<1>FeLeave. CASE FeLeave(t)
  BY <1>0, <1>1, <1>FeLeave, SMT DEF FeLeave
<1>CancelRelease. CASE CancelRelease(t)
  BY <1>0, <1>1, <1>CancelRelease, SMT DEF CancelRelease
<1>StopRelease. CASE StopRelease(t)
  BY <1>0, <1>1, <1>StopRelease, SMT DEF StopRelease
<1>LeaveRelease. CASE LeaveRelease(t)
  BY <1>0, <1>1, <1>LeaveRelease, SMT DEF LeaveRelease
<1>EndRelease. CASE EndRelease(t)
  BY <1>0, <1>1, <1>EndRelease, SMT DEF EndRelease
<1>Return. CASE Return(t)
  BY <1>0, <1>1, <1>Return, SMT DEF Return
<1>PauseEnter. CASE PauseEnter(t)
  BY <1>0, <1>1, <1>PauseEnter, SMT DEF PauseEnter, MayPause
<1>PauseRefuse. CASE PauseRefuse(t)
  BY <1>0, <1>1, <1>PauseRefuse, SMT DEF PauseRefuse
<1>Check. CASE Check(t)
  <2>1. UNCHANGED <<present, op>> /\ (\E p \in Pc : Goto(t, p)) /\ ~Stopper(t)
    BY <1>0, <1>1, <1>Check, SMT
    DEF Check, CheckRefuse, CheckPass, CheckPause, Leaving, Pc
  <2>2. \A u \in Task : Stopper(u) => Stopper(u)'
    BY <1>1, <2>1, SMT
  <2>3. CASE stopping' => stopping
    BY <1>0, <2>1, <2>2, <2>3
  <2>4. CASE op[t] \in {"stop", "pause"} /\ pc'[t] \in {"driver", "commit"}
    BY <2>1, <2>4
  <2>5. CASE CheckRefuse(t)
    BY <2>3, <2>5 DEF CheckRefuse
  <2>6. CASE CheckPass(t)
    <3>1. CASE op[t] = "stop"
      BY <1>1, <2>4, <2>6, <3>1 DEF CheckPass
    <3>2. CASE op[t] # "stop"
      BY <2>3, <2>6, <3>2 DEF CheckPass
    <3> QED
      BY <3>1, <3>2
  <2>7. CASE CheckPause(t)
    <3>1. CASE op[t] = "pause"
      BY <1>1, <2>4, <2>7, <3>1 DEF CheckPause
    <3>2. CASE op[t] # "pause"
      BY <2>3, <2>7, <3>2 DEF CheckPause
    <3> QED
      BY <3>1, <3>2
  <2> QED
    BY <1>Check, <2>5, <2>6, <2>7 DEF Check
<1>DriverReturn. CASE DriverReturn(t)
  BY <1>0, <1>1, <1>DriverReturn, SMT DEF DriverReturn, Leaving, RunningAfter,
      Commits
<1>Commit. CASE Commit(t)
  <2>1. UNCHANGED <<present, op>> /\ Goto(t, Leaving(t)) /\ pc[t] = "commit"
    BY <1>Commit DEF Commit
  <2>2. \A u \in Task : u # t /\ Stopper(u) => Stopper(u)'
    BY <1>1, <2>1, SMT DEF Leaving
  <2>3. present /\ stopping' => stopping /\ op[t] \notin {"stop", "pause"}
    <3>1. CASE CommitConfigure(t)
      BY <3>1 DEF CommitConfigure
    <3>2. CASE CommitStart(t) \/ CommitStop(t) \/ CommitPause(t)
      BY <3>2 DEF CommitStart, CommitStop, CommitPause
    <3>3. CASE CommitNothing(t)
      BY <3>3 DEF CommitNothing
    <3> QED
      BY <1>Commit, <3>1, <3>2, <3>3 DEF Commit
  <2>4. op[t] \notin {"stop", "pause"} => ~Stopper(t)
    BY <2>1
  <2> QED
    BY <1>0, <2>1, <2>2, <2>3, <2>4
<1>Count. CASE Count(t)
  BY <1>0, <1>1, <1>Count, SMT DEF Count
<1>Leave. CASE Leave(t)
  BY <1>0, <1>1, <1>Leave, SMT DEF Leave
<1>Sample. CASE Sample(t)
  BY <1>0, <1>1, <1>Sample, SMT DEF Sample, AfterRead
<1>ReadReturn. CASE ReadReturn(t)
  BY <1>0, <1>1, <1>ReadReturn, SMT DEF ReadReturn, AfterRead
<1>Receipt. CASE Receipt(t)
  BY <1>0, <1>1, <1>Receipt, SMT DEF Receipt
<1>LeaveRead. CASE LeaveRead(t)
  BY <1>0, <1>1, <1>LeaveRead, SMT DEF LeaveRead
<1>RecheckLeave. CASE RecheckLeave(t)
  BY <1>0, <1>1, <1>RecheckLeave, SMT DEF RecheckLeave
<1> QED
  BY <1>Register, <1>Unregister, <1>Recover, <1>FeEnter, <1>Acquire,
      <1>Release, <1>ControlEnter, <1>Look, <1>ReadEnter, <1>RecheckEnter,
      <1>TakeControl, <1>CancelUnregister, <1>EndUnregister, <1>RecoverReturn,
      <1>EndRecover, <1>WaitCheck, <1>TakeQuiesced, <1>Woken, <1>GiveControl,
      <1>FeReturn, <1>FeLeave, <1>CancelRelease, <1>StopRelease,
      <1>LeaveRelease, <1>EndRelease, <1>Return, <1>PauseEnter,
      <1>PauseRefuse, <1>Check, <1>DriverReturn, <1>Commit, <1>Count,
      <1>Leave, <1>Sample, <1>ReadReturn, <1>Receipt, <1>LeaveRead,
      <1>RecheckLeave DEF Enter, GoOn

\* A control call takes the epoch away before it reaches the driver.
LEMMA VouchedStep ==
    ASSUME IInv, Vouched, NEW t \in Task,
           Enter(t) \/ TakeControl(t) \/ GoOn(t)
    PROVE  Vouched'
<1>0. Vouched /\ Roles /\ Quiet
  BY DEF IInv
<1>1. /\ pc \in [Task -> Pc] /\ ctl \in Task \cup {NoTask}
      /\ op \in [Task -> Ops \cup PauseOps \cup {"none"}]
      /\ ret \in [Task -> {"ok", "io", "other"}]
      /\ flag \in [Task -> BOOLEAN]
      /\ who \in [Task -> Owner \cup {NoOwner}]
  BY DEF IInv, TypeOK, FlagTypes, CallTypes, SetTypes
<1>2. /\ fresh \in SUBSET Task /\ receipts \in SUBSET Task
      /\ controlled \in SUBSET Task
  BY DEF IInv, TypeOK, SetTypes
<1> USE DEF slot, device, session, stream, locals, Goto, Start, Finish, Begin,
            Vouched, Watched, Roles, Quiet, Releasing,
            Detaching, Recovering, InFlightPc, evidence, overlaps, counts,
            NewEpoch, ControlPc, ReadPc, ReleasePc, FePc, WaitPc, RecoverPc,
            UnregPc
<1>Register. CASE Register(t)
  BY <1>0, <1>1, <1>Register, SMT DEF Register
<1>Unregister. CASE Unregister(t)
  BY <1>0, <1>1, <1>Unregister, SMT DEF Unregister
<1>Recover. CASE Recover(t)
  BY <1>0, <1>1, <1>Recover, SMT DEF Recover
<1>FeEnter. CASE FeEnter(t)
  BY <1>0, <1>1, <1>FeEnter, SMT DEF FeEnter
<1>Acquire. CASE Acquire(t)
  BY <1>0, <1>1, <1>Acquire, SMT DEF Acquire
<1>Release. CASE Release(t)
  BY <1>0, <1>1, <1>Release, SMT DEF Release
<1>ControlEnter. CASE ControlEnter(t)
  BY <1>0, <1>1, <1>ControlEnter, SMT DEF ControlEnter, SessionUsable
<1>Look. CASE Look(t)
  BY <1>0, <1>1, <1>Look, SMT DEF Look
<1>ReadEnter. CASE ReadEnter(t)
  BY <1>0, <1>1, <1>ReadEnter, SMT DEF ReadEnter, SessionUsable, StreamUsable,
      Forget
<1>RecheckEnter. CASE RecheckEnter(t)
  BY <1>0, <1>1, <1>RecheckEnter, SMT DEF RecheckEnter, SessionUsable,
      StreamUsable
<1>TakeControl. CASE TakeControl(t)
  BY <1>0, <1>1, <1>TakeControl, SMT DEF TakeControl, AfterLock, LockPc,
      TouchRelease, TouchControl, TouchRecover, TouchFrontEnd, Watching
<1>CancelUnregister. CASE CancelUnregister(t)
  BY <1>0, <1>1, <1>CancelUnregister, SMT DEF CancelUnregister
<1>EndUnregister. CASE EndUnregister(t)
  BY <1>0, <1>1, <1>EndUnregister, SMT DEF EndUnregister
<1>RecoverReturn. CASE RecoverReturn(t)
  BY <1>0, <1>1, <1>RecoverReturn, SMT DEF RecoverReturn
<1>EndRecover. CASE EndRecover(t)
  BY <1>0, <1>1, <1>EndRecover, SMT DEF EndRecover
<1>WaitCheck. CASE WaitCheck(t)
  BY <1>0, <1>1, <1>WaitCheck, SMT DEF WaitCheck, AfterWait
<1>TakeQuiesced. CASE TakeQuiesced(t)
  BY <1>0, <1>1, <1>TakeQuiesced, SMT DEF TakeQuiesced
<1>Woken. CASE Woken(t)
  BY <1>0, <1>1, <1>Woken, SMT DEF Woken, AfterWait
<1>GiveControl. CASE GiveControl(t)
  BY <1>0, <1>1, <1>GiveControl, SMT DEF GiveControl, AfterUnlock
<1>FeReturn. CASE FeReturn(t)
  BY <1>0, <1>1, <1>FeReturn, SMT DEF FeReturn
<1>FeLeave. CASE FeLeave(t)
  BY <1>0, <1>1, <1>FeLeave, SMT DEF FeLeave
<1>CancelRelease. CASE CancelRelease(t)
  BY <1>0, <1>1, <1>CancelRelease, SMT DEF CancelRelease
<1>StopRelease. CASE StopRelease(t)
  BY <1>0, <1>1, <1>StopRelease, SMT DEF StopRelease
<1>LeaveRelease. CASE LeaveRelease(t)
  BY <1>0, <1>1, <1>LeaveRelease, SMT DEF LeaveRelease
<1>EndRelease. CASE EndRelease(t)
  BY <1>0, <1>1, <1>EndRelease, SMT DEF EndRelease
<1>Return. CASE Return(t)
  BY <1>0, <1>1, <1>Return, SMT DEF Return
<1>PauseEnter. CASE PauseEnter(t)
  BY <1>0, <1>1, <1>PauseEnter, SMT DEF PauseEnter, MayPause
<1>PauseRefuse. CASE PauseRefuse(t)
  BY <1>0, <1>1, <1>PauseRefuse, SMT DEF PauseRefuse
<1>Check. CASE Check(t)
  BY <1>0, <1>1, <1>Check, SMT DEF Check, CheckRefuse, CheckPass, CheckPause,
      Leaving, TouchControl, Watching
<1>DriverReturn. CASE DriverReturn(t)
  BY <1>0, <1>1, <1>DriverReturn, SMT DEF DriverReturn, Leaving
<1>Commit. CASE Commit(t)
  BY <1>0, <1>1, <1>Commit, SMT DEF Commit, Leaving
<1>Count. CASE Count(t)
  BY <1>0, <1>1, <1>Count, SMT DEF Count
<1>Leave. CASE Leave(t)
  BY <1>0, <1>1, <1>Leave, SMT DEF Leave
<1>Sample. CASE Sample(t)
  <2>1. flag'[t] => \A u \in Task : pc[u] \notin ControlPc
    <3>1. flag'[t] => diagnostic_controls = 0
      BY <1>1, <1>Sample DEF Sample
    <3> QED
      BY <3>1, NoControl
  <2>2. UNCHANGED <<op, receipts>> /\ \E p \in ReadPc \ {"sample"} : Goto(t, p)
    BY <1>Sample DEF Sample, AfterRead
  <2>3. /\ \A u \in Task : pc'[u] \in ControlPc => pc[u] \in ControlPc
        /\ pc[t] = "sample" /\ pc'[t] # "sample"
    BY <1>1, <1>Sample, <2>2, SMT DEF Sample
  <2>4. \A u \in Task : u # t =>
           /\ pc'[u] = pc[u] /\ flag'[u] = flag[u]
           /\ (u \in fresh') = (u \in fresh)
           /\ (u \in controlled') = (u \in controlled)
    BY <1>1, <1>2, <1>Sample, <2>2, SMT DEF Sample, Overlap
  <2>5. CASE op[t] = "observe"
    <3>1. Watched(t)' /\ t \notin controlled
      BY <1>0, <1>1, <1>Sample, <2>5, SMT DEF Sample, AfterRead
    <3>2. flag'[t] => At({"driver"}) = {}
      BY <1>0, <2>1 DEF At, AtOf
    <3>3. flag'[t] => t \notin controlled'
      BY <1>Sample, <2>5, <3>1, <3>2 DEF Sample, Overlap
    <3> QED
      BY <1>0, <2>1, <2>2, <2>3, <2>4, <3>1, <3>3
  <2>6. CASE op[t] # "observe"
    <3>1. UNCHANGED <<fresh, controlled>> /\ ~Watched(t)
      BY <1>Sample, <2>6 DEF Sample
    <3> QED
      BY <1>0, <2>2, <2>3, <2>4, <2>6, <3>1
  <2> QED
    BY <2>5, <2>6
<1>ReadReturn. CASE ReadReturn(t)
  BY <1>0, <1>1, <1>ReadReturn, SMT DEF ReadReturn, AfterRead
<1>Receipt. CASE Receipt(t)
  BY <1>0, <1>1, <1>Receipt, <1>2, SMT DEF Receipt, Known, SameContext, Forget
<1>LeaveRead. CASE LeaveRead(t)
  BY <1>0, <1>1, <1>LeaveRead, SMT DEF LeaveRead
<1>RecheckLeave. CASE RecheckLeave(t)
  BY <1>0, <1>1, <1>RecheckLeave, SMT DEF RecheckLeave, SameContext, Forget
<1> QED
  BY <1>Register, <1>Unregister, <1>Recover, <1>FeEnter, <1>Acquire,
      <1>Release, <1>ControlEnter, <1>Look, <1>ReadEnter, <1>RecheckEnter,
      <1>TakeControl, <1>CancelUnregister, <1>EndUnregister, <1>RecoverReturn,
      <1>EndRecover, <1>WaitCheck, <1>TakeQuiesced, <1>Woken, <1>GiveControl,
      <1>FeReturn, <1>FeLeave, <1>CancelRelease, <1>StopRelease,
      <1>LeaveRelease, <1>EndRelease, <1>Return, <1>PauseEnter,
      <1>PauseRefuse, <1>Check, <1>DriverReturn, <1>Commit, <1>Count,
      <1>Leave, <1>Sample, <1>ReadReturn, <1>Receipt, <1>LeaveRead,
      <1>RecheckLeave DEF Enter, GoOn

-----------------------------------------------------------------------------
\* When the system boots nothing is attached and nobody calls.
LEMMA InitStream == Init => SInv /\ Vouched
<1> SUFFICES ASSUME Init PROVE SInv /\ Vouched
  OBVIOUS
<1>1. /\ \A t \in Task : pc[t] = "idle" /\ op[t] = "none"
      /\ ~present /\ ~streaming /\ ~paused /\ ~stopping
      /\ running = 0 /\ fresh = {}
  BY DEF Init
<1>2. LockKept /\ OpsKept /\ LeaseKept
  BY <1>1 DEF LockKept, LockedPc, OpsKept, LeaseKept, ControlPc
<1>3. PauseKept /\ StopDone /\ Streams /\ Released
  BY <1>1 DEF PauseKept, Pausing, StopDone, Streams, Released
<1>6. OrphanKept
  BY <1>1 DEF OrphanKept
<1>4. IdleKept /\ PausedStill /\ StopCaused
  BY <1>1 DEF IdleKept, PausedStill, StopCaused
<1>5. Vouched
  BY <1>1 DEF Vouched
<1> QED
  BY <1>2, <1>3, <1>4, <1>5, <1>6 DEF SInv

\* Every step keeps the invariant of the stream.
LEMMA StepStream == IInv /\ SInv /\ [Next]_vars => SInv'
<1> SUFFICES ASSUME IInv, SInv, [Next]_vars PROVE SInv'
  OBVIOUS
<1>1. CASE Next
  <2>1. PICK t \in Task : Enter(t) \/ TakeControl(t) \/ GoOn(t)
    BY <1>1 DEF Next
  <2>2. LockKept' /\ OpsKept' /\ LeaseKept'
    BY <2>1, LockStep, OpsStep, LeaseKeptStep DEF SInv
  <2>3. PauseKept' /\ StopDone' /\ Streams' /\ Released'
    BY <2>1, PauseStep, StopDoneStep, StreamsStep, ReleasedStep DEF SInv
  <2>4. IdleKept' /\ PausedStill' /\ StopCaused'
    BY <2>1, IdleStep, StillStep, CausedStep DEF SInv
  <2>5. OrphanKept'
    BY <2>1, OrphanStep DEF SInv
  <2> QED
    BY <2>2, <2>3, <2>4, <2>5 DEF SInv
<1>2. CASE UNCHANGED vars
  <2> USE <1>2 DEF vars, slot, device, session, stream, counts, locals, driver
  <2>1. LockKept' /\ OpsKept' /\ LeaseKept'
    BY DEF SInv, LockKept, OpsKept, LeaseKept
  <2>2. PauseKept' /\ StopDone' /\ OrphanKept'
    BY DEF SInv, PauseKept, Pausing, StopDone, OrphanKept
  <2>3. Streams' /\ Released' /\ IdleKept'
    BY DEF SInv, Streams, Released, IdleKept, Excused, Starting, StopAhead,
           Releasing, StartInFlight
  <2>4. PausedStill' /\ StopCaused'
    BY DEF SInv, PausedStill, StopCaused, Stopper, Releasing, Excused
  <2> QED
    BY <2>1, <2>2, <2>3, <2>4 DEF SInv
<1> QED
  BY <1>1, <1>2

\* The invariant of the stream holds in every reachable state.
THEOREM StreamInvariant == Spec => []SInv
<1>1. Init => SInv
  BY InitStream
<1> QED
  BY <1>1, StepStream, Invariant, PTL DEF Spec

\* A dashboard stop reaches the driver only while the owner it named holds
\* the lease: a lease cannot end, and no other begin, while a pause is counted
\* in_flight.
THEOREM PauseReachesNamedOwner == Spec => []PauseHitsNamedOwner
<1>1. SInv => PauseHitsNamedOwner
  BY DEF SInv, PauseKept, Pausing, PauseHitsNamedOwner, PauseOps
<1> QED
  BY <1>1, StreamInvariant, PTL

\* After a dashboard stop has finished no stream runs until a resume, whatever
\* starts were under way, but for one that had outlived its lease before.
THEOREM PausedStaysStopped == Spec => []PausedMeansStopped
<1>1. SInv => PausedMeansStopped
  BY DEF SInv, PausedStill, Excused, PausedMeansStopped
<1> QED
  BY <1>1, StreamInvariant, PTL

\* ls_radio_release leaves no stream behind, but for a stop the driver refused
\* or a start it overlapped.
THEOREM ReleaseLeavesNoStream == Spec => []NoOrphanStream
<1>1. SInv => NoOrphanStream
  BY DEF SInv, OrphanKept, Streams, Excused, NoOrphanStream
<1> QED
  BY <1>1, StreamInvariant, PTL

\* A call that the driver takes only at rest meets no stream but one that
\* outlived an earlier lease: the check under the control lock, made on the
\* registry's belief, still holds inside the driver.
THEOREM IdleCallsMeetNoStream == Spec => []IdleOnlyCalls
<1>1. SInv => IdleOnlyCalls
  BY DEF SInv, IdleKept, Excused, AtRest, IdleOnlyCalls
<1> QED
  BY <1>1, StreamInvariant, PTL

\* stopping, which four calls set and clear, is never left behind to stop the
\* reads of a receiver that nobody stops.
THEOREM StoppingIsTakenBack == Spec => []StoppingHasCause
<1>1. IInv /\ SInv => StoppingHasCause
  <2> SUFFICES ASSUME IInv, SInv, present, stopping PROVE StoppingHasCause
    BY DEF StoppingHasCause
  <2>1. PICK t \in Task : Stopper(t)
    BY DEF SInv, StopCaused
  <2>2. CASE op[t] \in {"stop", "pause"} /\ pc[t] \in {"driver", "commit"}
    BY <2>2 DEF StoppingHasCause, ControlPc
  <2>3. CASE Releasing(t)
    BY <2>3 DEF IInv, Roles, Releasing, ReleasePc, WaitPc, StoppingHasCause
  <2> QED
    BY <2>1, <2>2, <2>3 DEF Stopper
<1> QED
  BY <1>1, Invariant, StreamInvariant, PTL

\* What is vouched for is true in every reachable state.
LEMMA VouchedHolds == Spec => []Vouched
<1>1. IInv /\ Vouched /\ [Next]_vars => Vouched'
  <2> SUFFICES ASSUME IInv, Vouched, [Next]_vars PROVE Vouched'
    OBVIOUS
  <2>1. CASE Next
    BY <2>1, VouchedStep DEF Next
  <2>2. CASE UNCHANGED vars
    BY <2>2 DEF vars, locals, evidence, overlaps, Vouched, Watched
  <2> QED
    BY <2>1, <2>2
<1>2. Init => Vouched
  BY InitStream
<1> QED
  BY <1>1, <1>2, Invariant, PTL DEF Spec

\* A receipt stamped known is of a block no control call overlapped, though
\* it is taken outside the control lock, for any tasks and any calls.
THEOREM ReceiptsAreTrue == Spec => []ReceiptTruth
<1>1. Vouched => ReceiptTruth
  BY DEF Vouched, Watched, Known, SameContext, ReceiptTruth
<1> QED
  BY <1>1, VouchedHolds, PTL

\* ... and so is one that ls_radio_iq_receipt_current confirms later.
THEOREM RechecksAreTrue == Spec => []RecheckTruth
<1>1. Vouched => RecheckTruth
  BY DEF Vouched, Watched, SameContext, RecheckTruth
<1> QED
  BY <1>1, VouchedHolds, PTL

\* The control lock has a holder that is under it.
LEMMA HolderHolds == Spec => []HolderKept
<1>1. Init => HolderKept
  BY DEF Init, HolderKept
<1>2. IInv /\ HolderKept /\ [Next]_vars => HolderKept'
  <2> SUFFICES ASSUME IInv, HolderKept, [Next]_vars PROVE HolderKept'
    OBVIOUS
  <2>1. CASE Next
    BY <2>1, HolderStep DEF Next
  <2>2. CASE UNCHANGED vars
    BY <2>2 DEF vars, HolderKept
  <2> QED
    BY <2>1, <2>2
<1> QED
  BY <1>1, <1>2, Invariant, PTL DEF Spec

\* No task is stuck: its wait for the control lock is for one that can go on,
\* and its wait for quiet is for a call inside that can, or that waits for
\* such a one.  This is what a deadlock of the calls under a lease, a detach,
\* a recovery and front-end calls would break.
THEOREM NoWaitIsForAWaiter == Spec => []WaitsEnd
<1>1. IInv /\ HolderKept /\ NoLostWakeup => WaitsEnd
  <2> SUFFICES ASSUME IInv, HolderKept, NoLostWakeup, NEW t \in Task
               PROVE  /\ pc[t] \in LockPc /\ ~CanGo(t) => CanGo(ctl)
                      /\ pc[t] = "blocked" /\ ~CanGo(t) =>
                             \E u \in InFlight :
                                 CanGo(u) \/ (pc[u] \in LockPc /\ CanGo(ctl))
    BY DEF WaitsEnd
  <2>1. ctl # NoTask => CanGo(ctl)
    BY DEF HolderKept, LockedPc, CanGo, LockPc
  <2>2. CASE pc[t] \in LockPc /\ ~CanGo(t)
    BY <2>1, <2>2 DEF CanGo, LockPc
  <2>3. CASE pc[t] = "blocked" /\ ~CanGo(t)
    <3>1. tokens = 0
      BY <2>3 DEF CanGo, LockPc, IInv, TypeOK, CountTypes
    <3>3. Cardinality(AtOf(pc, {"blocked"})) # 0
      BY <2>3, EmptyCount DEF IInv, TypeOK, CallTypes
    <3>4. Cardinality(AtOf(pc, {"blocked"})) \in Nat
      BY TaskAssumption, FS_Subset, FS_CardinalityType DEF AtOf
    <3>5. in_flight # 0
      BY <3>1, <3>3, <3>4, SMT DEF NoLostWakeup, Blocked, At
    <3>6. Cardinality(AtOf(pc, InFlightPc)) # 0
      BY <3>5 DEF IInv, Accounting, InFlight, At
    <3>7. PICK u \in Task : pc[u] \in InFlightPc
      BY <3>6, EmptyCount DEF IInv, TypeOK, CallTypes
    <3>8. u \in InFlight
      BY <3>7 DEF InFlight, At, AtOf
    <3>9. CASE pc[u] \in LockPc
      BY <2>1, <3>8, <3>9 DEF CanGo, LockPc
    <3>10. CASE pc[u] \notin LockPc
      <4>1. pc[u] # "idle" /\ pc[u] # "blocked"
        BY <3>7 DEF InFlightPc, ControlPc, ReadPc, ReleasePc, FePc
      <4> QED
        BY <2>3, <3>8, <3>10, <4>1 DEF CanGo, LockPc
    <3> QED
      BY <3>9, <3>10
  <2> QED
    BY <2>2, <2>3
<1> QED
  BY <1>1, Invariant, HolderHolds, WakeupsKept, PTL
=============================================================================
