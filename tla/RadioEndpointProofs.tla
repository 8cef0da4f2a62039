------------------------- MODULE RadioEndpointProofs -------------------------
(***************************************************************************)
(* Proofs about RadioEndpoint for every set of tasks, apps and calls.      *)
(***************************************************************************)
EXTENDS RadioEndpoint, FiniteSetTheorems, TLAPS

-----------------------------------------------------------------------------
\* One task moves from one place to another: what becomes of the set of the
\* tasks at the places S.

LEMMA MoveCount ==
    ASSUME NEW f \in [Task -> Pc], NEW t \in Task, NEW p \in Pc, NEW S
    PROVE  LET g == [f EXCEPT ![t] = p]
               m == Cardinality(AtOf(f, S))
               n == Cardinality(AtOf(g, S))
           IN  /\ m \in Nat /\ n \in Nat
               /\ (f[t] \in S) = (p \in S) => n = m
               /\ f[t] \notin S /\ p \in S => n = m + 1
               /\ f[t] \in S /\ p \notin S => n = m - 1 /\ m > 0
<1> DEFINE g == [f EXCEPT ![t] = p]
           A == AtOf(f, S)
           B == AtOf(g, S)
<1>1. IsFiniteSet(A) /\ IsFiniteSet(B)
  BY TaskAssumption, FS_Subset DEF AtOf
<1>2. Cardinality(A) \in Nat /\ Cardinality(B) \in Nat
  BY <1>1, FS_CardinalityType
<1>3. B = IF p \in S THEN A \cup {t} ELSE A \ {t}
  BY DEF AtOf
<1>4. (t \in A) = (f[t] \in S)
  BY DEF AtOf
<1>5. Cardinality(A \cup {t}) =
         IF t \in A THEN Cardinality(A) ELSE Cardinality(A) + 1
  BY <1>1, FS_AddElement
<1>6. Cardinality(A \ {t}) =
         IF t \in A THEN Cardinality(A) - 1 ELSE Cardinality(A)
  BY <1>1, FS_RemoveElement
<1>7. t \in A => Cardinality(A) > 0
  BY <1>1, <1>2, FS_EmptySet
<1> QED
  BY <1>2, <1>3, <1>4, <1>5, <1>6, <1>7

\* None is counted when none is there.
LEMMA EmptyCount ==
    ASSUME NEW f \in [Task -> Pc], NEW S
    PROVE  Cardinality(AtOf(f, S)) = 0 <=> \A u \in Task : f[u] \notin S
<1>1. IsFiniteSet(AtOf(f, S))
  BY TaskAssumption, FS_Subset DEF AtOf
<1> QED
  BY <1>1, FS_EmptySet DEF AtOf


\* The inductive invariant IInv holds when the system boots.
LEMMA InitInvariant == Init => IInv
<1> SUFFICES ASSUME Init PROVE IInv
  OBVIOUS
<1>1. FlagTypes
  BY Zenon DEF Init, FlagTypes
<1>7. orphan \in BOOLEAN
  BY DEF Init
<1>2. CountTypes /\ CallTypes /\ SetTypes
  BY <1>7, BoundAssumption, OwnerAssumption
  DEF Init, CountTypes, CallTypes, SetTypes, Pc
<1>3. \A S : "idle" \notin S => Cardinality(AtOf(pc, S)) = 0
  BY <1>2, EmptyCount DEF Init, CallTypes
<1>4. Accounting
  BY <1>3 DEF Init, Accounting, InFlight, InControl, At, InFlightPc,
              WaiterPc,
              ControlPc, ReadPc, ReleasePc, FePc
<1>5. FlagsAgree /\ Roles /\ OneOfEach
  BY DEF Init, FlagsAgree, Roles, OneOfEach,
     Releasing, Detaching, Recovering, ReleasePc, WaitPc, RecoverPc, UnregPc
<1>6. Quiet
  BY DEF Init, Quiet, InFlightPc, ControlPc, ReadPc, ReleasePc, FePc
<1> QED
  BY <1>1, <1>2, <1>4, <1>5, <1>6 DEF IInv, TypeOK

-----------------------------------------------------------------------------
\* The types, part by part.  The flags go to Zenon, the rest to SMT.
LEMMA FlagStep ==
    ASSUME IInv, NEW t \in Task, Enter(t) \/ TakeControl(t) \/ GoOn(t)
    PROVE  FlagTypes'
<1>0. FlagTypes
  BY DEF IInv, TypeOK
<1> USE DEF slot, device, session, stream, locals, Goto, Start, Finish,
            FlagTypes
<1>Register. CASE Register(t)
  BY <1>0, <1>Register, Zenon DEF Register
<1>Unregister. CASE Unregister(t)
  BY <1>0, <1>Unregister, Zenon DEF Unregister
<1>Recover. CASE Recover(t)
  BY <1>0, <1>Recover, Zenon DEF Recover
<1>FeEnter. CASE FeEnter(t)
  BY <1>0, <1>FeEnter, Zenon DEF FeEnter
<1>Acquire. CASE Acquire(t)
  BY <1>0, <1>Acquire, Zenon DEF Acquire
<1>Release. CASE Release(t)
  BY <1>0, <1>Release, Zenon DEF Release
<1>ControlEnter. CASE ControlEnter(t)
  BY <1>0, <1>ControlEnter, Zenon DEF ControlEnter
<1>Look. CASE Look(t)
  BY <1>0, <1>Look, Zenon DEF Look
<1>ReadEnter. CASE ReadEnter(t)
  BY <1>0, <1>ReadEnter, Zenon DEF ReadEnter
<1>RecheckEnter. CASE RecheckEnter(t)
  BY <1>0, <1>RecheckEnter, Zenon DEF RecheckEnter
<1>TakeControl. CASE TakeControl(t)
  BY <1>0, <1>TakeControl, Zenon DEF TakeControl
<1>CancelUnregister. CASE CancelUnregister(t)
  BY <1>0, <1>CancelUnregister, Zenon DEF CancelUnregister
<1>EndUnregister. CASE EndUnregister(t)
  BY <1>0, <1>EndUnregister, Zenon DEF EndUnregister
<1>RecoverReturn. CASE RecoverReturn(t)
  BY <1>0, <1>RecoverReturn, Zenon DEF RecoverReturn
<1>EndRecover. CASE EndRecover(t)
  BY <1>0, <1>EndRecover, Zenon DEF EndRecover
<1>WaitCheck. CASE WaitCheck(t)
  BY <1>0, <1>WaitCheck, Zenon DEF WaitCheck
<1>TakeQuiesced. CASE TakeQuiesced(t)
  BY <1>0, <1>TakeQuiesced, Zenon DEF TakeQuiesced
<1>Woken. CASE Woken(t)
  BY <1>0, <1>Woken, Zenon DEF Woken
<1>GiveControl. CASE GiveControl(t)
  BY <1>0, <1>GiveControl, Zenon DEF GiveControl
<1>FeReturn. CASE FeReturn(t)
  BY <1>0, <1>FeReturn, Zenon DEF FeReturn
<1>FeLeave. CASE FeLeave(t)
  BY <1>0, <1>FeLeave, Zenon DEF FeLeave
<1>CancelRelease. CASE CancelRelease(t)
  BY <1>0, <1>CancelRelease, Zenon DEF CancelRelease
<1>StopRelease. CASE StopRelease(t)
  BY <1>0, <1>StopRelease, Zenon DEF StopRelease
<1>LeaveRelease. CASE LeaveRelease(t)
  BY <1>0, <1>LeaveRelease, Zenon DEF LeaveRelease
<1>EndRelease. CASE EndRelease(t)
  BY <1>0, <1>EndRelease, Zenon DEF EndRelease
<1>Return. CASE Return(t)
  BY <1>0, <1>Return, Zenon DEF Return
<1>PauseEnter. CASE PauseEnter(t)
  BY <1>0, <1>PauseEnter, Zenon DEF PauseEnter
<1>PauseRefuse. CASE PauseRefuse(t)
  BY <1>0, <1>PauseRefuse, Zenon DEF PauseRefuse
<1>Check. CASE Check(t)
  BY <1>0, <1>Check, Zenon DEF Check, CheckRefuse, CheckPass, CheckPause
<1>DriverReturn. CASE DriverReturn(t)
  BY <1>0, <1>DriverReturn, Zenon DEF DriverReturn
<1>Commit. CASE Commit(t)
  BY <1>0, <1>Commit, Zenon DEF Commit, CommitConfigure, CommitStart,
      CommitStop, CommitPause, CommitNothing
<1>Count. CASE Count(t)
  BY <1>0, <1>Count, Zenon DEF Count
<1>Leave. CASE Leave(t)
  BY <1>0, <1>Leave, Zenon DEF Leave
<1>Sample. CASE Sample(t)
  BY <1>0, <1>Sample, Zenon DEF Sample
<1>ReadReturn. CASE ReadReturn(t)
  BY <1>0, <1>ReadReturn, Zenon DEF ReadReturn
<1>Receipt. CASE Receipt(t)
  BY <1>0, <1>Receipt, Zenon DEF Receipt
<1>LeaveRead. CASE LeaveRead(t)
  BY <1>0, <1>LeaveRead, Zenon DEF LeaveRead
<1>RecheckLeave. CASE RecheckLeave(t)
  BY <1>0, <1>RecheckLeave, Zenon DEF RecheckLeave
<1> QED
  BY <1>Register, <1>Unregister, <1>Recover, <1>FeEnter, <1>Acquire,
      <1>Release, <1>ControlEnter, <1>Look, <1>ReadEnter,
      <1>RecheckEnter, <1>TakeControl, <1>CancelUnregister,
      <1>EndUnregister, <1>RecoverReturn, <1>EndRecover, <1>WaitCheck,
      <1>TakeQuiesced, <1>Woken, <1>GiveControl, <1>FeReturn, <1>FeLeave,
      <1>CancelRelease, <1>StopRelease, <1>LeaveRelease, <1>EndRelease,
      <1>Return, <1>PauseEnter, <1>PauseRefuse, <1>Check, <1>DriverReturn,
      <1>Commit, <1>Count, <1>Leave, <1>Sample, <1>ReadReturn, <1>Receipt,
      <1>LeaveRead, <1>RecheckLeave DEF Enter, GoOn

-----------------------------------------------------------------------------
\* The counters stay natural numbers: one that is taken down counts a task,
\* waiters the one that leaves.
LEMMA CountStep ==
    ASSUME IInv, NEW t \in Task, Enter(t) \/ TakeControl(t) \/ GoOn(t)
    PROVE  CountTypes'
<1>0. CountTypes /\ CallTypes /\ Accounting
  BY DEF IInv, TypeOK
<1>1. ASSUME pc[t] \in WaiterPc PROVE waiters > 0
  BY <1>0, <1>1, EmptyCount DEF Accounting, At, CallTypes, CountTypes
<1> USE BoundAssumption
<1> USE DEF slot, device, session, stream, counts, driver, CountIn, CountOut,
            OneLess, CountTypes
<1>Register. CASE Register(t)
  BY <1>0, <1>Register, SMT DEF Register
<1>Unregister. CASE Unregister(t)
  BY <1>0, <1>Unregister, SMT DEF Unregister
<1>Recover. CASE Recover(t)
  BY <1>0, <1>Recover, SMT DEF Recover
<1>FeEnter. CASE FeEnter(t)
  BY <1>0, <1>FeEnter, SMT DEF FeEnter
<1>Acquire. CASE Acquire(t)
  BY <1>0, <1>Acquire, SMT DEF Acquire
<1>Release. CASE Release(t)
  BY <1>0, <1>Release, SMT DEF Release
<1>ControlEnter. CASE ControlEnter(t)
  BY <1>0, <1>ControlEnter, SMT DEF ControlEnter
<1>Look. CASE Look(t)
  BY <1>0, <1>Look, SMT DEF Look
<1>ReadEnter. CASE ReadEnter(t)
  BY <1>0, <1>ReadEnter, SMT DEF ReadEnter
<1>RecheckEnter. CASE RecheckEnter(t)
  BY <1>0, <1>RecheckEnter, SMT DEF RecheckEnter
<1>TakeControl. CASE TakeControl(t)
  BY <1>0, <1>TakeControl, SMT DEF TakeControl
<1>CancelUnregister. CASE CancelUnregister(t)
  BY <1>0, <1>CancelUnregister, SMT DEF CancelUnregister
<1>EndUnregister. CASE EndUnregister(t)
  BY <1>0, <1>EndUnregister, SMT DEF EndUnregister
<1>RecoverReturn. CASE RecoverReturn(t)
  BY <1>0, <1>RecoverReturn, SMT DEF RecoverReturn
<1>EndRecover. CASE EndRecover(t)
  BY <1>0, <1>EndRecover, SMT DEF EndRecover
<1>WaitCheck. CASE WaitCheck(t)
  BY <1>0, <1>WaitCheck, SMT DEF WaitCheck
<1>TakeQuiesced. CASE TakeQuiesced(t)
  BY <1>0, <1>TakeQuiesced, SMT DEF TakeQuiesced
<1>Woken. CASE Woken(t)
  BY <1>0, <1>Woken, <1>1, SMT DEF Woken, WaiterPc
<1>GiveControl. CASE GiveControl(t)
  BY <1>0, <1>GiveControl, SMT DEF GiveControl
<1>FeReturn. CASE FeReturn(t)
  BY <1>0, <1>FeReturn, SMT DEF FeReturn
<1>FeLeave. CASE FeLeave(t)
  BY <1>0, <1>FeLeave, SMT DEF FeLeave
<1>CancelRelease. CASE CancelRelease(t)
  BY <1>0, <1>CancelRelease, SMT DEF CancelRelease
<1>StopRelease. CASE StopRelease(t)
  BY <1>0, <1>StopRelease, SMT DEF StopRelease
<1>LeaveRelease. CASE LeaveRelease(t)
  BY <1>0, <1>LeaveRelease, SMT DEF LeaveRelease
<1>EndRelease. CASE EndRelease(t)
  BY <1>0, <1>EndRelease, SMT DEF EndRelease
<1>Return. CASE Return(t)
  BY <1>0, <1>Return, SMT DEF Return
<1>PauseEnter. CASE PauseEnter(t)
  BY <1>0, <1>PauseEnter, SMT DEF PauseEnter
<1>PauseRefuse. CASE PauseRefuse(t)
  BY <1>0, <1>PauseRefuse, SMT DEF PauseRefuse
<1>Check. CASE Check(t)
  BY <1>0, <1>Check, SMT DEF Check, CheckRefuse, CheckPass, CheckPause
<1>DriverReturn. CASE DriverReturn(t)
  <2>1. PICK r \in {"ok", "io", "other"} :
           running' \in RunningAfter(op[t], kind[t], r)
    BY <1>DriverReturn DEF DriverReturn
  <2>2. running' \in 0..2
    BY <1>0, <2>1, SMT DEF RunningAfter, CallTypes
  <2>3. UNCHANGED <<counts, tokens, config_kind, stream_kind>>
    BY <1>DriverReturn, SMT DEF DriverReturn
  <2> QED
    BY <1>0, <2>2, <2>3, SMT
<1>Commit. CASE Commit(t)
  BY <1>0, <1>Commit, SMT DEF Commit, CommitConfigure, CommitStart,
      CommitStop, CommitPause, CommitNothing, CallTypes
<1>Count. CASE Count(t)
  BY <1>0, <1>Count, SMT DEF Count
<1>Leave. CASE Leave(t)
  BY <1>0, <1>Leave, SMT DEF Leave
<1>Sample. CASE Sample(t)
  BY <1>0, <1>Sample, SMT DEF Sample
<1>ReadReturn. CASE ReadReturn(t)
  BY <1>0, <1>ReadReturn, SMT DEF ReadReturn
<1>Receipt. CASE Receipt(t)
  BY <1>0, <1>Receipt, SMT DEF Receipt
<1>LeaveRead. CASE LeaveRead(t)
  BY <1>0, <1>LeaveRead, SMT DEF LeaveRead
<1>RecheckLeave. CASE RecheckLeave(t)
  BY <1>0, <1>RecheckLeave, SMT DEF RecheckLeave
<1> QED
  BY <1>Register, <1>Unregister, <1>Recover, <1>FeEnter, <1>Acquire,
      <1>Release, <1>ControlEnter, <1>Look, <1>ReadEnter,
      <1>RecheckEnter, <1>TakeControl, <1>CancelUnregister,
      <1>EndUnregister, <1>RecoverReturn, <1>EndRecover, <1>WaitCheck,
      <1>TakeQuiesced, <1>Woken, <1>GiveControl, <1>FeReturn, <1>FeLeave,
      <1>CancelRelease, <1>StopRelease, <1>LeaveRelease, <1>EndRelease,
      <1>Return, <1>PauseEnter, <1>PauseRefuse, <1>Check, <1>DriverReturn,
      <1>Commit, <1>Count, <1>Leave, <1>Sample, <1>ReadReturn, <1>Receipt,
      <1>LeaveRead, <1>RecheckLeave DEF Enter, GoOn

-----------------------------------------------------------------------------
\* pc and the locals.
LEMMA CallStep ==
    ASSUME IInv, NEW t \in Task, Enter(t) \/ TakeControl(t) \/ GoOn(t)
    PROVE  CallTypes'
<1>0. CallTypes /\ SetTypes
  BY DEF IInv, TypeOK
<1> USE CallsAssumption, OwnerAssumption
<1> USE DEF slot, session, locals, Goto, Start, Finish, Begin, CallTypes,
            Pc, Ops, SessionOps, PauseOps,
            ControlPc, ReadPc, ReleasePc, FePc, WaitPc, RecoverPc, UnregPc
<1>Register. CASE Register(t)
  BY <1>0, <1>Register, SMT DEF Register
<1>Unregister. CASE Unregister(t)
  BY <1>0, <1>Unregister, SMT DEF Unregister
<1>Recover. CASE Recover(t)
  BY <1>0, <1>Recover, SMT DEF Recover
<1>FeEnter. CASE FeEnter(t)
  BY <1>0, <1>FeEnter, SMT DEF FeEnter
<1>Acquire. CASE Acquire(t)
  BY <1>0, <1>Acquire, SMT DEF Acquire
<1>Release. CASE Release(t)
  BY <1>0, <1>Release, SMT DEF Release
<1>ControlEnter. CASE ControlEnter(t)
  BY <1>0, <1>ControlEnter, SMT DEF ControlEnter, KindsOf
<1>Look. CASE Look(t)
  BY <1>0, <1>Look, SMT DEF Look, SetTypes
<1>ReadEnter. CASE ReadEnter(t)
  BY <1>0, <1>ReadEnter, SMT DEF ReadEnter
<1>RecheckEnter. CASE RecheckEnter(t)
  BY <1>0, <1>RecheckEnter, SMT DEF RecheckEnter
<1>TakeControl. CASE TakeControl(t)
  BY <1>0, <1>TakeControl, SMT DEF TakeControl, AfterLock, LockPc
<1>CancelUnregister. CASE CancelUnregister(t)
  BY <1>0, <1>CancelUnregister, SMT DEF CancelUnregister
<1>EndUnregister. CASE EndUnregister(t)
  BY <1>0, <1>EndUnregister, SMT DEF EndUnregister
<1>RecoverReturn. CASE RecoverReturn(t)
  BY <1>0, <1>RecoverReturn, SMT DEF RecoverReturn
<1>EndRecover. CASE EndRecover(t)
  BY <1>0, <1>EndRecover, SMT DEF EndRecover
<1>WaitCheck. CASE WaitCheck(t)
  BY <1>0, <1>WaitCheck, SMT DEF WaitCheck, AfterWait
<1>TakeQuiesced. CASE TakeQuiesced(t)
  BY <1>0, <1>TakeQuiesced, SMT DEF TakeQuiesced
<1>Woken. CASE Woken(t)
  BY <1>0, <1>Woken, SMT DEF Woken, AfterWait
<1>GiveControl. CASE GiveControl(t)
  BY <1>0, <1>GiveControl, SMT DEF GiveControl, AfterUnlock
<1>FeReturn. CASE FeReturn(t)
  BY <1>0, <1>FeReturn, SMT DEF FeReturn
<1>FeLeave. CASE FeLeave(t)
  BY <1>0, <1>FeLeave, SMT DEF FeLeave
<1>CancelRelease. CASE CancelRelease(t)
  BY <1>0, <1>CancelRelease, SMT DEF CancelRelease
<1>StopRelease. CASE StopRelease(t)
  BY <1>0, <1>StopRelease, SMT DEF StopRelease
<1>LeaveRelease. CASE LeaveRelease(t)
  BY <1>0, <1>LeaveRelease, SMT DEF LeaveRelease
<1>EndRelease. CASE EndRelease(t)
  BY <1>0, <1>EndRelease, SMT DEF EndRelease
<1>Return. CASE Return(t)
  BY <1>0, <1>Return, SMT DEF Return
<1>PauseEnter. CASE PauseEnter(t)
  BY <1>0, <1>PauseEnter, SMT DEF PauseEnter
<1>PauseRefuse. CASE PauseRefuse(t)
  BY <1>0, <1>PauseRefuse, SMT DEF PauseRefuse
<1>Check. CASE Check(t)
  BY <1>0, <1>Check, SMT DEF Check, CheckRefuse, CheckPass, CheckPause,
      Leaving
<1>DriverReturn. CASE DriverReturn(t)
  BY <1>0, <1>DriverReturn, SMT DEF DriverReturn, Leaving
<1>Commit. CASE Commit(t)
  BY <1>0, <1>Commit, SMT DEF Commit, Leaving
<1>Count. CASE Count(t)
  BY <1>0, <1>Count, SMT DEF Count
<1>Leave. CASE Leave(t)
  BY <1>0, <1>Leave, SMT DEF Leave
<1>Sample. CASE Sample(t)
  BY <1>0, <1>Sample, SMT DEF Sample, AfterRead
<1>ReadReturn. CASE ReadReturn(t)
  BY <1>0, <1>ReadReturn, SMT DEF ReadReturn, AfterRead
<1>Receipt. CASE Receipt(t)
  BY <1>0, <1>Receipt, SMT DEF Receipt
<1>LeaveRead. CASE LeaveRead(t)
  BY <1>0, <1>LeaveRead, SMT DEF LeaveRead
<1>RecheckLeave. CASE RecheckLeave(t)
  BY <1>0, <1>RecheckLeave, SMT DEF RecheckLeave
<1> QED
  BY <1>Register, <1>Unregister, <1>Recover, <1>FeEnter, <1>Acquire,
      <1>Release, <1>ControlEnter, <1>Look, <1>ReadEnter,
      <1>RecheckEnter, <1>TakeControl, <1>CancelUnregister,
      <1>EndUnregister, <1>RecoverReturn, <1>EndRecover, <1>WaitCheck,
      <1>TakeQuiesced, <1>Woken, <1>GiveControl, <1>FeReturn, <1>FeLeave,
      <1>CancelRelease, <1>StopRelease, <1>LeaveRelease, <1>EndRelease,
      <1>Return, <1>PauseEnter, <1>PauseRefuse, <1>Check, <1>DriverReturn,
      <1>Commit, <1>Count, <1>Leave, <1>Sample, <1>ReadReturn, <1>Receipt,
      <1>LeaveRead, <1>RecheckLeave DEF Enter, GoOn

-----------------------------------------------------------------------------
\* The sets of tasks and apps.
LEMMA SetStep ==
    ASSUME IInv, NEW t \in Task, Enter(t) \/ TakeControl(t) \/ GoOn(t)
    PROVE  SetTypes'
<1>0. SetTypes
  BY DEF IInv, TypeOK
<1> USE OwnerAssumption
<1> USE DEF slot, device, session, driver, evidence, overlaps, NewEpoch,
            SetTypes
<1>Register. CASE Register(t)
  <2>1. orphan' \in BOOLEAN
    BY <1>Register DEF Register
  <2> QED
    BY <1>0, <1>Register, <2>1, SMT DEF Register
<1>Unregister. CASE Unregister(t)
  BY <1>0, <1>Unregister, SMT DEF Unregister
<1>Recover. CASE Recover(t)
  BY <1>0, <1>Recover, SMT DEF Recover
<1>FeEnter. CASE FeEnter(t)
  BY <1>0, <1>FeEnter, SMT DEF FeEnter
<1>Acquire. CASE Acquire(t)
  BY <1>0, <1>Acquire, SMT DEF Acquire
<1>Release. CASE Release(t)
  BY <1>0, <1>Release, SMT DEF Release
<1>ControlEnter. CASE ControlEnter(t)
  BY <1>0, <1>ControlEnter, SMT DEF ControlEnter
<1>Look. CASE Look(t)
  BY <1>0, <1>Look, SMT DEF Look
<1>ReadEnter. CASE ReadEnter(t)
  BY <1>0, <1>ReadEnter, SMT DEF ReadEnter, Forget
<1>RecheckEnter. CASE RecheckEnter(t)
  BY <1>0, <1>RecheckEnter, SMT DEF RecheckEnter
<1>TakeControl. CASE TakeControl(t)
  BY <1>0, <1>TakeControl, SMT DEF TakeControl, TouchControl, TouchRecover, Watching,
      TouchRelease, TouchFrontEnd
<1>CancelUnregister. CASE CancelUnregister(t)
  BY <1>0, <1>CancelUnregister, SMT DEF CancelUnregister
<1>EndUnregister. CASE EndUnregister(t)
  <2>1. orphan' \in BOOLEAN
    BY <1>EndUnregister DEF EndUnregister
  <2> QED
    BY <1>0, <1>EndUnregister, <2>1, SMT DEF EndUnregister
<1>RecoverReturn. CASE RecoverReturn(t)
  BY <1>0, <1>RecoverReturn, SMT DEF RecoverReturn
<1>EndRecover. CASE EndRecover(t)
  BY <1>0, <1>EndRecover, SMT DEF EndRecover
<1>WaitCheck. CASE WaitCheck(t)
  BY <1>0, <1>WaitCheck, SMT DEF WaitCheck
<1>TakeQuiesced. CASE TakeQuiesced(t)
  BY <1>0, <1>TakeQuiesced, SMT DEF TakeQuiesced
<1>Woken. CASE Woken(t)
  BY <1>0, <1>Woken, SMT DEF Woken
<1>GiveControl. CASE GiveControl(t)
  BY <1>0, <1>GiveControl, SMT DEF GiveControl
<1>FeReturn. CASE FeReturn(t)
  BY <1>0, <1>FeReturn, SMT DEF FeReturn
<1>FeLeave. CASE FeLeave(t)
  BY <1>0, <1>FeLeave, SMT DEF FeLeave
<1>CancelRelease. CASE CancelRelease(t)
  BY <1>0, <1>CancelRelease, SMT DEF CancelRelease
<1>StopRelease. CASE StopRelease(t)
  BY <1>0, <1>StopRelease, Zenon DEF StopRelease
<1>LeaveRelease. CASE LeaveRelease(t)
  BY <1>0, <1>LeaveRelease, SMT DEF LeaveRelease
<1>EndRelease. CASE EndRelease(t)
  BY <1>0, <1>EndRelease, SMT DEF EndRelease
<1>Return. CASE Return(t)
  BY <1>0, <1>Return, SMT DEF Return
<1>PauseEnter. CASE PauseEnter(t)
  BY <1>0, <1>PauseEnter, SMT DEF PauseEnter
<1>PauseRefuse. CASE PauseRefuse(t)
  BY <1>0, <1>PauseRefuse, SMT DEF PauseRefuse
<1>Check. CASE Check(t)
  BY <1>0, <1>Check, SMT DEF Check, CheckRefuse, CheckPass, CheckPause,
      TouchControl, Watching
<1>DriverReturn. CASE DriverReturn(t)
  BY <1>0, <1>DriverReturn, SMT DEF DriverReturn
<1>Commit. CASE Commit(t)
  BY <1>0, <1>Commit, SMT DEF Commit
<1>Count. CASE Count(t)
  BY <1>0, <1>Count, SMT DEF Count
<1>Leave. CASE Leave(t)
  BY <1>0, <1>Leave, SMT DEF Leave
<1>Sample. CASE Sample(t)
  BY <1>0, <1>Sample, SMT DEF Sample, Overlap
<1>ReadReturn. CASE ReadReturn(t)
  BY <1>0, <1>ReadReturn, SMT DEF ReadReturn
<1>Receipt. CASE Receipt(t)
  BY <1>0, <1>Receipt, SMT DEF Receipt, Forget
<1>LeaveRead. CASE LeaveRead(t)
  BY <1>0, <1>LeaveRead, SMT DEF LeaveRead
<1>RecheckLeave. CASE RecheckLeave(t)
  BY <1>0, <1>RecheckLeave, SMT DEF RecheckLeave, Forget
<1> QED
  BY <1>Register, <1>Unregister, <1>Recover, <1>FeEnter, <1>Acquire,
      <1>Release, <1>ControlEnter, <1>Look, <1>ReadEnter,
      <1>RecheckEnter, <1>TakeControl, <1>CancelUnregister,
      <1>EndUnregister, <1>RecoverReturn, <1>EndRecover, <1>WaitCheck,
      <1>TakeQuiesced, <1>Woken, <1>GiveControl, <1>FeReturn, <1>FeLeave,
      <1>CancelRelease, <1>StopRelease, <1>LeaveRelease, <1>EndRelease,
      <1>Return, <1>PauseEnter, <1>PauseRefuse, <1>Check, <1>DriverReturn,
      <1>Commit, <1>Count, <1>Leave, <1>Sample, <1>ReadReturn, <1>Receipt,
      <1>LeaveRead, <1>RecheckLeave DEF Enter, GoOn

-----------------------------------------------------------------------------
\* The counters are exact.  A step moves one task, and what it does to a
\* counter is what that does to the set the counter stands for.
\* What a task's move does to the number of tasks at the places S.
LEMMA Shift ==
    ASSUME CallTypes, NEW t \in Task, NEW p \in Pc, Goto(t, p), NEW CONSTANT S
    PROVE  /\ Cardinality(At(S)) \in Nat /\ Cardinality(At(S)') \in Nat
           /\ (pc[t] \in S <=> p \in S)
              => Cardinality(At(S)') = Cardinality(At(S))
           /\ pc[t] \notin S /\ p \in S
              => Cardinality(At(S)') = Cardinality(At(S)) + 1
           /\ pc[t] \in S /\ p \notin S
              => /\ Cardinality(At(S)') = Cardinality(At(S)) - 1
                 /\ Cardinality(At(S)) > 0
<1>1. pc \in [Task -> Pc] /\ pc' = [pc EXCEPT ![t] = p]
  BY DEF CallTypes, Goto
<1>2. At(S) = AtOf(pc, S) /\ At(S)' = AtOf([pc EXCEPT ![t] = p], S)
  BY <1>1 DEF At
<1>3. LET m == Cardinality(AtOf(pc, S))
          n == Cardinality(AtOf([pc EXCEPT ![t] = p], S))
      IN  /\ m \in Nat /\ n \in Nat
          /\ (pc[t] \in S) = (p \in S) => n = m
          /\ pc[t] \notin S /\ p \in S => n = m + 1
          /\ pc[t] \in S /\ p \notin S => n = m - 1 /\ m > 0
  BY <1>1, MoveCount
<1> QED
  BY <1>2, <1>3

\* A step that no counter notices.
LEMMA Stay ==
    ASSUME CallTypes, Accounting, NEW t \in Task, NEW p \in Pc, Goto(t, p),
           pc[t] \in InFlightPc <=> p \in InFlightPc,
           pc[t] \in ControlPc <=> p \in ControlPc,
           pc[t] \in WaiterPc <=> p \in WaiterPc,
           UNCHANGED <<in_flight, diagnostic_controls, waiters>>
    PROVE  Accounting'
<1>1. /\ Cardinality(At(InFlightPc)') = Cardinality(At(InFlightPc))
      /\ Cardinality(At(ControlPc)') = Cardinality(At(ControlPc))
      /\ Cardinality(At(WaiterPc)') = Cardinality(At(WaiterPc))
  BY Shift
<1> QED
  BY <1>1 DEF Accounting, InFlight, InControl, WaiterPc

\* A call goes in, and counts itself.
LEMMA GoIn ==
    ASSUME CallTypes, Accounting, NEW t \in Task, NEW p \in InFlightPc,
           Goto(t, p), NEW c \in {0, 1}, CountIn(c),
           pc[t] \in {"idle", "toggle"}, (c = 1) <=> p \in ControlPc
    PROVE  Accounting'
<1>1. /\ p \in Pc /\ p \notin WaiterPc /\ pc[t] \notin InFlightPc
      /\ pc[t] \notin ControlPc /\ pc[t] \notin WaiterPc
  BY DEF Pc, InFlightPc, ControlPc, ReadPc, ReleasePc, FePc, WaiterPc
<1>2. /\ Cardinality(At(InFlightPc)') = Cardinality(At(InFlightPc)) + 1
      /\ Cardinality(At(WaiterPc)') = Cardinality(At(WaiterPc))
      /\ c = 1 => Cardinality(At(ControlPc)') = Cardinality(At(ControlPc)) + 1
      /\ c = 0 => Cardinality(At(ControlPc)') = Cardinality(At(ControlPc))
      /\ Cardinality(At(ControlPc)) \in Nat
  BY <1>1, Shift
<1> QED
  BY <1>2 DEF Accounting, InFlight, InControl, WaiterPc, CountIn

\* A call leaves, and was counted.
LEMMA GoOut ==
    ASSUME CallTypes, Accounting, NEW t \in Task,
           NEW p \in {"idle", "unlock", "wait"}, Goto(t, p),
           NEW c \in {0, 1}, CountOut(c),
           pc[t] \in InFlightPc, (c = 1) <=> pc[t] \in ControlPc
    PROVE  Accounting'
<1>1. /\ p \in Pc /\ p \notin WaiterPc /\ pc[t] \notin WaiterPc
      /\ p \notin InFlightPc /\ p \notin ControlPc
  BY DEF Pc, InFlightPc, ControlPc, ReadPc, ReleasePc, FePc, WaiterPc, WaitPc
<1>2. /\ Cardinality(At(InFlightPc)') = Cardinality(At(InFlightPc)) - 1
      /\ Cardinality(At(InFlightPc)) > 0
      /\ Cardinality(At(WaiterPc)') = Cardinality(At(WaiterPc))
      /\ c = 1 => /\ Cardinality(At(ControlPc)') = Cardinality(At(ControlPc)) - 1
                  /\ Cardinality(At(ControlPc)) > 0
      /\ c = 0 => Cardinality(At(ControlPc)') = Cardinality(At(ControlPc))
  BY <1>1, Shift
<1> QED
  BY <1>2 DEF Accounting, InFlight, InControl, WaiterPc, CountOut, OneLess

\* A waiter blocks, or gives its place up.
LEMMA WaiterMoves ==
    ASSUME CallTypes, Accounting, NEW t \in Task,
           NEW p \in WaitPc \cup {"endRel", "endUnreg"}, Goto(t, p),
           pc[t] \in WaitPc,
           UNCHANGED <<in_flight, diagnostic_controls>>,
           \/ pc[t] = "wait" /\ p = "blocked" /\ waiters' = waiters + 1
           \/ pc[t] = "woken" /\ p \notin WaiterPc /\ waiters' = waiters - 1
    PROVE  Accounting'
<1>1. /\ p \in Pc /\ p \notin InFlightPc /\ pc[t] \notin InFlightPc
      /\ p \notin ControlPc /\ pc[t] \notin ControlPc
  BY DEF Pc, InFlightPc, ControlPc, ReadPc, ReleasePc, FePc, WaitPc, UnregPc
<1>2. /\ Cardinality(At(InFlightPc)') = Cardinality(At(InFlightPc))
      /\ Cardinality(At(ControlPc)') = Cardinality(At(ControlPc))
  BY <1>1, Shift
<1>3. Cardinality(At(WaiterPc)') = waiters'
  BY <1>1, Shift DEF Accounting, WaiterPc
<1> QED
  BY <1>2, <1>3 DEF Accounting, InFlight, InControl, WaiterPc

\* wait_quiesced may go by the counter: at zero nobody is inside.
LEMMA NobodyIn ==
    ASSUME IInv, in_flight = 0
    PROVE  \A u \in Task : pc[u] \notin InFlightPc
BY EmptyCount DEF IInv, TypeOK, CallTypes, Accounting, InFlight, At

\* Nor does register drop anybody: on a slot it takes nobody is inside and
\* nobody waits.
LEMMA NobodyDropped ==
    ASSUME IInv, ~present, ~removing, ~leased
    PROVE  in_flight = 0 /\ diagnostic_controls = 0 /\ waiters = 0
<1>1. CallTypes /\ Accounting /\ FlagsAgree /\ Roles /\ Quiet
  BY DEF IInv, TypeOK
<1>2. \A u \in Task : pc[u] \notin InFlightPc /\ pc[u] \notin ControlPc
  BY <1>1 DEF Quiet, InFlightPc
<1>3. \A u \in Task : pc[u] \notin WaiterPc
  BY <1>1 DEF FlagsAgree, Roles, Releasing, Detaching, WaitPc, WaiterPc
<1> QED
  BY <1>1, <1>2, <1>3, EmptyCount
  DEF Accounting, InFlight, InControl, WaiterPc, At, CallTypes

\* Accounting is kept by every step.
LEMMA AccountingStep ==
    ASSUME IInv, NEW t \in Task, Enter(t) \/ TakeControl(t) \/ GoOn(t)
    PROVE  Accounting'
<1>0. CountTypes /\ CallTypes /\ Accounting
  BY DEF IInv, TypeOK
<1>1. ASSUME UNCHANGED <<pc, in_flight, diagnostic_controls, waiters>>
      PROVE  Accounting'
  BY <1>0, <1>1 DEF Accounting, InFlight, InControl, At
<1> USE DEF slot, device, session, stream, counts, Start, Finish, Begin, Pc,
            InFlightPc, WaiterPc, ControlPc, ReadPc, ReleasePc, FePc,
            WaitPc, RecoverPc, UnregPc
<1>Register. CASE Register(t)
  <2>1. in_flight = 0 /\ diagnostic_controls = 0 /\ waiters = 0
    BY <1>Register, NobodyDropped DEF Register
  <2> QED
    BY <1>Register, <1>1, <2>1 DEF Register
<1>Unregister. CASE Unregister(t)
  BY <1>0, <1>Unregister, Stay, SMT DEF Unregister
<1>Recover. CASE Recover(t)
  BY <1>0, <1>Recover, Stay, SMT DEF Recover
<1>FeEnter. CASE FeEnter(t)
  BY <1>0, <1>FeEnter, GoIn, SMT DEF FeEnter
<1>Acquire. CASE Acquire(t)
  BY <1>Acquire, <1>1 DEF Acquire
<1>Release. CASE Release(t)
  <2>1. CASE CountIn(0) /\ Start(t, "release", "cancelRel")
    BY <1>0, <1>Release, <2>1, GoIn DEF Release
  <2>2. CASE Start(t, "release", "wait") /\ UNCHANGED <<counts, tokens>>
    BY <1>0, <1>Release, <2>2, Stay DEF Release
  <2> QED
    BY <1>Release, <2>1, <2>2 DEF Release
<1>ControlEnter. CASE ControlEnter(t)
  BY <1>0, <1>ControlEnter, GoIn, SMT DEF ControlEnter
<1>Look. CASE Look(t)
  BY <1>0, <1>Look, Stay, SMT DEF Look
<1>ReadEnter. CASE ReadEnter(t)
  BY <1>0, <1>ReadEnter, GoIn, SMT DEF ReadEnter
<1>RecheckEnter. CASE RecheckEnter(t)
  BY <1>0, <1>RecheckEnter, GoIn, SMT DEF RecheckEnter
<1>TakeControl. CASE TakeControl(t)
  BY <1>0, <1>TakeControl, Stay, SMT DEF TakeControl, AfterLock, LockPc
<1>CancelUnregister. CASE CancelUnregister(t)
  BY <1>0, <1>CancelUnregister, Stay, SMT DEF CancelUnregister
<1>EndUnregister. CASE EndUnregister(t)
  BY <1>0, <1>EndUnregister, Stay, SMT DEF EndUnregister
<1>RecoverReturn. CASE RecoverReturn(t)
  BY <1>0, <1>RecoverReturn, Stay, SMT DEF RecoverReturn
<1>EndRecover. CASE EndRecover(t)
  BY <1>0, <1>EndRecover, Stay, SMT DEF EndRecover
<1>WaitCheck. CASE WaitCheck(t)
  <2>1. UNCHANGED <<in_flight, diagnostic_controls>> /\ pc[t] = "wait"
    BY <1>WaitCheck DEF WaitCheck
  <2>2. CASE Goto(t, AfterWait(t)) /\ UNCHANGED waiters
    BY <1>0, <2>1, <2>2, Stay DEF AfterWait
  <2>3. CASE Goto(t, "blocked") /\ waiters' = waiters + 1
    BY <1>0, <2>1, <2>3, WaiterMoves
  <2> QED
    BY <1>WaitCheck, <2>2, <2>3 DEF WaitCheck
<1>TakeQuiesced. CASE TakeQuiesced(t)
  BY <1>0, <1>TakeQuiesced, Stay, SMT DEF TakeQuiesced
<1>Woken. CASE Woken(t)
  <2>1. /\ UNCHANGED <<in_flight, diagnostic_controls>> /\ pc[t] = "woken"
        /\ waiters' = waiters - 1
    BY <1>Woken DEF Woken
  <2>2. PICK p \in {"wait", "endRel", "endUnreg"} : Goto(t, p)
    BY <1>Woken DEF Woken, AfterWait
  <2> QED
    BY <1>0, <2>1, <2>2, WaiterMoves
<1>GiveControl. CASE GiveControl(t)
  BY <1>0, <1>GiveControl, Stay, SMT DEF GiveControl, AfterUnlock
<1>FeReturn. CASE FeReturn(t)
  BY <1>0, <1>FeReturn, Stay, SMT DEF FeReturn
<1>FeLeave. CASE FeLeave(t)
  BY <1>0, <1>FeLeave, GoOut, SMT DEF FeLeave
<1>CancelRelease. CASE CancelRelease(t)
  BY <1>0, <1>CancelRelease, Stay, SMT DEF CancelRelease
<1>StopRelease. CASE StopRelease(t)
  BY <1>0, <1>StopRelease, Stay, SMT DEF StopRelease
<1>LeaveRelease. CASE LeaveRelease(t)
  BY <1>0, <1>LeaveRelease, GoOut, SMT DEF LeaveRelease
<1>EndRelease. CASE EndRelease(t)
  BY <1>0, <1>EndRelease, Stay, SMT DEF EndRelease
<1>Return. CASE Return(t)
  BY <1>0, <1>Return, Stay, SMT DEF Return
<1>PauseEnter. CASE PauseEnter(t)
  BY <1>0, <1>PauseEnter, GoIn, SMT DEF PauseEnter
<1>PauseRefuse. CASE PauseRefuse(t)
  BY <1>0, <1>PauseRefuse, Stay, SMT DEF PauseRefuse
<1>Check. CASE Check(t)
  BY <1>0, <1>Check, Stay, SMT DEF Check, CheckRefuse, CheckPass,
      CheckPause, Leaving
<1>DriverReturn. CASE DriverReturn(t)
  BY <1>0, <1>DriverReturn, Stay, SMT DEF DriverReturn, Leaving
<1>Commit. CASE Commit(t)
  BY <1>0, <1>Commit, Stay, SMT DEF Commit, Leaving
<1>Count. CASE Count(t)
  BY <1>0, <1>Count, Stay, SMT DEF Count
<1>Leave. CASE Leave(t)
  BY <1>0, <1>Leave, GoOut, SMT DEF Leave
<1>Sample. CASE Sample(t)
  BY <1>0, <1>Sample, Stay, SMT DEF Sample, AfterRead
<1>ReadReturn. CASE ReadReturn(t)
  BY <1>0, <1>ReadReturn, Stay, SMT DEF ReadReturn, AfterRead
<1>Receipt. CASE Receipt(t)
  BY <1>0, <1>Receipt, Stay, SMT DEF Receipt
<1>LeaveRead. CASE LeaveRead(t)
  BY <1>0, <1>LeaveRead, GoOut, SMT DEF LeaveRead
<1>RecheckLeave. CASE RecheckLeave(t)
  BY <1>0, <1>RecheckLeave, GoOut, SMT DEF RecheckLeave
<1> QED
  BY <1>Register, <1>Unregister, <1>Recover, <1>FeEnter, <1>Acquire,
      <1>Release, <1>ControlEnter, <1>Look, <1>ReadEnter,
      <1>RecheckEnter, <1>TakeControl, <1>CancelUnregister,
      <1>EndUnregister, <1>RecoverReturn, <1>EndRecover, <1>WaitCheck,
      <1>TakeQuiesced, <1>Woken, <1>GiveControl, <1>FeReturn, <1>FeLeave,
      <1>CancelRelease, <1>StopRelease, <1>LeaveRelease, <1>EndRelease,
      <1>Return, <1>PauseEnter, <1>PauseRefuse, <1>Check, <1>DriverReturn,
      <1>Commit, <1>Count, <1>Leave, <1>Sample, <1>ReadReturn, <1>Receipt,
      <1>LeaveRead, <1>RecheckLeave DEF Enter, GoOn

-----------------------------------------------------------------------------
\* The parts of the inductive invariant.  A task's place tells what the slot's
\* flags are while it is there.
LEMMA FlagsAgreeStep ==
    ASSUME IInv, NEW t \in Task, Enter(t) \/ TakeControl(t) \/ GoOn(t)
    PROVE  FlagsAgree'
<1>0. FlagTypes /\ FlagsAgree /\ Roles
  BY DEF IInv, TypeOK
<1> USE DEF slot, device, session, stream, locals, Goto, Start, Finish,
            Begin, FlagsAgree, Roles, Releasing, Detaching, Recovering
<1>Register. CASE Register(t)
  <2>1. leased' = FALSE /\ active' = FALSE /\ ~closing'
    BY <1>0, <1>Register, Zenon DEF Register, FlagTypes
  <2>2. driver_ctx' = (present' \/ removing')
    BY <1>Register, Zenon DEF Register
  <2> QED
    BY <2>1, <2>2, Zenon
<1>Unregister. CASE Unregister(t)
  BY <1>0, <1>Unregister, SMT DEF Unregister
<1>Recover. CASE Recover(t)
  BY <1>0, <1>Recover, SMT DEF Recover
<1>FeEnter. CASE FeEnter(t)
  BY <1>0, <1>FeEnter, SMT DEF FeEnter
<1>Acquire. CASE Acquire(t)
  BY <1>0, <1>Acquire, SMT DEF Acquire
<1>Release. CASE Release(t)
  BY <1>0, <1>Release, SMT DEF Release
<1>ControlEnter. CASE ControlEnter(t)
  BY <1>0, <1>ControlEnter, SMT DEF ControlEnter
<1>Look. CASE Look(t)
  BY <1>0, <1>Look, SMT DEF Look
<1>ReadEnter. CASE ReadEnter(t)
  BY <1>0, <1>ReadEnter, SMT DEF ReadEnter
<1>RecheckEnter. CASE RecheckEnter(t)
  BY <1>0, <1>RecheckEnter, SMT DEF RecheckEnter
<1>TakeControl. CASE TakeControl(t)
  BY <1>0, <1>TakeControl, SMT DEF TakeControl
<1>CancelUnregister. CASE CancelUnregister(t)
  BY <1>0, <1>CancelUnregister, SMT DEF CancelUnregister
<1>EndUnregister. CASE EndUnregister(t)
  <2>1. ~present /\ removing
    BY <1>0, <1>EndUnregister, SMT DEF EndUnregister, UnregPc
  <2> QED
    BY <1>0, <1>EndUnregister, <2>1, Zenon DEF EndUnregister, FlagTypes
<1>RecoverReturn. CASE RecoverReturn(t)
  BY <1>0, <1>RecoverReturn, SMT DEF RecoverReturn
<1>EndRecover. CASE EndRecover(t)
  <2>1. present /\ removing
    BY <1>0, <1>EndRecover, SMT DEF EndRecover, RecoverPc
  <2> QED
    BY <1>0, <1>EndRecover, <2>1, Zenon DEF EndRecover, FlagTypes
<1>WaitCheck. CASE WaitCheck(t)
  BY <1>0, <1>WaitCheck, SMT DEF WaitCheck
<1>TakeQuiesced. CASE TakeQuiesced(t)
  BY <1>0, <1>TakeQuiesced, SMT DEF TakeQuiesced
<1>Woken. CASE Woken(t)
  BY <1>0, <1>Woken, SMT DEF Woken
<1>GiveControl. CASE GiveControl(t)
  BY <1>0, <1>GiveControl, SMT DEF GiveControl
<1>FeReturn. CASE FeReturn(t)
  BY <1>0, <1>FeReturn, SMT DEF FeReturn
<1>FeLeave. CASE FeLeave(t)
  BY <1>0, <1>FeLeave, SMT DEF FeLeave
<1>CancelRelease. CASE CancelRelease(t)
  BY <1>0, <1>CancelRelease, SMT DEF CancelRelease
<1>StopRelease. CASE StopRelease(t)
  BY <1>0, <1>StopRelease, SMT DEF StopRelease
<1>LeaveRelease. CASE LeaveRelease(t)
  BY <1>0, <1>LeaveRelease, SMT DEF LeaveRelease
<1>EndRelease. CASE EndRelease(t)
  <2>1. leased' = active' /\ ~closing'
    BY <1>EndRelease, Zenon DEF EndRelease
  <2>2. driver_ctx' = (present' \/ removing')
    BY <1>0, <1>EndRelease, Zenon DEF EndRelease
  <2> QED
    BY <2>1, <2>2, Zenon
<1>Return. CASE Return(t)
  BY <1>0, <1>Return, SMT DEF Return
<1>PauseEnter. CASE PauseEnter(t)
  BY <1>0, <1>PauseEnter, SMT DEF PauseEnter
<1>PauseRefuse. CASE PauseRefuse(t)
  BY <1>0, <1>PauseRefuse, SMT DEF PauseRefuse
<1>Check. CASE Check(t)
  BY <1>0, <1>Check, SMT DEF Check, CheckRefuse, CheckPass, CheckPause
<1>DriverReturn. CASE DriverReturn(t)
  BY <1>0, <1>DriverReturn, SMT DEF DriverReturn
<1>Commit. CASE Commit(t)
  BY <1>0, <1>Commit, SMT DEF Commit, CommitConfigure, CommitStart,
      CommitStop, CommitPause, CommitNothing
<1>Count. CASE Count(t)
  BY <1>0, <1>Count, SMT DEF Count
<1>Leave. CASE Leave(t)
  BY <1>0, <1>Leave, SMT DEF Leave
<1>Sample. CASE Sample(t)
  BY <1>0, <1>Sample, SMT DEF Sample
<1>ReadReturn. CASE ReadReturn(t)
  BY <1>0, <1>ReadReturn, SMT DEF ReadReturn
<1>Receipt. CASE Receipt(t)
  BY <1>0, <1>Receipt, SMT DEF Receipt
<1>LeaveRead. CASE LeaveRead(t)
  BY <1>0, <1>LeaveRead, SMT DEF LeaveRead
<1>RecheckLeave. CASE RecheckLeave(t)
  BY <1>0, <1>RecheckLeave, SMT DEF RecheckLeave
<1> QED
  BY <1>Register, <1>Unregister, <1>Recover, <1>FeEnter, <1>Acquire,
      <1>Release, <1>ControlEnter, <1>Look, <1>ReadEnter,
      <1>RecheckEnter, <1>TakeControl, <1>CancelUnregister,
      <1>EndUnregister, <1>RecoverReturn, <1>EndRecover, <1>WaitCheck,
      <1>TakeQuiesced, <1>Woken, <1>GiveControl, <1>FeReturn, <1>FeLeave,
      <1>CancelRelease, <1>StopRelease, <1>LeaveRelease, <1>EndRelease,
      <1>Return, <1>PauseEnter, <1>PauseRefuse, <1>Check, <1>DriverReturn,
      <1>Commit, <1>Count, <1>Leave, <1>Sample, <1>ReadReturn, <1>Receipt,
      <1>LeaveRead, <1>RecheckLeave DEF Enter, GoOn

\* A task's place and its call agree with the flags.
LEMMA RolesStep ==
    ASSUME IInv, NEW t \in Task, Enter(t) \/ TakeControl(t) \/ GoOn(t)
    PROVE  Roles'
<1>0. CallTypes /\ FlagsAgree /\ Roles /\ OneOfEach
  BY DEF IInv, TypeOK
<1>1. /\ pc \in [Task -> Pc]
      /\ op \in [Task -> Ops \cup PauseOps \cup {"none"}]
  BY <1>0 DEF CallTypes
<1> USE DEF slot, device, session, stream, locals, Goto, Start, Finish,
            Begin, FlagsAgree, Roles, OneOfEach, Releasing, Detaching,
            Recovering, SessionOps, PauseOps, ControlPc, ReadPc, ReleasePc,
            FePc, WaitPc, RecoverPc, UnregPc
<1>Register. CASE Register(t)
  BY <1>0, <1>1, <1>Register, SMT DEF Register
<1>Unregister. CASE Unregister(t)
  BY <1>0, <1>1, <1>Unregister, SMT DEF Unregister
<1>Recover. CASE Recover(t)
  BY <1>0, <1>1, <1>Recover, SMT DEF Recover
<1>FeEnter. CASE FeEnter(t)
  BY <1>0, <1>1, <1>FeEnter, SMT DEF FeEnter
<1>Acquire. CASE Acquire(t)
  BY <1>0, <1>1, <1>Acquire, SMT DEF Acquire
<1>Release. CASE Release(t)
  BY <1>0, <1>1, <1>Release, SMT DEF Release
<1>ControlEnter. CASE ControlEnter(t)
  BY <1>0, <1>1, <1>ControlEnter, SMT DEF ControlEnter
<1>Look. CASE Look(t)
  BY <1>0, <1>1, <1>Look, SMT DEF Look
<1>ReadEnter. CASE ReadEnter(t)
  BY <1>0, <1>1, <1>ReadEnter, SMT DEF ReadEnter
<1>RecheckEnter. CASE RecheckEnter(t)
  BY <1>0, <1>1, <1>RecheckEnter, SMT DEF RecheckEnter
<1>TakeControl. CASE TakeControl(t)
  BY <1>0, <1>1, <1>TakeControl, SMT DEF TakeControl, AfterLock, LockPc
<1>CancelUnregister. CASE CancelUnregister(t)
  BY <1>0, <1>1, <1>CancelUnregister, SMT DEF CancelUnregister
<1>EndUnregister. CASE EndUnregister(t)
  BY <1>0, <1>1, <1>EndUnregister, SMT DEF EndUnregister
<1>RecoverReturn. CASE RecoverReturn(t)
  BY <1>0, <1>1, <1>RecoverReturn, SMT DEF RecoverReturn
<1>EndRecover. CASE EndRecover(t)
  BY <1>0, <1>1, <1>EndRecover, SMT DEF EndRecover
<1>WaitCheck. CASE WaitCheck(t)
  BY <1>0, <1>1, <1>WaitCheck, SMT DEF WaitCheck, AfterWait
<1>TakeQuiesced. CASE TakeQuiesced(t)
  BY <1>0, <1>1, <1>TakeQuiesced, SMT DEF TakeQuiesced
<1>Woken. CASE Woken(t)
  BY <1>0, <1>1, <1>Woken, SMT DEF Woken, AfterWait
<1>GiveControl. CASE GiveControl(t)
  BY <1>0, <1>1, <1>GiveControl, SMT DEF GiveControl, AfterUnlock
<1>FeReturn. CASE FeReturn(t)
  BY <1>0, <1>1, <1>FeReturn, SMT DEF FeReturn
<1>FeLeave. CASE FeLeave(t)
  BY <1>0, <1>1, <1>FeLeave, SMT DEF FeLeave
<1>CancelRelease. CASE CancelRelease(t)
  BY <1>0, <1>1, <1>CancelRelease, SMT DEF CancelRelease
<1>StopRelease. CASE StopRelease(t)
  BY <1>0, <1>1, <1>StopRelease, SMT DEF StopRelease
<1>LeaveRelease. CASE LeaveRelease(t)
  BY <1>0, <1>1, <1>LeaveRelease, SMT DEF LeaveRelease
<1>EndRelease. CASE EndRelease(t)
  BY <1>0, <1>1, <1>EndRelease, SMT DEF EndRelease
<1>Return. CASE Return(t)
  BY <1>0, <1>1, <1>Return, SMT DEF Return
<1>PauseEnter. CASE PauseEnter(t)
  BY <1>0, <1>1, <1>PauseEnter, SMT DEF PauseEnter
<1>PauseRefuse. CASE PauseRefuse(t)
  BY <1>0, <1>1, <1>PauseRefuse, SMT DEF PauseRefuse
<1>Check. CASE Check(t)
  BY <1>0, <1>1, <1>Check, SMT DEF Check, CheckRefuse, CheckPass,
      CheckPause, Leaving
<1>DriverReturn. CASE DriverReturn(t)
  BY <1>0, <1>1, <1>DriverReturn, SMT DEF DriverReturn, Leaving
<1>Commit. CASE Commit(t)
  BY <1>0, <1>1, <1>Commit, SMT DEF Commit, Leaving
<1>Count. CASE Count(t)
  BY <1>0, <1>1, <1>Count, SMT DEF Count
<1>Leave. CASE Leave(t)
  BY <1>0, <1>1, <1>Leave, SMT DEF Leave
<1>Sample. CASE Sample(t)
  BY <1>0, <1>1, <1>Sample, SMT DEF Sample, AfterRead
<1>ReadReturn. CASE ReadReturn(t)
  BY <1>0, <1>1, <1>ReadReturn, SMT DEF ReadReturn, AfterRead
<1>Receipt. CASE Receipt(t)
  BY <1>0, <1>1, <1>Receipt, SMT DEF Receipt
<1>LeaveRead. CASE LeaveRead(t)
  BY <1>0, <1>1, <1>LeaveRead, SMT DEF LeaveRead
<1>RecheckLeave. CASE RecheckLeave(t)
  BY <1>0, <1>1, <1>RecheckLeave, SMT DEF RecheckLeave
<1> QED
  BY <1>Register, <1>Unregister, <1>Recover, <1>FeEnter, <1>Acquire,
      <1>Release, <1>ControlEnter, <1>Look, <1>ReadEnter,
      <1>RecheckEnter, <1>TakeControl, <1>CancelUnregister,
      <1>EndUnregister, <1>RecoverReturn, <1>EndRecover, <1>WaitCheck,
      <1>TakeQuiesced, <1>Woken, <1>GiveControl, <1>FeReturn, <1>FeLeave,
      <1>CancelRelease, <1>StopRelease, <1>LeaveRelease, <1>EndRelease,
      <1>Return, <1>PauseEnter, <1>PauseRefuse, <1>Check, <1>DriverReturn,
      <1>Commit, <1>Count, <1>Leave, <1>Sample, <1>ReadReturn, <1>Receipt,
      <1>LeaveRead, <1>RecheckLeave DEF Enter, GoOn

\* closing and removing each admit one task.
LEMMA OneOfEachStep ==
    ASSUME IInv, NEW t \in Task, Enter(t) \/ TakeControl(t) \/ GoOn(t)
    PROVE  OneOfEach'
<1>0. CallTypes /\ FlagsAgree /\ Roles /\ OneOfEach
  BY DEF IInv, TypeOK
<1>1. /\ pc \in [Task -> Pc]
      /\ op \in [Task -> Ops \cup PauseOps \cup {"none"}]
  BY <1>0 DEF CallTypes
<1> USE DEF slot, device, session, stream, locals, Goto, Start, Finish,
            Begin, FlagsAgree, Roles, OneOfEach, Releasing, Detaching,
            Recovering, SessionOps, PauseOps, ControlPc, ReadPc, ReleasePc,
            FePc, WaitPc, RecoverPc, UnregPc
<1>Register. CASE Register(t)
  BY <1>0, <1>1, <1>Register, SMT DEF Register
<1>Unregister. CASE Unregister(t)
  BY <1>0, <1>1, <1>Unregister, SMT DEF Unregister
<1>Recover. CASE Recover(t)
  BY <1>0, <1>1, <1>Recover, SMT DEF Recover
<1>FeEnter. CASE FeEnter(t)
  BY <1>0, <1>1, <1>FeEnter, SMT DEF FeEnter
<1>Acquire. CASE Acquire(t)
  BY <1>0, <1>1, <1>Acquire, SMT DEF Acquire
<1>Release. CASE Release(t)
  BY <1>0, <1>1, <1>Release, SMT DEF Release
<1>ControlEnter. CASE ControlEnter(t)
  BY <1>0, <1>1, <1>ControlEnter, SMT DEF ControlEnter
<1>Look. CASE Look(t)
  BY <1>0, <1>1, <1>Look, SMT DEF Look
<1>ReadEnter. CASE ReadEnter(t)
  BY <1>0, <1>1, <1>ReadEnter, SMT DEF ReadEnter
<1>RecheckEnter. CASE RecheckEnter(t)
  BY <1>0, <1>1, <1>RecheckEnter, SMT DEF RecheckEnter
<1>TakeControl. CASE TakeControl(t)
  BY <1>0, <1>1, <1>TakeControl, SMT DEF TakeControl, AfterLock, LockPc
<1>CancelUnregister. CASE CancelUnregister(t)
  BY <1>0, <1>1, <1>CancelUnregister, SMT DEF CancelUnregister
<1>EndUnregister. CASE EndUnregister(t)
  BY <1>0, <1>1, <1>EndUnregister, SMT DEF EndUnregister
<1>RecoverReturn. CASE RecoverReturn(t)
  BY <1>0, <1>1, <1>RecoverReturn, SMT DEF RecoverReturn
<1>EndRecover. CASE EndRecover(t)
  BY <1>0, <1>1, <1>EndRecover, SMT DEF EndRecover
<1>WaitCheck. CASE WaitCheck(t)
  BY <1>0, <1>1, <1>WaitCheck, SMT DEF WaitCheck, AfterWait
<1>TakeQuiesced. CASE TakeQuiesced(t)
  BY <1>0, <1>1, <1>TakeQuiesced, SMT DEF TakeQuiesced
<1>Woken. CASE Woken(t)
  BY <1>0, <1>1, <1>Woken, SMT DEF Woken, AfterWait
<1>GiveControl. CASE GiveControl(t)
  BY <1>0, <1>1, <1>GiveControl, SMT DEF GiveControl, AfterUnlock
<1>FeReturn. CASE FeReturn(t)
  BY <1>0, <1>1, <1>FeReturn, SMT DEF FeReturn
<1>FeLeave. CASE FeLeave(t)
  BY <1>0, <1>1, <1>FeLeave, SMT DEF FeLeave
<1>CancelRelease. CASE CancelRelease(t)
  BY <1>0, <1>1, <1>CancelRelease, SMT DEF CancelRelease
<1>StopRelease. CASE StopRelease(t)
  BY <1>0, <1>1, <1>StopRelease, SMT DEF StopRelease
<1>LeaveRelease. CASE LeaveRelease(t)
  BY <1>0, <1>1, <1>LeaveRelease, SMT DEF LeaveRelease
<1>EndRelease. CASE EndRelease(t)
  BY <1>0, <1>1, <1>EndRelease, SMT DEF EndRelease
<1>Return. CASE Return(t)
  BY <1>0, <1>1, <1>Return, SMT DEF Return
<1>PauseEnter. CASE PauseEnter(t)
  BY <1>0, <1>1, <1>PauseEnter, SMT DEF PauseEnter
<1>PauseRefuse. CASE PauseRefuse(t)
  BY <1>0, <1>1, <1>PauseRefuse, SMT DEF PauseRefuse
<1>Check. CASE Check(t)
  BY <1>0, <1>1, <1>Check, SMT DEF Check, CheckRefuse, CheckPass,
      CheckPause, Leaving
<1>DriverReturn. CASE DriverReturn(t)
  BY <1>0, <1>1, <1>DriverReturn, SMT DEF DriverReturn, Leaving
<1>Commit. CASE Commit(t)
  BY <1>0, <1>1, <1>Commit, SMT DEF Commit, Leaving
<1>Count. CASE Count(t)
  BY <1>0, <1>1, <1>Count, SMT DEF Count
<1>Leave. CASE Leave(t)
  BY <1>0, <1>1, <1>Leave, SMT DEF Leave
<1>Sample. CASE Sample(t)
  BY <1>0, <1>1, <1>Sample, SMT DEF Sample, AfterRead
<1>ReadReturn. CASE ReadReturn(t)
  BY <1>0, <1>1, <1>ReadReturn, SMT DEF ReadReturn, AfterRead
<1>Receipt. CASE Receipt(t)
  BY <1>0, <1>1, <1>Receipt, SMT DEF Receipt
<1>LeaveRead. CASE LeaveRead(t)
  BY <1>0, <1>1, <1>LeaveRead, SMT DEF LeaveRead
<1>RecheckLeave. CASE RecheckLeave(t)
  BY <1>0, <1>1, <1>RecheckLeave, SMT DEF RecheckLeave
<1> QED
  BY <1>Register, <1>Unregister, <1>Recover, <1>FeEnter, <1>Acquire,
      <1>Release, <1>ControlEnter, <1>Look, <1>ReadEnter,
      <1>RecheckEnter, <1>TakeControl, <1>CancelUnregister,
      <1>EndUnregister, <1>RecoverReturn, <1>EndRecover, <1>WaitCheck,
      <1>TakeQuiesced, <1>Woken, <1>GiveControl, <1>FeReturn, <1>FeLeave,
      <1>CancelRelease, <1>StopRelease, <1>LeaveRelease, <1>EndRelease,
      <1>Return, <1>PauseEnter, <1>PauseRefuse, <1>Check, <1>DriverReturn,
      <1>Commit, <1>Count, <1>Leave, <1>Sample, <1>ReadReturn, <1>Receipt,
      <1>LeaveRead, <1>RecheckLeave DEF Enter, GoOn

\* Nobody goes in after a wait has ended: the flags set before it are the ones
\* every entry checks.
LEMMA QuietStep ==
    ASSUME IInv, NEW t \in Task, Enter(t) \/ TakeControl(t) \/ GoOn(t)
    PROVE  Quiet'
<1>0. CallTypes /\ FlagsAgree /\ Roles /\ OneOfEach /\ Quiet
  BY DEF IInv, TypeOK
<1>1. /\ pc \in [Task -> Pc]
      /\ op \in [Task -> Ops \cup PauseOps \cup {"none"}]
  BY <1>0 DEF CallTypes
<1> USE DEF slot, device, session, stream, locals, Goto, Start, Finish,
            Begin, FlagsAgree, Roles, OneOfEach, Quiet, Releasing, Detaching,
            Recovering, InFlightPc, ControlPc, ReadPc, ReleasePc, FePc, WaitPc,
            RecoverPc, UnregPc
<1>Register. CASE Register(t)
  BY <1>0, <1>1, <1>Register, SMT DEF Register
<1>Unregister. CASE Unregister(t)
  BY <1>0, <1>1, <1>Unregister, SMT DEF Unregister
<1>Recover. CASE Recover(t)
  BY <1>0, <1>1, <1>Recover, SMT DEF Recover
<1>FeEnter. CASE FeEnter(t)
  BY <1>0, <1>1, <1>FeEnter, SMT DEF FeEnter
<1>Acquire. CASE Acquire(t)
  BY <1>0, <1>1, <1>Acquire, SMT DEF Acquire
<1>Release. CASE Release(t)
  BY <1>0, <1>1, <1>Release, SMT DEF Release
<1>ControlEnter. CASE ControlEnter(t)
  BY <1>0, <1>1, <1>ControlEnter, SMT DEF ControlEnter, SessionUsable
<1>Look. CASE Look(t)
  BY <1>0, <1>1, <1>Look, SMT DEF Look
<1>ReadEnter. CASE ReadEnter(t)
  BY <1>0, <1>1, <1>ReadEnter, SMT DEF ReadEnter, SessionUsable,
      StreamUsable
<1>RecheckEnter. CASE RecheckEnter(t)
  BY <1>0, <1>1, <1>RecheckEnter, SMT DEF RecheckEnter, SessionUsable,
      StreamUsable
<1>TakeControl. CASE TakeControl(t)
  BY <1>0, <1>1, <1>TakeControl, SMT DEF TakeControl, AfterLock, LockPc
<1>CancelUnregister. CASE CancelUnregister(t)
  BY <1>0, <1>1, <1>CancelUnregister, SMT DEF CancelUnregister
<1>EndUnregister. CASE EndUnregister(t)
  BY <1>0, <1>1, <1>EndUnregister, SMT DEF EndUnregister
<1>RecoverReturn. CASE RecoverReturn(t)
  BY <1>0, <1>1, <1>RecoverReturn, SMT DEF RecoverReturn
<1>EndRecover. CASE EndRecover(t)
  BY <1>0, <1>1, <1>EndRecover, SMT DEF EndRecover
<1>WaitCheck. CASE WaitCheck(t)
  BY <1>0, <1>1, <1>WaitCheck, NobodyIn, SMT DEF WaitCheck, AfterWait
<1>TakeQuiesced. CASE TakeQuiesced(t)
  BY <1>0, <1>1, <1>TakeQuiesced, SMT DEF TakeQuiesced
<1>Woken. CASE Woken(t)
  BY <1>0, <1>1, <1>Woken, NobodyIn, SMT DEF Woken, AfterWait
<1>GiveControl. CASE GiveControl(t)
  BY <1>0, <1>1, <1>GiveControl, SMT DEF GiveControl, AfterUnlock
<1>FeReturn. CASE FeReturn(t)
  BY <1>0, <1>1, <1>FeReturn, SMT DEF FeReturn
<1>FeLeave. CASE FeLeave(t)
  BY <1>0, <1>1, <1>FeLeave, SMT DEF FeLeave
<1>CancelRelease. CASE CancelRelease(t)
  BY <1>0, <1>1, <1>CancelRelease, SMT DEF CancelRelease
<1>StopRelease. CASE StopRelease(t)
  BY <1>0, <1>1, <1>StopRelease, SMT DEF StopRelease
<1>LeaveRelease. CASE LeaveRelease(t)
  BY <1>0, <1>1, <1>LeaveRelease, SMT DEF LeaveRelease
<1>EndRelease. CASE EndRelease(t)
  BY <1>0, <1>1, <1>EndRelease, SMT DEF EndRelease
<1>Return. CASE Return(t)
  BY <1>0, <1>1, <1>Return, SMT DEF Return
<1>PauseEnter. CASE PauseEnter(t)
  BY <1>0, <1>1, <1>PauseEnter, SMT DEF PauseEnter, MayPause
<1>PauseRefuse. CASE PauseRefuse(t)
  BY <1>0, <1>1, <1>PauseRefuse, SMT DEF PauseRefuse
<1>Check. CASE Check(t)
  BY <1>0, <1>1, <1>Check, SMT DEF Check, CheckRefuse, CheckPass,
      CheckPause, Leaving
<1>DriverReturn. CASE DriverReturn(t)
  BY <1>0, <1>1, <1>DriverReturn, SMT DEF DriverReturn, Leaving
<1>Commit. CASE Commit(t)
  BY <1>0, <1>1, <1>Commit, SMT DEF Commit, Leaving
<1>Count. CASE Count(t)
  BY <1>0, <1>1, <1>Count, SMT DEF Count
<1>Leave. CASE Leave(t)
  BY <1>0, <1>1, <1>Leave, SMT DEF Leave
<1>Sample. CASE Sample(t)
  BY <1>0, <1>1, <1>Sample, SMT DEF Sample, AfterRead
<1>ReadReturn. CASE ReadReturn(t)
  BY <1>0, <1>1, <1>ReadReturn, SMT DEF ReadReturn, AfterRead
<1>Receipt. CASE Receipt(t)
  BY <1>0, <1>1, <1>Receipt, SMT DEF Receipt
<1>LeaveRead. CASE LeaveRead(t)
  BY <1>0, <1>1, <1>LeaveRead, SMT DEF LeaveRead
<1>RecheckLeave. CASE RecheckLeave(t)
  BY <1>0, <1>1, <1>RecheckLeave, SMT DEF RecheckLeave
<1> QED
  BY <1>Register, <1>Unregister, <1>Recover, <1>FeEnter, <1>Acquire,
      <1>Release, <1>ControlEnter, <1>Look, <1>ReadEnter,
      <1>RecheckEnter, <1>TakeControl, <1>CancelUnregister,
      <1>EndUnregister, <1>RecoverReturn, <1>EndRecover, <1>WaitCheck,
      <1>TakeQuiesced, <1>Woken, <1>GiveControl, <1>FeReturn, <1>FeLeave,
      <1>CancelRelease, <1>StopRelease, <1>LeaveRelease, <1>EndRelease,
      <1>Return, <1>PauseEnter, <1>PauseRefuse, <1>Check, <1>DriverReturn,
      <1>Commit, <1>Count, <1>Leave, <1>Sample, <1>ReadReturn, <1>Receipt,
      <1>LeaveRead, <1>RecheckLeave DEF Enter, GoOn

-----------------------------------------------------------------------------
\* ... and every step keeps it.
LEMMA StepInvariant == IInv /\ [Next]_vars => IInv'
<1> SUFFICES ASSUME IInv, [Next]_vars PROVE IInv'
  OBVIOUS
<1>1. CASE Next
  <2>1. PICK t \in Task : Enter(t) \/ TakeControl(t) \/ GoOn(t)
    BY <1>1 DEF Next
  <2>2. TypeOK'
    BY <2>1, FlagStep, CountStep, CallStep, SetStep DEF TypeOK
  <2>3. Accounting' /\ FlagsAgree'
    BY <2>1, AccountingStep, FlagsAgreeStep
  <2>4. Roles' /\ OneOfEach' /\ Quiet'
    BY <2>1, RolesStep, OneOfEachStep, QuietStep
  <2> QED
    BY <2>2, <2>3, <2>4 DEF IInv
<1>2. CASE UNCHANGED vars
  <2> USE <1>2 DEF vars, slot, device, session, stream, counts, locals, driver,
                   evidence, overlaps
  <2>1. TypeOK'
    BY DEF IInv, TypeOK, FlagTypes, CountTypes, CallTypes, SetTypes
  <2>2. Accounting'
    BY DEF IInv, Accounting, InFlight, InControl, At
  <2>3. FlagsAgree' /\ Roles' /\ OneOfEach' /\ Quiet'
    BY DEF IInv, FlagsAgree, Roles, OneOfEach, Quiet, Releasing, Detaching,
           Recovering
  <2> QED
    BY <2>1, <2>2, <2>3 DEF IInv
<1> QED
  BY <1>1, <1>2

\* The inductive invariant holds in every reachable state.
THEOREM Invariant == Spec => []IInv
BY InitInvariant, StepInvariant, PTL DEF Spec

\* Every variable keeps its type; waiters and in_flight never go below zero,
\* tokens never above the semaphore's ceiling.
THEOREM TypeCorrect == Spec => []TypeOK
<1>1. IInv => TypeOK
  BY DEF IInv
<1> QED
  BY <1>1, Invariant, PTL

\* The counters ls_radio_release and ls_radio_endpoint_unregister wait on are
\* exact, for any number of tasks and any calls.
THEOREM CountersExact == Spec => []Accounting
<1>1. IInv => Accounting
  BY DEF IInv
<1> QED
  BY <1>1, Invariant, PTL

\* No callback of a driver that has detached is ever running.
THEOREM DriverOutlivesCalls == Spec => []DriverAlive
<1>1. IInv => DriverAlive
  <2> SUFFICES ASSUME IInv, NEW t \in At(DriverPc) PROVE driver_ctx
    BY DEF DriverAlive
  <2>1. FlagsAgree /\ Roles /\ Quiet
    BY DEF IInv
  <2>2. t \in Task /\ pc[t] \in DriverPc
    BY DEF At, AtOf
  <2>3. CASE pc[t] \in InFlightPc
    BY <2>1, <2>2, <2>3 DEF Quiet, FlagsAgree
  <2>4. CASE pc[t] = "recover"
    BY <2>1, <2>2, <2>4 DEF Roles, FlagsAgree, Recovering, RecoverPc
  <2>5. CASE pc[t] = "cancelUnreg"
    BY <2>1, <2>2, <2>5 DEF Roles, FlagsAgree, Detaching, UnregPc
  <2> QED
    BY <2>2, <2>3, <2>4, <2>5
    DEF DriverPc, InFlightPc, ControlPc, ReadPc, ReleasePc, FePc
<1> QED
  BY <1>1, Invariant, PTL

-----------------------------------------------------------------------------
\* The semaphore of wait_quiesced.  Only a release and a detach wait, one of
\* each, so its ceiling is never what limits the tokens given.

\* A release and a detach: two at most.
LEMMA FewWaiters == ASSUME IInv PROVE waiters <= 2
<1>1. Accounting /\ Roles /\ OneOfEach
  BY DEF IInv
<1> DEFINE W == At(WaiterPc)
<1>2. \A t \in W : Releasing(t) \/ Detaching(t)
  BY <1>1 DEF Roles, Releasing, Detaching, At, AtOf, WaiterPc, WaitPc
<1>3. \A t, u \in W : Releasing(t) /\ Releasing(u) => t = u
  BY <1>1 DEF OneOfEach, At, AtOf
<1>4. \A t, u \in W : Detaching(t) /\ Detaching(u) => t = u
  BY <1>1 DEF OneOfEach, At, AtOf
<1>5. \E r, d : W \subseteq {r, d}
  <2> DEFINE r == CHOOSE t \in W : Releasing(t)
             d == CHOOSE t \in W : Detaching(t)
  <2>1. \A t \in W : Releasing(t) => t = r
    BY <1>3
  <2>2. \A t \in W : Detaching(t) => t = d
    BY <1>4
  <2>3. W \subseteq {r, d}
    BY <1>2, <2>1, <2>2
  <2> QED
    BY <2>3
<1>6. PICK r, d : W \subseteq {r, d}
  BY <1>5
<1>7. IsFiniteSet({r}) /\ Cardinality({r}) = 1
  BY FS_Singleton
<1>8. IsFiniteSet({r} \cup {d}) /\ Cardinality({r} \cup {d}) \in {1, 2}
  BY <1>7, FS_AddElement
<1>9. Cardinality(W) <= Cardinality({r} \cup {d})
  BY <1>6, <1>8, FS_Subset
<1>10. Cardinality(W) = waiters /\ waiters \in Nat
  BY <1>1 DEF Accounting, IInv, TypeOK, CountTypes
<1> QED
  BY <1>8, <1>9, <1>10

\* Those blocked are among those waiting.
LEMMA BlockedAreWaiters == ASSUME IInv PROVE Cardinality(Blocked) <= waiters
<1>1. IsFiniteSet(At(WaiterPc)) /\ Blocked \subseteq At(WaiterPc)
  BY TaskAssumption, FS_Subset DEF Blocked, At, AtOf, WaiterPc
<1> QED
  BY <1>1, FS_Subset DEF IInv, Accounting

\* The last task out gives enough tokens, whatever the semaphore held.
LEMMA LastOutWakes ==
    ASSUME IInv, NEW t \in Task, NEW p \in {"idle", "unlock", "wait"},
           Goto(t, p), NEW c \in {0, 1}, CountOut(c), pc[t] \in InFlightPc
    PROVE  NoLostWakeup'
<1>1. CallTypes /\ CountTypes
  BY DEF IInv, TypeOK
<1>2. pc[t] \notin {"blocked"} /\ p \notin {"blocked"} /\ p \in Pc
  BY DEF InFlightPc, ControlPc, ReadPc, ReleasePc, FePc, Pc, WaitPc
<1>3. Cardinality(Blocked') = Cardinality(Blocked) /\ Cardinality(Blocked) \in Nat
  BY <1>1, <1>2, Shift DEF Blocked
<1>4. Cardinality(Blocked) <= waiters /\ waiters <= 2
  BY BlockedAreWaiters, FewWaiters
<1>5. in_flight' = 0 => tokens' >= Cardinality(Blocked)
  BY <1>1, <1>3, <1>4, BoundAssumption DEF CountOut, CountTypes
<1> QED
  BY <1>3, <1>5 DEF NoLostWakeup

\* Tasks that neither block nor leave change nothing here.
LEMMA NoWakeup ==
    ASSUME IInv, NoLostWakeup, NEW t \in Task, NEW p \in Pc, Goto(t, p),
           UNCHANGED tokens, in_flight' = 0 => in_flight = 0,
           pc[t] # "blocked", p # "blocked"
    PROVE  NoLostWakeup'
<1>1. CallTypes
  BY DEF IInv, TypeOK
<1>2. Cardinality(Blocked') = Cardinality(Blocked)
  BY <1>1, Shift DEF Blocked
<1> QED
  BY <1>2 DEF NoLostWakeup

\* Every step keeps enough tokens.
LEMMA WakeupStep ==
    ASSUME IInv, NoLostWakeup, NEW t \in Task,
           Enter(t) \/ TakeControl(t) \/ GoOn(t)
    PROVE  NoLostWakeup'
<1>0. CountTypes /\ CallTypes
  BY DEF IInv, TypeOK
<1>1. ASSUME UNCHANGED <<pc, in_flight, tokens>> PROVE NoLostWakeup'
  BY <1>1 DEF NoLostWakeup, Blocked, At
<1> USE DEF slot, counts, Start, Finish, Begin, CountIn, CountTypes, Pc,
            InFlightPc, ControlPc, ReadPc, ReleasePc, FePc,
            WaitPc, RecoverPc, UnregPc
<1>Register. CASE Register(t)
  <2>1. in_flight = 0 /\ UNCHANGED <<pc, tokens>> /\ in_flight' = 0
    BY <1>Register, NobodyDropped DEF Register
  <2> QED
    BY <1>1, <2>1
<1>Unregister. CASE Unregister(t)
  BY <1>0, <1>Unregister, NoWakeup, SMT DEF Unregister
<1>Recover. CASE Recover(t)
  BY <1>0, <1>Recover, NoWakeup, SMT DEF Recover
<1>FeEnter. CASE FeEnter(t)
  BY <1>0, <1>FeEnter, NoWakeup, SMT DEF FeEnter
<1>Acquire. CASE Acquire(t)
  BY <1>Acquire, <1>1 DEF Acquire
<1>Release. CASE Release(t)
  <2>1. CASE CountIn(0) /\ Start(t, "release", "cancelRel")
    BY <1>0, <1>Release, <2>1, NoWakeup DEF Release
  <2>2. CASE Start(t, "release", "wait") /\ UNCHANGED <<counts, tokens>>
    BY <1>0, <1>Release, <2>2, NoWakeup DEF Release
  <2> QED
    BY <1>Release, <2>1, <2>2 DEF Release
<1>ControlEnter. CASE ControlEnter(t)
  BY <1>0, <1>ControlEnter, NoWakeup, SMT DEF ControlEnter
<1>Look. CASE Look(t)
  BY <1>0, <1>Look, NoWakeup, SMT DEF Look
<1>ReadEnter. CASE ReadEnter(t)
  BY <1>0, <1>ReadEnter, NoWakeup, SMT DEF ReadEnter
<1>RecheckEnter. CASE RecheckEnter(t)
  BY <1>0, <1>RecheckEnter, NoWakeup, SMT DEF RecheckEnter
<1>TakeControl. CASE TakeControl(t)
  BY <1>0, <1>TakeControl, NoWakeup, SMT DEF TakeControl, AfterLock, LockPc
<1>CancelUnregister. CASE CancelUnregister(t)
  BY <1>0, <1>CancelUnregister, NoWakeup, SMT DEF CancelUnregister
<1>EndUnregister. CASE EndUnregister(t)
  BY <1>0, <1>EndUnregister, NoWakeup, SMT DEF EndUnregister
<1>RecoverReturn. CASE RecoverReturn(t)
  BY <1>0, <1>RecoverReturn, NoWakeup, SMT DEF RecoverReturn
<1>EndRecover. CASE EndRecover(t)
  BY <1>0, <1>EndRecover, NoWakeup, SMT DEF EndRecover
<1>WaitCheck. CASE WaitCheck(t)
  <2>1. CASE Goto(t, AfterWait(t)) /\ UNCHANGED waiters
    BY <1>0, <1>WaitCheck, <2>1, NoWakeup DEF WaitCheck, AfterWait
  <2>2. CASE in_flight # 0
    BY <1>WaitCheck, <2>2 DEF WaitCheck, NoLostWakeup
  <2> QED
    BY <1>WaitCheck, <2>1, <2>2 DEF WaitCheck
<1>TakeQuiesced. CASE TakeQuiesced(t)
  <2>1. Cardinality(Blocked') = Cardinality(Blocked) - 1
    BY <1>0, <1>TakeQuiesced, Shift DEF TakeQuiesced, Blocked
  <2>2. Cardinality(Blocked) \in Nat
    BY <1>0, <1>TakeQuiesced, Shift DEF TakeQuiesced, Blocked
  <2>3. tokens' = tokens - 1 /\ in_flight' = in_flight
    BY <1>TakeQuiesced DEF TakeQuiesced
  <2> QED
    BY <1>0, <2>1, <2>2, <2>3 DEF NoLostWakeup
<1>Woken. CASE Woken(t)
  BY <1>0, <1>Woken, NoWakeup, SMT DEF Woken, AfterWait
<1>GiveControl. CASE GiveControl(t)
  BY <1>0, <1>GiveControl, NoWakeup, SMT DEF GiveControl, AfterUnlock
<1>FeReturn. CASE FeReturn(t)
  BY <1>0, <1>FeReturn, NoWakeup, SMT DEF FeReturn
<1>FeLeave. CASE FeLeave(t)
  BY <1>FeLeave, LastOutWakes, SMT DEF FeLeave
<1>CancelRelease. CASE CancelRelease(t)
  BY <1>0, <1>CancelRelease, NoWakeup, SMT DEF CancelRelease
<1>StopRelease. CASE StopRelease(t)
  BY <1>0, <1>StopRelease, NoWakeup, SMT DEF StopRelease
<1>LeaveRelease. CASE LeaveRelease(t)
  BY <1>LeaveRelease, LastOutWakes, SMT DEF LeaveRelease
<1>EndRelease. CASE EndRelease(t)
  BY <1>0, <1>EndRelease, NoWakeup, SMT DEF EndRelease
<1>Return. CASE Return(t)
  BY <1>0, <1>Return, NoWakeup, SMT DEF Return
<1>PauseEnter. CASE PauseEnter(t)
  BY <1>0, <1>PauseEnter, NoWakeup, SMT DEF PauseEnter
<1>PauseRefuse. CASE PauseRefuse(t)
  BY <1>0, <1>PauseRefuse, NoWakeup, SMT DEF PauseRefuse
<1>Check. CASE Check(t)
  BY <1>0, <1>Check, NoWakeup, SMT DEF Check, CheckRefuse, CheckPass,
      CheckPause, Leaving
<1>DriverReturn. CASE DriverReturn(t)
  BY <1>0, <1>DriverReturn, NoWakeup, SMT DEF DriverReturn, Leaving
<1>Commit. CASE Commit(t)
  BY <1>0, <1>Commit, NoWakeup, SMT DEF Commit, Leaving
<1>Count. CASE Count(t)
  BY <1>0, <1>Count, NoWakeup, SMT DEF Count
<1>Leave. CASE Leave(t)
  BY <1>Leave, LastOutWakes, SMT DEF Leave
<1>Sample. CASE Sample(t)
  BY <1>0, <1>Sample, NoWakeup, SMT DEF Sample, AfterRead
<1>ReadReturn. CASE ReadReturn(t)
  BY <1>0, <1>ReadReturn, NoWakeup, SMT DEF ReadReturn, AfterRead
<1>Receipt. CASE Receipt(t)
  BY <1>0, <1>Receipt, NoWakeup, SMT DEF Receipt
<1>LeaveRead. CASE LeaveRead(t)
  BY <1>LeaveRead, LastOutWakes, SMT DEF LeaveRead
<1>RecheckLeave. CASE RecheckLeave(t)
  BY <1>RecheckLeave, LastOutWakes, SMT DEF RecheckLeave
<1> QED
  BY <1>Register, <1>Unregister, <1>Recover, <1>FeEnter, <1>Acquire,
      <1>Release, <1>ControlEnter, <1>Look, <1>ReadEnter,
      <1>RecheckEnter, <1>TakeControl, <1>CancelUnregister,
      <1>EndUnregister, <1>RecoverReturn, <1>EndRecover, <1>WaitCheck,
      <1>TakeQuiesced, <1>Woken, <1>GiveControl, <1>FeReturn, <1>FeLeave,
      <1>CancelRelease, <1>StopRelease, <1>LeaveRelease, <1>EndRelease,
      <1>Return, <1>PauseEnter, <1>PauseRefuse, <1>Check, <1>DriverReturn,
      <1>Commit, <1>Count, <1>Leave, <1>Sample, <1>ReadReturn, <1>Receipt,
      <1>LeaveRead, <1>RecheckLeave DEF Enter, GoOn

\* No task waits for ever for calls that have all left: wait_quiesced misses
\* no wakeup.
THEOREM WakeupsKept == Spec => []NoLostWakeup
<1>1. Init => NoLostWakeup
  <2> SUFFICES ASSUME Init PROVE NoLostWakeup
    OBVIOUS
  <2>1. CallTypes /\ tokens = 0
    BY InitInvariant DEF IInv, TypeOK, Init
  <2>2. Cardinality(Blocked) = 0
    BY <2>1, EmptyCount DEF Init, Blocked, At, CallTypes
  <2> QED
    BY <2>1, <2>2 DEF NoLostWakeup
<1>2. IInv /\ NoLostWakeup /\ [Next]_vars => NoLostWakeup'
  <2> SUFFICES ASSUME IInv, NoLostWakeup, [Next]_vars PROVE NoLostWakeup'
    OBVIOUS
  <2>1. CASE Next
    BY <2>1, WakeupStep DEF Next
  <2>2. CASE UNCHANGED vars
    BY <2>2 DEF vars, slot, counts, NoLostWakeup, Blocked, At
  <2> QED
    BY <2>1, <2>2
<1> QED
  BY <1>1, <1>2, Invariant, PTL DEF Spec
=============================================================================
