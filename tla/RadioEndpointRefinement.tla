---------------------- MODULE RadioEndpointRefinement ----------------------
(***************************************************************************)
(* One slot of the registry implements EndpointLease, for every set of     *)
(* tasks, apps and calls: each section of the code is one step of the      *)
(* lease or leaves it alone.                                               *)
(***************************************************************************)
EXTENDS RadioEndpointProofs

UserPc == ControlPc \cup ReadPc \cup ReleasePc

\* A task that moves goes into a set of places, or out of it.
LEMMA PlaceMove ==
    ASSUME CallTypes, NEW t \in Task, NEW CONSTANT p, Goto(t, p), NEW CONSTANT S
    PROVE  /\ At(S)' = IF p \in S THEN At(S) \cup {t} ELSE At(S) \ {t}
           /\ t \in At(S) <=> pc[t] \in S
<1>1. pc' = [pc EXCEPT ![t] = p] /\ pc \in [Task -> Pc]
  BY DEF Goto, CallTypes
<1> QED
  BY <1>1 DEF At, AtOf

\* A move that does not touch these places.
LEMMA Elsewhere ==
    ASSUME CallTypes, NEW t \in Task, NEW CONSTANT p, Goto(t, p), NEW CONSTANT S,
           p \notin S, pc[t] \notin S
    PROVE  At(S)' = At(S)
BY PlaceMove

\* What the lease sees of a step: the device and the lease as they were, and
\* the task where it was.
LEMMA Unseen ==
    ASSUME CallTypes, NEW t \in Task, NEW p, Goto(t, p),
           UNCHANGED <<present, removing, leased, closing>>,
           pc[t] \in UserPc <=> p \in UserPc, pc[t] \in FePc <=> p \in FePc
    PROVE  UNCHANGED L!leaseVars
<1>1. At(UserPc)' = At(UserPc) /\ At(FePc)' = At(FePc)
  BY PlaceMove
<1> QED
  BY <1>1 DEF L!leaseVars, Phase, LeaseState, Users, UserPc

\* A task leaves, from a session's call or from a front-end call.
LEMMA Leaves ==
    ASSUME CallTypes, NEW t \in Task, NEW p, Goto(t, p),
           UNCHANGED <<present, removing, leased, closing>>,
           pc[t] \in UserPc \cup FePc, p \notin UserPc \cup FePc
    PROVE  L!Exit(t)
<1>1. /\ At(UserPc)' = At(UserPc) \ {t} /\ At(FePc)' = At(FePc) \ {t}
      /\ t \in At(UserPc) \cup At(FePc)
  BY PlaceMove
<1> QED
  BY <1>1 DEF L!Exit, Phase, LeaseState, Users, UserPc

\* A task goes into a session's call.
LEMMA Enters ==
    ASSUME CallTypes, NEW t \in Task, NEW p \in UserPc, Goto(t, p),
           UNCHANGED <<present, removing, leased, closing>>,
           pc[t] \notin UserPc \cup FePc, p \notin FePc,
           present, ~closing, leased \/ ~removing
    PROVE  L!UserEnter(t)
<1>1. /\ At(UserPc)' = At(UserPc) \cup {t} /\ At(FePc)' = At(FePc) \ {t}
      /\ t \notin At(UserPc) /\ t \notin At(FePc)
  BY PlaceMove
<1>2. At(FePc)' = At(FePc)
  BY <1>1
<1> QED
  BY <1>1, <1>2 DEF L!UserEnter, Phase, LeaseState, Users, UserPc

\* Every action is a step of the lease, or unseen.
LEMMA LeaseStep ==
    ASSUME IInv, NEW t \in Task, Enter(t) \/ TakeControl(t) \/ GoOn(t)
    PROVE  [L!LeaseNext]_(L!leaseVars)
<1>0. CallTypes /\ FlagsAgree /\ Roles /\ Quiet
  BY DEF IInv, TypeOK
<1> USE DEF slot, device, session, stream, Start, Finish, Begin, UserPc,
            ControlPc, ReadPc, ReleasePc, FePc
<1>Register. CASE Register(t)
  <2>1. \A S : At(S)' = At(S)
    BY <1>Register DEF Register, At
  <2>2. At(UserPc) = {} /\ At(FePc) = {}
    BY <1>0, <1>Register DEF Register, Quiet, InFlightPc, At, AtOf
  <2>3. L!Attach
    BY <1>Register, <2>1, <2>2
    DEF Register, L!Attach, L!Empty, Phase, LeaseState, Users
  <2> QED
    BY <2>3 DEF L!LeaseNext
<1>Unregister. CASE Unregister(t)
  <2>1. Goto(t, "cancelUnreg") /\ pc[t] \notin UserPc \cup FePc
    BY <1>Unregister DEF Unregister
  <2>2. At(UserPc)' = At(UserPc) /\ At(FePc)' = At(FePc)
    BY <1>0, <2>1, Elsewhere
  <2>3. L!BeginDetach
    BY <1>0, <1>Unregister, <2>2
    DEF Unregister, L!BeginDetach, Phase, LeaseState, Users
  <2> QED
    BY <2>3 DEF L!LeaseNext
<1>Recover. CASE Recover(t)
  <2>1. Goto(t, "lockRec") /\ pc[t] \notin UserPc \cup FePc
    BY <1>Recover DEF Recover
  <2>2. At(UserPc)' = At(UserPc) /\ At(FePc)' = At(FePc)
    BY <1>0, <2>1, Elsewhere
  <2>3. L!BeginRecovery
    BY <1>0, <1>Recover, <2>2
    DEF Recover, L!BeginRecovery, Phase, LeaseState, Users
  <2> QED
    BY <2>3 DEF L!LeaseNext
<1>FeEnter. CASE FeEnter(t)
  <2>1. Goto(t, "lockFe") /\ pc[t] \notin UserPc \cup FePc
    BY <1>FeEnter DEF FeEnter
  <2>2. At(FePc)' = At(FePc) \cup {t} /\ t \notin At(FePc)
    BY <1>0, <2>1, PlaceMove
  <2>3. At(UserPc)' = At(UserPc)
    BY <1>0, <2>1, Elsewhere
  <2>4. L!GuestEnter(t)
    BY <1>FeEnter, <2>2, <2>3
    DEF FeEnter, L!GuestEnter, Phase, LeaseState, Users
  <2> QED
    BY <2>4 DEF L!LeaseNext
<1>Acquire. CASE Acquire(t)
  <2>1. \A S : At(S)' = At(S)
    BY <1>Acquire DEF Acquire, At
  <2>2. L!Lease
    BY <1>Acquire, <2>1 DEF Acquire, L!Lease, Phase, LeaseState, Users
  <2> QED
    BY <2>2 DEF L!LeaseNext
<1>Release. CASE Release(t)
  <2>1. PICK p \in {"cancelRel", "wait"} : Goto(t, p)
    BY <1>Release DEF Release
  <2>2. pc[t] \notin UserPc \cup FePc
    BY <1>Release DEF Release
  <2>3. /\ At(UserPc)' \in {At(UserPc), At(UserPc) \cup {t}}
        /\ At(FePc)' = At(FePc)
    BY <1>0, <2>1, <2>2, PlaceMove
  <2>4. L!Close(t)
    BY <1>0, <1>Release, <2>3
    DEF Release, L!Close, Phase, LeaseState, Users, FlagsAgree
  <2> QED
    BY <2>4 DEF L!LeaseNext
<1>ControlEnter. CASE ControlEnter(t)
  <2>1. L!UserEnter(t)
    BY <1>0, <1>ControlEnter, Enters DEF ControlEnter, SessionUsable
  <2> QED
    BY <2>1 DEF L!LeaseNext
<1>Look. CASE Look(t)
  BY <1>0, <1>Look, Unseen, SMT DEF Look
<1>ReadEnter. CASE ReadEnter(t)
  <2>1. L!UserEnter(t)
    BY <1>0, <1>ReadEnter, Enters DEF ReadEnter, StreamUsable, SessionUsable
  <2> QED
    BY <2>1 DEF L!LeaseNext
<1>RecheckEnter. CASE RecheckEnter(t)
  <2>1. L!UserEnter(t)
    BY <1>0, <1>RecheckEnter, Enters DEF RecheckEnter, StreamUsable, SessionUsable
  <2> QED
    BY <2>1 DEF L!LeaseNext
<1>TakeControl. CASE TakeControl(t)
  BY <1>0, <1>TakeControl, Unseen, SMT DEF TakeControl, AfterLock, LockPc
<1>CancelUnregister. CASE CancelUnregister(t)
  BY <1>0, <1>CancelUnregister, Unseen, SMT DEF CancelUnregister
<1>EndUnregister. CASE EndUnregister(t)
  <2>1. Goto(t, "idle") /\ pc[t] \notin UserPc \cup FePc
    BY <1>EndUnregister DEF EndUnregister
  <2>2. At(UserPc)' = At(UserPc) /\ At(FePc)' = At(FePc)
    BY <1>0, <2>1, Elsewhere
  <2>3. At(UserPc) = {} /\ At(FePc) = {}
    BY <1>0, <1>EndUnregister
    DEF EndUnregister, Quiet, InFlightPc, At, AtOf
  <2>4. L!EndDetach
    BY <1>0, <1>EndUnregister, <2>2, <2>3
    DEF EndUnregister, L!EndDetach, L!Empty, Phase, LeaseState, Users, Roles,
        Detaching, UnregPc
  <2> QED
    BY <2>4 DEF L!LeaseNext
<1>RecoverReturn. CASE RecoverReturn(t)
  BY <1>0, <1>RecoverReturn, Unseen, SMT DEF RecoverReturn
<1>EndRecover. CASE EndRecover(t)
  <2>1. Goto(t, "idle") /\ pc[t] \notin UserPc \cup FePc
    BY <1>EndRecover DEF EndRecover
  <2>2. At(UserPc)' = At(UserPc) /\ At(FePc)' = At(FePc)
    BY <1>0, <2>1, Elsewhere
  <2>3. L!EndRecovery
    BY <1>0, <1>EndRecover, <2>2
    DEF EndRecover, L!EndRecovery, Phase, LeaseState, Users, Roles, Recovering,
        RecoverPc
  <2> QED
    BY <2>3 DEF L!LeaseNext
<1>WaitCheck. CASE WaitCheck(t)
  BY <1>0, <1>WaitCheck, Unseen, SMT DEF WaitCheck, AfterWait
<1>TakeQuiesced. CASE TakeQuiesced(t)
  BY <1>0, <1>TakeQuiesced, Unseen, SMT DEF TakeQuiesced
<1>Woken. CASE Woken(t)
  BY <1>0, <1>Woken, Unseen, SMT DEF Woken, AfterWait
<1>GiveControl. CASE GiveControl(t)
  BY <1>0, <1>GiveControl, Unseen, SMT DEF GiveControl, AfterUnlock
<1>FeReturn. CASE FeReturn(t)
  BY <1>0, <1>FeReturn, Unseen, SMT DEF FeReturn
<1>FeLeave. CASE FeLeave(t)
  <2>1. L!Exit(t)
    BY <1>0, <1>FeLeave, Leaves DEF FeLeave
  <2> QED
    BY <2>1 DEF L!LeaseNext
<1>CancelRelease. CASE CancelRelease(t)
  BY <1>0, <1>CancelRelease, Unseen, SMT DEF CancelRelease
<1>StopRelease. CASE StopRelease(t)
  BY <1>0, <1>StopRelease, Unseen, SMT DEF StopRelease
<1>LeaveRelease. CASE LeaveRelease(t)
  <2>1. L!Exit(t)
    BY <1>0, <1>LeaveRelease, Leaves DEF LeaveRelease
  <2> QED
    BY <2>1 DEF L!LeaseNext
<1>EndRelease. CASE EndRelease(t)
  <2>1. Goto(t, "return") /\ pc[t] \notin UserPc \cup FePc
    BY <1>EndRelease DEF EndRelease
  <2>2. At(UserPc)' = At(UserPc) /\ At(FePc)' = At(FePc)
    BY <1>0, <2>1, Elsewhere
  <2>3. At(UserPc) = {}
    BY <1>0, <1>EndRelease DEF EndRelease, Quiet, At, AtOf
  <2>4. L!EndClose
    BY <1>0, <1>EndRelease, <2>2, <2>3
    DEF EndRelease, L!EndClose, Phase, LeaseState, Users, Roles, Releasing,
        FlagsAgree
  <2> QED
    BY <2>4 DEF L!LeaseNext
<1>Return. CASE Return(t)
  BY <1>0, <1>Return, Unseen, SMT DEF Return
<1>PauseEnter. CASE PauseEnter(t)
  <2>1. L!UserEnter(t)
    BY <1>0, <1>PauseEnter, Enters DEF PauseEnter, MayPause
  <2> QED
    BY <2>1 DEF L!LeaseNext
<1>PauseRefuse. CASE PauseRefuse(t)
  BY <1>0, <1>PauseRefuse, Unseen, SMT DEF PauseRefuse
<1>Check. CASE Check(t)
  BY <1>0, <1>Check, Unseen, SMT DEF Check, CheckRefuse, CheckPass,
      CheckPause, Leaving
<1>DriverReturn. CASE DriverReturn(t)
  BY <1>0, <1>DriverReturn, Unseen, SMT DEF DriverReturn, Leaving
<1>Commit. CASE Commit(t)
  BY <1>0, <1>Commit, Unseen, SMT DEF Commit, Leaving
<1>Count. CASE Count(t)
  BY <1>0, <1>Count, Unseen, SMT DEF Count
<1>Leave. CASE Leave(t)
  <2>1. L!Exit(t)
    BY <1>0, <1>Leave, Leaves DEF Leave
  <2> QED
    BY <2>1 DEF L!LeaseNext
<1>Sample. CASE Sample(t)
  BY <1>0, <1>Sample, Unseen, SMT DEF Sample, AfterRead
<1>ReadReturn. CASE ReadReturn(t)
  BY <1>0, <1>ReadReturn, Unseen, SMT DEF ReadReturn, AfterRead
<1>Receipt. CASE Receipt(t)
  BY <1>0, <1>Receipt, Unseen, SMT DEF Receipt
<1>LeaveRead. CASE LeaveRead(t)
  <2>1. L!Exit(t)
    BY <1>0, <1>LeaveRead, Leaves DEF LeaveRead
  <2> QED
    BY <2>1 DEF L!LeaseNext
<1>RecheckLeave. CASE RecheckLeave(t)
  <2>1. L!Exit(t)
    BY <1>0, <1>RecheckLeave, Leaves DEF RecheckLeave
  <2> QED
    BY <2>1 DEF L!LeaseNext
<1> QED
  BY <1>Register, <1>Unregister, <1>Recover, <1>FeEnter, <1>Acquire,
      <1>Release, <1>ControlEnter, <1>Look, <1>ReadEnter,
      <1>RecheckEnter, <1>TakeControl, <1>CancelUnregister,
      <1>EndUnregister, <1>RecoverReturn, <1>EndRecover, <1>WaitCheck,
      <1>TakeQuiesced, <1>Woken, <1>GiveControl, <1>FeReturn, <1>FeLeave,
      <1>CancelRelease, <1>StopRelease, <1>LeaveRelease, <1>EndRelease,
      <1>Return, <1>PauseEnter, <1>PauseRefuse, <1>Check, <1>DriverReturn,
      <1>Commit, <1>Count, <1>Leave, <1>Sample, <1>ReadReturn, <1>Receipt,
      <1>LeaveRead, <1>RecheckLeave DEF Enter, GoOn

-----------------------------------------------------------------------------
\* The registry keeps what EndpointLease promises of a receiver: the driver
\* takes its device back only when no call is inside it, and a lease ends
\* only when no call of its session is.
THEOREM SlotImplementsLease == Spec => ImplementsLease
<1>1. Init => L!LeaseInit
  BY DEF Init, L!LeaseInit, Phase, LeaseState, Users, At, AtOf, ControlPc,
         ReadPc, ReleasePc, FePc
<1>2. IInv /\ [Next]_vars => [L!LeaseNext]_(L!leaseVars)
  <2> SUFFICES ASSUME IInv, [Next]_vars PROVE [L!LeaseNext]_(L!leaseVars)
    OBVIOUS
  <2>1. CASE Next
    BY <2>1, LeaseStep DEF Next
  <2>2. CASE UNCHANGED vars
    BY <2>2 DEF vars, slot, device, session, L!leaseVars, Phase, LeaseState,
                Users, At
  <2> QED
    BY <2>1, <2>2
<1> QED
  BY <1>1, <1>2, Invariant, PTL DEF Spec, ImplementsLease, L!LeaseSpec
=============================================================================
