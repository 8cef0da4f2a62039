------------------------- MODULE AppRegistryProofs -------------------------
(***************************************************************************)
(* Proofs about AppRegistry: IInv holds initially and every step keeps it, *)
(* for any number of apps, callers and fences and a queue of any length.   *)
(* One lemma per part of the invariant, one step per action.  Then the     *)
(* fences on their way: none that the screen waits for is lost, and its    *)
(* answer stands.                                                          *)
(***************************************************************************)
EXTENDS AppRegistry, FiniteSetTheorems, TLAPS

\* s_switch_in_flight, wherever the worker goes.
LEMMA GoesToFlag ==
    ASSUME NEW place, GoesTo(place) PROVE inFlight' \in BOOLEAN
<1> DEFINE flag == place \in Callbacks
<1>1. flag = TRUE \/ flag = FALSE
  OBVIOUS
<1>2. inFlight' = flag
  BY Zenon DEF GoesTo
<1> HIDE DEF flag
<1> QED
  BY <1>1, <1>2, Zenon

\* What a fence and a switch carry.
LEMMA FenceArg ==
    ASSUME NEW r \in Request \cup {Nothing}, r.kind = "fence"
    PROVE  r.arg \in 1..MaxToken
BY DEF Request, Nothing, Plain, Switch, Fence

LEMMA SwitchArg ==
    ASSUME NEW r \in Request \cup {Nothing}, r.kind = "switch"
    PROVE  r.arg \in App
BY DEF Request, Nothing, Plain, Switch, Fence

\* What the callers send.
LEMMA RequestKinds ==
    /\ \A k \in {"park", "unpark", "recover"} : Plain(k) \in Request
    /\ \A a \in App : Switch(a) \in Request
    /\ \A n \in 1..MaxToken : Fence(n) \in Request
BY Zenon DEF Request

\* The flags keep their type.
LEMMA FlagStep == IInv /\ Next => FlagTypes'
<1> SUFFICES ASSUME IInv, Next PROVE FlagTypes'
  OBVIOUS
<1>0. FlagTypes
  BY DEF IInv, TypeOK
<1> USE DEF app, fence, worker, boot, vars, Asks, Quits, Answer, Enters,
    Boots, FlagTypes
<1>AskSwitch. ASSUME NEW c \in Caller, AskSwitch(c) PROVE FlagTypes'
  BY <1>0, GoesToFlag, <1>AskSwitch, Zenon
  DEF AskSwitch
<1>AskPark. ASSUME NEW c \in Caller, AskPark(c) PROVE FlagTypes'
  BY <1>0, GoesToFlag, <1>AskPark, Zenon
  DEF AskPark
<1>AskUnpark. ASSUME NEW c \in Caller, AskUnpark(c) PROVE FlagTypes'
  BY <1>0, GoesToFlag, <1>AskUnpark, Zenon
  DEF AskUnpark
<1>AskRecover. ASSUME NEW c \in Caller, AskRecover(c) PROVE FlagTypes'
  BY <1>0, GoesToFlag, <1>AskRecover, Zenon
  DEF AskRecover
<1>Send. ASSUME NEW c \in Caller, Send(c) PROVE FlagTypes'
  BY <1>0, GoesToFlag, <1>Send, Zenon
  DEF Send
<1>AskFence. CASE AskFence
  BY <1>0, GoesToFlag, <1>AskFence, Zenon
  DEF AskFence
<1>ReleaseFence. CASE ReleaseFence
  BY <1>0, GoesToFlag, <1>ReleaseFence, Zenon
  DEF ReleaseFence
<1>Take. CASE Take
  BY <1>0, GoesToFlag, <1>Take, Zenon
  DEF Take
<1>Coalesce. CASE Coalesce
  BY <1>0, GoesToFlag, <1>Coalesce, Zenon
  DEF Coalesce
<1>DropHeld. CASE DropHeld
  BY <1>0, GoesToFlag, <1>DropHeld, Zenon
  DEF DropHeld
<1>BeginPark. CASE BeginPark
  BY <1>0, GoesToFlag, <1>BeginPark, Zenon
  DEF BeginPark
<1>BeginUnpark. CASE BeginUnpark
  BY <1>0, GoesToFlag, <1>BeginUnpark, Zenon
  DEF BeginUnpark
<1>BeginSwitch. CASE BeginSwitch
  BY <1>0, GoesToFlag, <1>BeginSwitch, Zenon
  DEF BeginSwitch
<1>BeginRecover. CASE BeginRecover
  BY <1>0, GoesToFlag, <1>BeginRecover, Zenon
  DEF BeginRecover
<1>EndPark. CASE EndPark
  BY <1>0, GoesToFlag, <1>EndPark, Zenon
  DEF EndPark
<1>EndSwitchStop. CASE EndSwitchStop
  BY <1>0, GoesToFlag, <1>EndSwitchStop, Zenon
  DEF EndSwitchStop
<1>Entered. CASE Entered
  BY <1>0, GoesToFlag, <1>Entered, Zenon
  DEF Entered
<1>EndRecoverStop. CASE EndRecoverStop
  BY <1>0, GoesToFlag, <1>EndRecoverStop, Zenon
  DEF EndRecoverStop
<1>Recovered. CASE Recovered
  BY <1>0, GoesToFlag, <1>Recovered, Zenon
  DEF Recovered
<1>StayParked. CASE StayParked
  BY <1>0, GoesToFlag, <1>StayParked, Zenon
  DEF StayParked
<1>Restart. CASE Restart
  BY <1>0, GoesToFlag, <1>Restart, Zenon
  DEF Restart
<1>Reset. CASE Reset
  BY <1>0, GoesToFlag, <1>Reset, Zenon
  DEF Reset
<1>Age. CASE Age
  BY <1>0, GoesToFlag, <1>Age, Zenon
  DEF Age
<1> QED
  BY <1>AskSwitch, <1>AskPark, <1>AskUnpark, <1>AskRecover, <1>Send,
     <1>AskFence, <1>ReleaseFence, <1>Take, <1>Coalesce, <1>DropHeld,
     <1>BeginPark, <1>BeginUnpark, <1>BeginSwitch, <1>BeginRecover,
     <1>EndPark, <1>EndSwitchStop, <1>Entered, <1>EndRecoverStop,
     <1>Recovered, <1>StayParked, <1>Restart, <1>Reset, <1>Age
  DEF Next, Ask, Work, Serve

\* So do the app, the place of the worker and the count.
LEMMA AppStep == IInv /\ Next => AppTypes'
<1> SUFFICES ASSUME IInv, Next PROVE AppTypes'
  OBVIOUS
<1>0. AppTypes /\ FlagTypes /\ RequestTypes
  BY DEF IInv, TypeOK
<1> USE DEF app, fence, worker, boot, vars, Asks, Quits, GoesTo, Answer,
    Enters, Boots, AppTypes, Callbacks
<1>AskSwitch. ASSUME NEW c \in Caller, AskSwitch(c) PROVE AppTypes'
  BY <1>0, NumAppsAssumption, LoopMaxAssumption, <1>AskSwitch
  DEF AskSwitch
<1>AskPark. ASSUME NEW c \in Caller, AskPark(c) PROVE AppTypes'
  BY <1>0, NumAppsAssumption, LoopMaxAssumption, <1>AskPark
  DEF AskPark
<1>AskUnpark. ASSUME NEW c \in Caller, AskUnpark(c) PROVE AppTypes'
  BY <1>0, NumAppsAssumption, LoopMaxAssumption, <1>AskUnpark
  DEF AskUnpark
<1>AskRecover. ASSUME NEW c \in Caller, AskRecover(c) PROVE AppTypes'
  BY <1>0, NumAppsAssumption, LoopMaxAssumption, <1>AskRecover
  DEF AskRecover
<1>Send. ASSUME NEW c \in Caller, Send(c) PROVE AppTypes'
  BY <1>0, NumAppsAssumption, LoopMaxAssumption, <1>Send
  DEF Send
<1>AskFence. CASE AskFence
  BY <1>0, NumAppsAssumption, LoopMaxAssumption, <1>AskFence
  DEF AskFence
<1>ReleaseFence. CASE ReleaseFence
  BY <1>0, NumAppsAssumption, LoopMaxAssumption, <1>ReleaseFence
  DEF ReleaseFence
<1>Take. CASE Take
  BY <1>0, NumAppsAssumption, LoopMaxAssumption, <1>Take
  DEF Take
<1>Coalesce. CASE Coalesce
  BY <1>0, NumAppsAssumption, LoopMaxAssumption, <1>Coalesce
  DEF Coalesce
<1>DropHeld. CASE DropHeld
  BY <1>0, NumAppsAssumption, LoopMaxAssumption, <1>DropHeld
  DEF DropHeld
<1>BeginPark. CASE BeginPark
  BY <1>0, NumAppsAssumption, LoopMaxAssumption, <1>BeginPark
  DEF BeginPark, Serves
<1>BeginUnpark. CASE BeginUnpark
  BY <1>0, NumAppsAssumption, LoopMaxAssumption, <1>BeginUnpark
  DEF BeginUnpark
<1>BeginSwitch. CASE BeginSwitch
  BY <1>0, NumAppsAssumption, LoopMaxAssumption, <1>BeginSwitch, SwitchArg
  DEF BeginSwitch, RequestTypes, Serves
<1>BeginRecover. CASE BeginRecover
  BY <1>0, NumAppsAssumption, LoopMaxAssumption, <1>BeginRecover
  DEF BeginRecover
<1>EndPark. CASE EndPark
  BY <1>0, NumAppsAssumption, LoopMaxAssumption, <1>EndPark
  DEF EndPark
<1>EndSwitchStop. CASE EndSwitchStop
  BY <1>0, NumAppsAssumption, LoopMaxAssumption, <1>EndSwitchStop, SwitchArg
  DEF EndSwitchStop, IInv, Places, RequestTypes
<1>Entered. CASE Entered
  BY <1>0, NumAppsAssumption, LoopMaxAssumption, <1>Entered
  DEF Entered
<1>EndRecoverStop. CASE EndRecoverStop
  BY <1>0, NumAppsAssumption, LoopMaxAssumption, <1>EndRecoverStop
  DEF EndRecoverStop
<1>Recovered. CASE Recovered
  BY <1>0, NumAppsAssumption, LoopMaxAssumption, <1>Recovered
  DEF Recovered
<1>StayParked. CASE StayParked
  BY <1>0, NumAppsAssumption, LoopMaxAssumption, <1>StayParked
  DEF StayParked, Counted
<1>Restart. CASE Restart
  BY <1>0, NumAppsAssumption, LoopMaxAssumption, <1>Restart
  DEF Restart, Counted, App
<1>Reset. CASE Reset
  BY <1>0, NumAppsAssumption, LoopMaxAssumption, <1>Reset
  DEF Reset, App
<1>Age. CASE Age
  BY <1>0, NumAppsAssumption, LoopMaxAssumption, <1>Age
  DEF Age
<1> QED
  BY <1>AskSwitch, <1>AskPark, <1>AskUnpark, <1>AskRecover, <1>Send,
     <1>AskFence, <1>ReleaseFence, <1>Take, <1>Coalesce, <1>DropHeld,
     <1>BeginPark, <1>BeginUnpark, <1>BeginSwitch, <1>BeginRecover,
     <1>EndPark, <1>EndSwitchStop, <1>Entered, <1>EndRecoverStop,
     <1>Recovered, <1>StayParked, <1>Restart, <1>Reset, <1>Age
  DEF Next, Ask, Work, Serve

\* So do the requests.
LEMMA RequestStep == IInv /\ Next => RequestTypes'
<1> SUFFICES ASSUME IInv, Next PROVE RequestTypes'
  OBVIOUS
<1>0. RequestTypes
  BY DEF IInv, TypeOK
<1> USE DEF app, fence, worker, boot, vars, Asks, Quits, GoesTo, Answer,
    Enters, Boots, RequestTypes
<1>AskSwitch. ASSUME NEW c \in Caller, AskSwitch(c) PROVE RequestTypes'
  BY <1>0, MaxTokenAssumption, QueueSizeAssumption, <1>AskSwitch, RequestKinds
  DEF AskSwitch
<1>AskPark. ASSUME NEW c \in Caller, AskPark(c) PROVE RequestTypes'
  BY <1>0, MaxTokenAssumption, QueueSizeAssumption, <1>AskPark, RequestKinds
  DEF AskPark
<1>AskUnpark. ASSUME NEW c \in Caller, AskUnpark(c) PROVE RequestTypes'
  BY <1>0, MaxTokenAssumption, QueueSizeAssumption, <1>AskUnpark, RequestKinds
  DEF AskUnpark
<1>AskRecover. ASSUME NEW c \in Caller, AskRecover(c) PROVE RequestTypes'
  BY <1>0, MaxTokenAssumption, QueueSizeAssumption, <1>AskRecover,
     RequestKinds
  DEF AskRecover
<1>Send. ASSUME NEW c \in Caller, Send(c) PROVE RequestTypes'
  BY <1>0, MaxTokenAssumption, QueueSizeAssumption, <1>Send, FenceArg
  DEF Send, Free
<1>AskFence. CASE AskFence
  BY <1>0, MaxTokenAssumption, QueueSizeAssumption, <1>AskFence,
     RequestKinds, ScreenAssumption
  DEF AskFence
<1>ReleaseFence. CASE ReleaseFence
  BY <1>0, MaxTokenAssumption, QueueSizeAssumption, <1>ReleaseFence
  DEF ReleaseFence
<1>Take. CASE Take
  BY <1>0, MaxTokenAssumption, QueueSizeAssumption, <1>Take
  DEF Take
<1>Coalesce. CASE Coalesce
  BY <1>0, MaxTokenAssumption, QueueSizeAssumption, <1>Coalesce
  DEF Coalesce, Wins
<1>DropHeld. CASE DropHeld
  BY <1>0, MaxTokenAssumption, QueueSizeAssumption, <1>DropHeld
  DEF DropHeld
<1>BeginPark. CASE BeginPark
  BY <1>0, MaxTokenAssumption, QueueSizeAssumption, <1>BeginPark, FenceArg
  DEF BeginPark, Serves
<1>BeginUnpark. CASE BeginUnpark
  BY <1>0, MaxTokenAssumption, QueueSizeAssumption, <1>BeginUnpark
  DEF BeginUnpark
<1>BeginSwitch. CASE BeginSwitch
  BY <1>0, MaxTokenAssumption, QueueSizeAssumption, <1>BeginSwitch
  DEF BeginSwitch
<1>BeginRecover. CASE BeginRecover
  BY <1>0, MaxTokenAssumption, QueueSizeAssumption, <1>BeginRecover
  DEF BeginRecover
<1>EndPark. CASE EndPark
  BY <1>0, MaxTokenAssumption, QueueSizeAssumption, <1>EndPark, FenceArg
  DEF EndPark
<1>EndSwitchStop. CASE EndSwitchStop
  BY <1>0, MaxTokenAssumption, QueueSizeAssumption, <1>EndSwitchStop
  DEF EndSwitchStop
<1>Entered. CASE Entered
  BY <1>0, MaxTokenAssumption, QueueSizeAssumption, <1>Entered
  DEF Entered
<1>EndRecoverStop. CASE EndRecoverStop
  BY <1>0, MaxTokenAssumption, QueueSizeAssumption, <1>EndRecoverStop
  DEF EndRecoverStop
<1>Recovered. CASE Recovered
  BY <1>0, MaxTokenAssumption, QueueSizeAssumption, <1>Recovered
  DEF Recovered
<1>StayParked. CASE StayParked
  BY <1>0, MaxTokenAssumption, QueueSizeAssumption, <1>StayParked
  DEF StayParked
<1>Restart. CASE Restart
  BY <1>0, MaxTokenAssumption, QueueSizeAssumption, <1>Restart
  DEF Restart
<1>Reset. CASE Reset
  BY <1>0, MaxTokenAssumption, QueueSizeAssumption, <1>Reset
  DEF Reset
<1>Age. CASE Age
  BY <1>0, MaxTokenAssumption, QueueSizeAssumption, <1>Age
  DEF Age
<1> QED
  BY <1>AskSwitch, <1>AskPark, <1>AskUnpark, <1>AskRecover, <1>Send,
     <1>AskFence, <1>ReleaseFence, <1>Take, <1>Coalesce, <1>DropHeld,
     <1>BeginPark, <1>BeginUnpark, <1>BeginSwitch, <1>BeginRecover,
     <1>EndPark, <1>EndSwitchStop, <1>Entered, <1>EndRecoverStop,
     <1>Recovered, <1>StayParked, <1>Restart, <1>Reset, <1>Age
  DEF Next, Ask, Work, Serve

\* What runs agrees with the place of the worker.
LEMMA PlacesStep == IInv /\ Next => Places'
<1> SUFFICES ASSUME IInv, Next PROVE Places'
  OBVIOUS
<1>0. TypeOK /\ Places /\ FlagTypes /\ AppTypes
  BY DEF IInv, TypeOK
<1> USE DEF app, fence, worker, boot, vars, Asks, Quits, GoesTo, Answer,
    Enters, Boots, FlagTypes, AppTypes, Places, IdleAgrees, Callbacks
<1>AskSwitch. ASSUME NEW c \in Caller, AskSwitch(c) PROVE Places'
  BY <1>0, <1>AskSwitch
  DEF AskSwitch
<1>AskPark. ASSUME NEW c \in Caller, AskPark(c) PROVE Places'
  BY <1>0, <1>AskPark
  DEF AskPark
<1>AskUnpark. ASSUME NEW c \in Caller, AskUnpark(c) PROVE Places'
  BY <1>0, <1>AskUnpark
  DEF AskUnpark
<1>AskRecover. ASSUME NEW c \in Caller, AskRecover(c) PROVE Places'
  BY <1>0, <1>AskRecover
  DEF AskRecover
<1>Send. ASSUME NEW c \in Caller, Send(c) PROVE Places'
  BY <1>0, <1>Send
  DEF Send
<1>AskFence. CASE AskFence
  BY <1>0, <1>AskFence
  DEF AskFence
<1>ReleaseFence. CASE ReleaseFence
  BY <1>0, <1>ReleaseFence
  DEF ReleaseFence
<1>Take. CASE Take
  BY <1>0, <1>Take
  DEF Take
<1>Coalesce. CASE Coalesce
  BY <1>0, <1>Coalesce
  DEF Coalesce
<1>DropHeld. CASE DropHeld
  BY <1>0, <1>DropHeld
  DEF DropHeld, Drained
<1>BeginPark. CASE BeginPark
  BY <1>0, <1>BeginPark
  DEF BeginPark, Serves, Drained
<1>BeginUnpark. CASE BeginUnpark
  BY <1>0, <1>BeginUnpark
  DEF BeginUnpark, Serves, Drained
<1>BeginSwitch. CASE BeginSwitch
  BY <1>0, <1>BeginSwitch
  DEF BeginSwitch, Serves, Drained
<1>BeginRecover. CASE BeginRecover
  BY <1>0, <1>BeginRecover
  DEF BeginRecover, Serves, Drained
<1>EndPark. CASE EndPark
  BY <1>0, <1>EndPark
  DEF EndPark
<1>EndSwitchStop. CASE EndSwitchStop
  BY <1>0, <1>EndSwitchStop
  DEF EndSwitchStop
<1>Entered. CASE Entered
  BY <1>0, <1>Entered
  DEF Entered
<1>EndRecoverStop. CASE EndRecoverStop
  BY <1>0, <1>EndRecoverStop
  DEF EndRecoverStop
<1>Recovered. CASE Recovered
  BY <1>0, <1>Recovered
  DEF Recovered
<1>StayParked. CASE StayParked
  BY <1>0, <1>StayParked
  DEF StayParked
<1>Restart. CASE Restart
  BY <1>0, <1>Restart
  DEF Restart
<1>Reset. CASE Reset
  BY <1>0, <1>Reset
  DEF Reset
<1>Age. CASE Age
  BY <1>0, <1>Age
  DEF Age
<1> QED
  BY <1>AskSwitch, <1>AskPark, <1>AskUnpark, <1>AskRecover, <1>Send,
     <1>AskFence, <1>ReleaseFence, <1>Take, <1>Coalesce, <1>DropHeld,
     <1>BeginPark, <1>BeginUnpark, <1>BeginSwitch, <1>BeginRecover,
     <1>EndPark, <1>EndSwitchStop, <1>Entered, <1>EndRecoverStop,
     <1>Recovered, <1>StayParked, <1>Restart, <1>Reset, <1>Age
  DEF Next, Ask, Work, Serve

\* No token is used before it was given out.
LEMMA TokensStep == IInv /\ Next => Tokens'
<1> SUFFICES ASSUME IInv, Next PROVE Tokens'
  OBVIOUS
<1>0. RequestTypes /\ Tokens
  BY DEF IInv, TypeOK
<1> USE DEF app, fence, worker, boot, vars, Asks, Quits, GoesTo, Answer,
    Enters, Boots, RequestTypes, Tokens, TokenBound
<1>AskSwitch. ASSUME NEW c \in Caller, AskSwitch(c) PROVE Tokens'
  BY <1>0, MaxTokenAssumption, <1>AskSwitch
  DEF AskSwitch, Switch
<1>AskPark. ASSUME NEW c \in Caller, AskPark(c) PROVE Tokens'
  BY <1>0, MaxTokenAssumption, <1>AskPark
  DEF AskPark, Plain
<1>AskUnpark. ASSUME NEW c \in Caller, AskUnpark(c) PROVE Tokens'
  BY <1>0, MaxTokenAssumption, <1>AskUnpark
  DEF AskUnpark, Plain
<1>AskRecover. ASSUME NEW c \in Caller, AskRecover(c) PROVE Tokens'
  BY <1>0, MaxTokenAssumption, <1>AskRecover
  DEF AskRecover, Plain
<1>Send. ASSUME NEW c \in Caller, Send(c) PROVE Tokens'
  BY <1>0, MaxTokenAssumption, <1>Send
  DEF Send, Free, Nothing, Plain
<1>AskFence. CASE AskFence
  <2> USE <1>0, <1>AskFence, MaxTokenAssumption DEF AskFence
  <2>1. token' = token + 1 /\ token \in Nat /\ ack' = ack /\ ack \in Nat
    OBVIOUS
  <2>2. ack' <= token' /\ TokenBound(job)'
    BY <2>1, FenceArg
  <2>3. ASSUME NEW c \in Caller PROVE TokenBound(sending[c])'
    <3>1. CASE c = Screen
      BY <2>1, <3>1 DEF Fence
    <3>2. CASE c # Screen
      BY <2>1, <3>2, FenceArg
    <3> QED
      BY <3>1, <3>2
  <2>4. ASSUME NEW i \in 1..Len(queue)' PROVE TokenBound(queue[i])'
    BY <2>1, <2>4, FenceArg
  <2> QED
    BY <2>2, <2>3, <2>4
<1>ReleaseFence. CASE ReleaseFence
  BY <1>0, MaxTokenAssumption, <1>ReleaseFence
  DEF ReleaseFence
<1>Take. CASE Take
  BY <1>0, MaxTokenAssumption, <1>Take
  DEF Take
<1>Coalesce. CASE Coalesce
  BY <1>0, MaxTokenAssumption, <1>Coalesce
  DEF Coalesce, Wins
<1>DropHeld. CASE DropHeld
  BY <1>0, MaxTokenAssumption, <1>DropHeld
  DEF DropHeld, Nothing, Plain
<1>BeginPark. CASE BeginPark
  BY <1>0, MaxTokenAssumption, <1>BeginPark
  DEF BeginPark, Serves, Nothing, Plain
<1>BeginUnpark. CASE BeginUnpark
  BY <1>0, MaxTokenAssumption, <1>BeginUnpark
  DEF BeginUnpark, Nothing, Plain
<1>BeginSwitch. CASE BeginSwitch
  BY <1>0, MaxTokenAssumption, <1>BeginSwitch
  DEF BeginSwitch, Nothing, Plain
<1>BeginRecover. CASE BeginRecover
  BY <1>0, MaxTokenAssumption, <1>BeginRecover
  DEF BeginRecover, Nothing, Plain
<1>EndPark. CASE EndPark
  <2>1. UNCHANGED <<token, queue, sending>> /\ job' = Nothing
    BY <1>EndPark DEF EndPark
  <2>2. ack' = ack \/ (job.kind = "fence" /\ ack' = job.arg)
    BY <1>EndPark DEF EndPark
  <2> QED
    BY <1>0, <2>1, <2>2 DEF Nothing, Plain
<1>EndSwitchStop. CASE EndSwitchStop
  BY <1>0, MaxTokenAssumption, <1>EndSwitchStop
  DEF EndSwitchStop, Nothing, Plain
<1>Entered. CASE Entered
  BY <1>0, MaxTokenAssumption, <1>Entered
  DEF Entered, Nothing, Plain
<1>EndRecoverStop. CASE EndRecoverStop
  BY <1>0, MaxTokenAssumption, <1>EndRecoverStop
  DEF EndRecoverStop, Nothing, Plain
<1>Recovered. CASE Recovered
  BY <1>0, MaxTokenAssumption, <1>Recovered
  DEF Recovered, Nothing, Plain
<1>StayParked. CASE StayParked
  BY <1>0, MaxTokenAssumption, <1>StayParked
  DEF StayParked, Nothing, Plain
<1>Restart. CASE Restart
  BY <1>0, MaxTokenAssumption, <1>Restart
  DEF Restart, Nothing, Plain
<1>Reset. CASE Reset
  BY <1>0, MaxTokenAssumption, <1>Reset
  DEF Reset, Nothing, Plain
<1>Age. CASE Age
  BY <1>0, MaxTokenAssumption, <1>Age
  DEF Age
<1> QED
  BY <1>AskSwitch, <1>AskPark, <1>AskUnpark, <1>AskRecover, <1>Send,
     <1>AskFence, <1>ReleaseFence, <1>Take, <1>Coalesce, <1>DropHeld,
     <1>BeginPark, <1>BeginUnpark, <1>BeginSwitch, <1>BeginRecover,
     <1>EndPark, <1>EndSwitchStop, <1>Entered, <1>EndRecoverStop,
     <1>Recovered, <1>StayParked, <1>Restart, <1>Reset, <1>Age
  DEF Next, Ask, Work, Serve

\* An acknowledged fence is kept.
LEMMA FenceKeptStep == IInv /\ Next => FenceKept'
<1> SUFFICES ASSUME IInv, Next PROVE FenceKept'
  OBVIOUS
<1>0. RequestTypes /\ Tokens /\ FenceKept
  BY DEF IInv, TypeOK
<1> USE DEF app, fence, worker, boot, vars, Asks, Quits, GoesTo, Answer,
    Enters, Boots, RequestTypes, Tokens, TokenBound, FenceKept
<1>AskSwitch. ASSUME NEW c \in Caller, AskSwitch(c) PROVE FenceKept'
  BY <1>0, MaxTokenAssumption, <1>AskSwitch
  DEF AskSwitch
<1>AskPark. ASSUME NEW c \in Caller, AskPark(c) PROVE FenceKept'
  BY <1>0, MaxTokenAssumption, <1>AskPark
  DEF AskPark
<1>AskUnpark. ASSUME NEW c \in Caller, AskUnpark(c) PROVE FenceKept'
  BY <1>0, MaxTokenAssumption, <1>AskUnpark
  DEF AskUnpark
<1>AskRecover. ASSUME NEW c \in Caller, AskRecover(c) PROVE FenceKept'
  BY <1>0, MaxTokenAssumption, <1>AskRecover
  DEF AskRecover
<1>Send. ASSUME NEW c \in Caller, Send(c) PROVE FenceKept'
  BY <1>0, MaxTokenAssumption, <1>Send
  DEF Send
<1>AskFence. CASE AskFence
  BY <1>0, MaxTokenAssumption, <1>AskFence
  DEF AskFence
<1>ReleaseFence. CASE ReleaseFence
  BY <1>0, MaxTokenAssumption, <1>ReleaseFence
  DEF ReleaseFence
<1>Take. CASE Take
  BY <1>0, MaxTokenAssumption, <1>Take
  DEF Take
<1>Coalesce. CASE Coalesce
  BY <1>0, MaxTokenAssumption, <1>Coalesce
  DEF Coalesce
<1>DropHeld. CASE DropHeld
  BY <1>0, MaxTokenAssumption, <1>DropHeld
  DEF DropHeld, Drained
<1>BeginPark. CASE BeginPark
  BY <1>0, MaxTokenAssumption, <1>BeginPark
  DEF BeginPark, Serves, Drained
<1>BeginUnpark. CASE BeginUnpark
  BY <1>0, MaxTokenAssumption, <1>BeginUnpark
  DEF BeginUnpark, Serves, Drained
<1>BeginSwitch. CASE BeginSwitch
  BY <1>0, MaxTokenAssumption, <1>BeginSwitch
  DEF BeginSwitch, Serves, Drained
<1>BeginRecover. CASE BeginRecover
  BY <1>0, MaxTokenAssumption, <1>BeginRecover
  DEF BeginRecover, Serves, Drained
<1>EndPark. CASE EndPark
  <2>1. at = "parkStop" /\ at' = "idle" /\ UNCHANGED <<held, token>>
    BY <1>EndPark DEF EndPark
  <2>2. ack' = ack \/ parked' = TRUE
    BY <1>EndPark DEF EndPark
  <2> QED
    BY <1>0, <2>1, <2>2
<1>EndSwitchStop. CASE EndSwitchStop
  BY <1>0, MaxTokenAssumption, <1>EndSwitchStop
  DEF EndSwitchStop
<1>Entered. CASE Entered
  BY <1>0, MaxTokenAssumption, <1>Entered
  DEF Entered
<1>EndRecoverStop. CASE EndRecoverStop
  BY <1>0, MaxTokenAssumption, <1>EndRecoverStop
  DEF EndRecoverStop
<1>Recovered. CASE Recovered
  BY <1>0, MaxTokenAssumption, <1>Recovered
  DEF Recovered
<1>StayParked. CASE StayParked
  BY <1>0, MaxTokenAssumption, <1>StayParked
  DEF StayParked
<1>Restart. CASE Restart
  BY <1>0, MaxTokenAssumption, <1>Restart
  DEF Restart
<1>Reset. CASE Reset
  BY <1>0, MaxTokenAssumption, <1>Reset
  DEF Reset
<1>Age. CASE Age
  BY <1>0, MaxTokenAssumption, <1>Age
  DEF Age
<1> QED
  BY <1>AskSwitch, <1>AskPark, <1>AskUnpark, <1>AskRecover, <1>Send,
     <1>AskFence, <1>ReleaseFence, <1>Take, <1>Coalesce, <1>DropHeld,
     <1>BeginPark, <1>BeginUnpark, <1>BeginSwitch, <1>BeginRecover,
     <1>EndPark, <1>EndSwitchStop, <1>Entered, <1>EndRecoverStop,
     <1>Recovered, <1>StayParked, <1>Restart, <1>Reset, <1>Age
  DEF Next, Ask, Work, Serve

\* The fault is told of while it lasts.
LEMMA FaultStep == IInv /\ Next => FaultTold' /\ FaultParked'
<1> SUFFICES ASSUME IInv, Next PROVE FaultTold' /\ FaultParked'
  OBVIOUS
<1>0. FlagTypes /\ FaultTold /\ FaultParked /\ Places
  BY DEF IInv, TypeOK
<1> USE DEF app, fence, worker, boot, vars, Asks, Quits, GoesTo, Answer,
    Enters, Boots, FlagTypes, FaultTold, FaultParked
<1>AskSwitch. ASSUME NEW c \in Caller, AskSwitch(c) PROVE FaultTold' /\ FaultParked'
  BY <1>0, <1>AskSwitch
  DEF AskSwitch
<1>AskPark. ASSUME NEW c \in Caller, AskPark(c) PROVE FaultTold' /\ FaultParked'
  BY <1>0, <1>AskPark
  DEF AskPark
<1>AskUnpark. ASSUME NEW c \in Caller, AskUnpark(c) PROVE FaultTold' /\ FaultParked'
  BY <1>0, <1>AskUnpark
  DEF AskUnpark
<1>AskRecover. ASSUME NEW c \in Caller, AskRecover(c) PROVE FaultTold' /\ FaultParked'
  BY <1>0, <1>AskRecover
  DEF AskRecover
<1>Send. ASSUME NEW c \in Caller, Send(c) PROVE FaultTold' /\ FaultParked'
  BY <1>0, <1>Send
  DEF Send
<1>AskFence. CASE AskFence
  BY <1>0, <1>AskFence
  DEF AskFence
<1>ReleaseFence. CASE ReleaseFence
  BY <1>0, <1>ReleaseFence
  DEF ReleaseFence
<1>Take. CASE Take
  BY <1>0, <1>Take
  DEF Take
<1>Coalesce. CASE Coalesce
  BY <1>0, <1>Coalesce
  DEF Coalesce
<1>DropHeld. CASE DropHeld
  BY <1>0, <1>DropHeld
  DEF DropHeld
<1>BeginPark. CASE BeginPark
  BY <1>0, <1>BeginPark
  DEF BeginPark
<1>BeginUnpark. CASE BeginUnpark
  BY <1>0, <1>BeginUnpark
  DEF BeginUnpark
<1>BeginSwitch. CASE BeginSwitch
  BY <1>0, <1>BeginSwitch
  DEF BeginSwitch
<1>BeginRecover. CASE BeginRecover
  BY <1>0, <1>BeginRecover
  DEF BeginRecover
<1>EndPark. CASE EndPark
  BY <1>0, <1>EndPark
  DEF EndPark, Places, Callbacks
<1>EndSwitchStop. CASE EndSwitchStop
  BY <1>0, <1>EndSwitchStop
  DEF EndSwitchStop, Places, Callbacks
<1>Entered. CASE Entered
  BY <1>0, <1>Entered
  DEF Entered, Places, Callbacks
<1>EndRecoverStop. CASE EndRecoverStop
  BY <1>0, <1>EndRecoverStop
  DEF EndRecoverStop
<1>Recovered. CASE Recovered
  BY <1>0, <1>Recovered
  DEF Recovered, Places
<1>StayParked. CASE StayParked
  BY <1>0, <1>StayParked
  DEF StayParked
<1>Restart. CASE Restart
  BY <1>0, <1>Restart
  DEF Restart
<1>Reset. CASE Reset
  BY <1>0, <1>Reset
  DEF Reset
<1>Age. CASE Age
  BY <1>0, <1>Age
  DEF Age
<1> QED
  BY <1>AskSwitch, <1>AskPark, <1>AskUnpark, <1>AskRecover, <1>Send,
     <1>AskFence, <1>ReleaseFence, <1>Take, <1>Coalesce, <1>DropHeld,
     <1>BeginPark, <1>BeginUnpark, <1>BeginSwitch, <1>BeginRecover,
     <1>EndPark, <1>EndSwitchStop, <1>Entered, <1>EndRecoverStop,
     <1>Recovered, <1>StayParked, <1>Restart, <1>Reset, <1>Age
  DEF Next, Ask, Work, Serve

\* The count of recovery restarts.
LEMMA LoopStep == IInv /\ Next => LoopCounted'
<1> SUFFICES ASSUME IInv, Next PROVE LoopCounted'
  OBVIOUS
<1>0. FlagTypes /\ AppTypes /\ LoopCounted
  BY DEF IInv, TypeOK
<1> USE DEF app, fence, worker, boot, vars, Asks, Quits, GoesTo, Answer,
    Enters, Boots, FlagTypes, AppTypes, LoopCounted
<1>AskSwitch. ASSUME NEW c \in Caller, AskSwitch(c) PROVE LoopCounted'
  BY <1>0, LoopMaxAssumption, <1>AskSwitch
  DEF AskSwitch
<1>AskPark. ASSUME NEW c \in Caller, AskPark(c) PROVE LoopCounted'
  BY <1>0, LoopMaxAssumption, <1>AskPark
  DEF AskPark
<1>AskUnpark. ASSUME NEW c \in Caller, AskUnpark(c) PROVE LoopCounted'
  BY <1>0, LoopMaxAssumption, <1>AskUnpark
  DEF AskUnpark
<1>AskRecover. ASSUME NEW c \in Caller, AskRecover(c) PROVE LoopCounted'
  BY <1>0, LoopMaxAssumption, <1>AskRecover
  DEF AskRecover
<1>Send. ASSUME NEW c \in Caller, Send(c) PROVE LoopCounted'
  BY <1>0, LoopMaxAssumption, <1>Send
  DEF Send
<1>AskFence. CASE AskFence
  BY <1>0, LoopMaxAssumption, <1>AskFence
  DEF AskFence
<1>ReleaseFence. CASE ReleaseFence
  BY <1>0, LoopMaxAssumption, <1>ReleaseFence
  DEF ReleaseFence
<1>Take. CASE Take
  BY <1>0, LoopMaxAssumption, <1>Take
  DEF Take
<1>Coalesce. CASE Coalesce
  BY <1>0, LoopMaxAssumption, <1>Coalesce
  DEF Coalesce
<1>DropHeld. CASE DropHeld
  BY <1>0, LoopMaxAssumption, <1>DropHeld
  DEF DropHeld
<1>BeginPark. CASE BeginPark
  BY <1>0, LoopMaxAssumption, <1>BeginPark
  DEF BeginPark
<1>BeginUnpark. CASE BeginUnpark
  BY <1>0, LoopMaxAssumption, <1>BeginUnpark
  DEF BeginUnpark
<1>BeginSwitch. CASE BeginSwitch
  BY <1>0, LoopMaxAssumption, <1>BeginSwitch
  DEF BeginSwitch
<1>BeginRecover. CASE BeginRecover
  BY <1>0, LoopMaxAssumption, <1>BeginRecover
  DEF BeginRecover
<1>EndPark. CASE EndPark
  BY <1>0, LoopMaxAssumption, <1>EndPark
  DEF EndPark
<1>EndSwitchStop. CASE EndSwitchStop
  BY <1>0, LoopMaxAssumption, <1>EndSwitchStop
  DEF EndSwitchStop
<1>Entered. CASE Entered
  BY <1>0, LoopMaxAssumption, <1>Entered
  DEF Entered
<1>EndRecoverStop. CASE EndRecoverStop
  BY <1>0, LoopMaxAssumption, <1>EndRecoverStop
  DEF EndRecoverStop
<1>Recovered. CASE Recovered
  BY <1>0, LoopMaxAssumption, <1>Recovered
  DEF Recovered
<1>StayParked. CASE StayParked
  BY <1>0, LoopMaxAssumption, <1>StayParked
  DEF StayParked, Counted
<1>Restart. CASE Restart
  BY <1>0, LoopMaxAssumption, <1>Restart
  DEF Restart, Counted
<1>Reset. CASE Reset
  BY <1>0, LoopMaxAssumption, <1>Reset
  DEF Reset
<1>Age. CASE Age
  BY <1>0, LoopMaxAssumption, <1>Age
  DEF Age
<1> QED
  BY <1>AskSwitch, <1>AskPark, <1>AskUnpark, <1>AskRecover, <1>Send,
     <1>AskFence, <1>ReleaseFence, <1>Take, <1>Coalesce, <1>DropHeld,
     <1>BeginPark, <1>BeginUnpark, <1>BeginSwitch, <1>BeginRecover,
     <1>EndPark, <1>EndSwitchStop, <1>Entered, <1>EndRecoverStop,
     <1>Recovered, <1>StayParked, <1>Restart, <1>Reset, <1>Age
  DEF Next, Ask, Work, Serve

\* Boot establishes the invariant, steps and stutters keep it.
LEMMA InitInvariant == Init => IInv
<1> SUFFICES ASSUME Init PROVE IInv
  OBVIOUS
<1> USE NumAppsAssumption, LoopMaxAssumption, MaxTokenAssumption,
        QueueSizeAssumption DEF Init
<1>1. FlagTypes
  BY DEF FlagTypes
<1>2. AppTypes
  BY DEF AppTypes, App
<1>3. RequestTypes
  BY DEF RequestTypes
<1>4. Places
  BY DEF Places, IdleAgrees, Callbacks
<1>5. Tokens
  BY DEF Tokens, TokenBound, Nothing, Plain
<1>6. FenceKept /\ FaultTold /\ FaultParked /\ LoopCounted
  BY DEF FenceKept, FaultTold, FaultParked, LoopCounted
<1> QED
  BY <1>1, <1>2, <1>3, <1>4, <1>5, <1>6 DEF IInv, TypeOK

\* A step of another part of the system leaves the invariant alone.
LEMMA Stutter == IInv /\ UNCHANGED vars => IInv'
<1> SUFFICES ASSUME IInv, UNCHANGED vars PROVE IInv'
  OBVIOUS
<1> USE DEF IInv, vars, app, fence, worker, boot
<1>1. FlagTypes'
  BY DEF TypeOK, FlagTypes
<1>2. AppTypes'
  BY DEF TypeOK, AppTypes
<1>3. RequestTypes'
  BY DEF TypeOK, RequestTypes
<1>4. Places'
  BY DEF Places, IdleAgrees
<1>5. Tokens'
  BY DEF Tokens, TokenBound
<1>6. FenceKept' /\ FaultTold' /\ FaultParked' /\ LoopCounted'
  BY DEF FenceKept, FaultTold, FaultParked, LoopCounted
<1> QED
  BY <1>1, <1>2, <1>3, <1>4, <1>5, <1>6 DEF TypeOK

\* A step of a caller, of the worker or of the boot keeps the invariant.
LEMMA StepInvariant == IInv /\ [Next]_vars => IInv'
<1> SUFFICES ASSUME IInv, [Next]_vars PROVE IInv'
  OBVIOUS
<1>1. CASE Next
  BY <1>1, FlagStep, AppStep, RequestStep, PlacesStep, TokensStep,
     FenceKeptStep, FaultStep, LoopStep
  DEF IInv, TypeOK
<1>2. CASE UNCHANGED vars
  BY <1>2, Stutter
<1> QED
  BY <1>1, <1>2

-----------------------------------------------------------------------------
\* The theorems.

\* In every state of the program the parts of the inductive invariant hold.
THEOREM Invariant == Spec => []IInv
BY InitInvariant, StepInvariant, PTL DEF Spec

\* Every variable has its type; with it, a worker that broke a restart loop
\* has not left the count at its limit.
THEOREM TypeCorrect == Spec => []TypeOK
<1>1. IInv => TypeOK
  BY DEF IInv
<1> QED
  BY <1>1, Invariant, PTL

\* Of any number of apps, callers and requests, whatever stops fail and
\* recoveries restart the program: no two receiver apps own the radio.
THEOREM NoTwoOwners == Spec => []OneOwner
<1>1. IInv => OneOwner
  <2> SUFFICES ASSUME IInv PROVE OneOwner
    OBVIOUS
  <2>1. running = {} \/ running = {current}
    BY DEF IInv, TypeOK, AppTypes, Places, IdleAgrees
  <2>2. Cardinality({}) = 0
    BY FS_EmptySet
  <2>3. Cardinality({current}) = 1
    BY FS_Singleton
  <2> QED
    BY <2>1, <2>2, <2>3 DEF OneOwner
<1> QED
  BY <1>1, Invariant, PTL

\* Between requests parked and current say what runs.
THEOREM TruthWhenIdle == Spec => []IdleAgrees
<1>1. IInv => IdleAgrees
  BY DEF IInv, Places
<1> QED
  BY <1>1, Invariant, PTL

\* With any number of fences, callers and queued requests: while a fence that
\* was acknowledged is up, no app runs and none is being entered or stopped.
THEOREM AcknowledgedFenceHolds == Spec => []FenceHolds
<1>1. IInv => FenceHolds
  <2> SUFFICES ASSUME IInv, held, Status(token) = 1
               PROVE  parked /\ running = {} /\ at \in {"idle", "drain"}
    BY DEF FenceHolds
  <2>1. token # 0 /\ ack = token
    BY DEF Status, IInv, TypeOK, RequestTypes
  <2>2. parked /\ at \in {"idle", "drain"}
    BY <2>1 DEF IInv, FenceKept
  <2> QED
    BY <2>2 DEF IInv, Places, IdleAgrees
<1> QED
  BY <1>1, Invariant, PTL

\* An app is shown as parked by a fault exactly while the park that lasts is a
\* failed recovery's and no recovery has succeeded since.
THEOREM FaultIsReal == Spec => []FaultTold
<1>1. IInv => FaultTold
  BY DEF IInv
<1> QED
  BY <1>1, Invariant, PTL

\* With RECOVER_LOOP_MAX as the code has it, two: the first recovery that
\* fails in the 30 seconds after a recovery restart makes no other restart.
THEOREM NoRestartLoop == ASSUME LoopMax = 2 PROVE Spec => []LoopBroken
<1>1. IInv => LoopBroken
  BY DEF IInv, LoopCounted, LoopBroken
<1> QED
  BY <1>1, Invariant, PTL

-----------------------------------------------------------------------------
(* The fences on their way: from the screen into the queue and to the      *)
(* worker in the order of their tokens, and none after the answer to the   *)
(* one the screen waits for.                                               *)

Queued == {i \in 1..Len(queue) : queue[i].kind = "fence"}

\* The worker has a fence only where it parks the app; tokens grow along the
\* way; the fence about to be sent is the newest and has no answer yet.
FenceOrder ==
    /\ job.kind = "fence" => at \in {"drain", "parkStop"}
    /\ \A i \in Queued : job.kind = "fence" => job.arg < queue[i].arg
    /\ \A i, j \in Queued : i < j => queue[i].arg < queue[j].arg
    /\ waits <= token /\ failed <= token
    /\ \A c \in Caller : sending[c].kind = "fence" =>
         /\ c = Screen /\ sending[c].arg = token
         /\ waits < token /\ ack # token /\ failed # token
         /\ job.kind = "fence" => job.arg < token
         /\ \A i \in Queued : queue[i].arg < token

\* Behind the answer no fence comes that could give another.
NoneAfter ==
    waits # 0 /\ waits = token /\ Status(waits) # 0 =>
        job.kind # "fence" /\ Queued = {}

FencesInv == FenceOrder /\ NoneAfter /\ FenceInHand

LEMMA RequestFields ==
    ASSUME NEW r \in Request \cup {Nothing}
    PROVE  /\ r.kind = "fence" => r = Fence(r.arg) /\ r.arg \in Nat \ {0}
           /\ \A n : r = Fence(n) => r.kind = "fence" /\ r.arg = n
BY MaxTokenAssumption DEF Request, Nothing, Plain, Switch, Fence

\* What the types say of the requests on their way.
LEMMA OnTheWay ==
    ASSUME IInv
    PROVE  /\ token \in Nat /\ ack \in Nat /\ failed \in Nat /\ waits \in Nat
           /\ ack <= token /\ queue \in Seq(Request) /\ Len(queue) \in Nat
           /\ job \in Request \cup {Nothing}
           /\ \A i \in 1..Len(queue) :
                queue[i] \in Request \cup {Nothing}
                /\ (queue[i].kind = "fence" => queue[i].arg \in Nat /\ queue[i].arg <= token)
           /\ job.kind = "fence" => job.arg \in Nat /\ job.arg <= token
<1>1. RequestTypes /\ Tokens
  BY DEF IInv, TypeOK
<1>2. /\ token \in Nat /\ ack \in Nat /\ failed \in Nat /\ waits \in Nat
      /\ queue \in Seq(Request) /\ Len(queue) \in Nat
      /\ job \in Request \cup {Nothing}
      /\ \A i \in 1..Len(queue) : queue[i] \in Request \cup {Nothing}
  BY <1>1, MaxTokenAssumption DEF RequestTypes
<1> QED
  BY <1>1, <1>2, RequestFields DEF Tokens, TokenBound

\* Steps that bring no fence on its way and take none off it.
LEMMA FencesStay ==
    ASSUME IInv, FencesInv, UNCHANGED <<token, ack, failed, waits, queue>>,
           \A c \in Caller : sending'[c].kind = "fence" => sending'[c] = sending[c],
           \/ UNCHANGED <<job, at>>
           \/ job.kind = "fence" /\ UNCHANGED job /\ at' = "parkStop"
           \/ job.kind # "fence" /\ job'.kind # "fence"
    PROVE  FencesInv'
<1>0. Queued' = Queued /\ \A n : Status(n)' = Status(n)
  BY DEF Queued, Status
<1>1. job'.kind = "fence" <=> job.kind = "fence"
  OBVIOUS
<1>2. job.kind = "fence" => job' = job
  OBVIOUS
<1>3. FenceOrder'
  BY <1>0, <1>1, <1>2 DEF FencesInv, FenceOrder
<1>4. NoneAfter'
  BY <1>0, <1>1 DEF FencesInv, NoneAfter
<1>5. FenceInHand'
  BY <1>0, <1>1, <1>2, OnTheWay, RequestFields DEF FencesInv, FenceInHand, Status
<1> QED
  BY <1>3, <1>4, <1>5 DEF FencesInv

\* A restart forgets them all.
LEMMA FencesBoot == ASSUME NEW b, Boots(b) PROVE FencesInv'
<1>1. /\ job'.kind # "fence" /\ \A c \in Caller : sending'[c].kind # "fence"
      /\ queue' = <<>> /\ waits' = 0 /\ token' = 0 /\ failed' = 0
  BY DEF Boots, Nothing, Plain
<1>2. Queued' = {}
  BY <1>1 DEF Queued
<1> QED
  BY <1>1, <1>2 DEF FencesInv, FenceOrder, NoneAfter, FenceInHand

\* A new fence is asked for: its token is above every other.
LEMMA FencesAsk == ASSUME IInv, FencesInv, AskFence PROVE FencesInv'
<1>1. /\ token' = token + 1 /\ UNCHANGED <<ack, failed, waits, queue, job, at>>
      /\ Free(Screen) /\ sending' = [sending EXCEPT ![Screen] = Fence(token + 1)]
  BY DEF AskFence, Asks, worker
<1>2. sending \in [Caller -> Request \cup {Nothing}] /\ Screen \in Caller
  BY ScreenAssumption DEF IInv, TypeOK, RequestTypes
<1>3. /\ \A c \in Caller : c # Screen => sending'[c] = sending[c]
      /\ sending'[Screen].arg = token + 1
  BY <1>1, <1>2 DEF Fence
<1>4. \A c \in Caller : sending'[c].kind = "fence" => c = Screen
  BY <1>3 DEF FencesInv, FenceOrder
<1>5. Queued' = Queued
  BY <1>1 DEF Queued
<1>6. /\ waits < token' /\ ack < token' /\ failed < token' /\ waits # token'
      /\ job.kind = "fence" => job.arg < token'
      /\ \A i \in Queued : queue[i].arg < token'
  BY <1>1, OnTheWay DEF FencesInv, FenceOrder, Queued
<1>7. FenceOrder'
  <2>1. waits' <= token' /\ failed' <= token' /\ ack' # token' /\ failed' # token'
    BY <1>1, <1>6, OnTheWay
  <2> QED
    BY <1>1, <1>3, <1>4, <1>5, <1>6, <2>1 DEF FencesInv, FenceOrder
<1>8. NoneAfter' /\ FenceInHand'
  BY <1>1, <1>6 DEF NoneAfter, FenceInHand, Status
<1> QED
  BY <1>7, <1>8 DEF FencesInv

\* A request is sent: it comes last in the queue, or is dropped.
LEMMA FencesSend == ASSUME IInv, FencesInv, NEW c \in Caller, Send(c) PROVE FencesInv'
<1> DEFINE r == sending[c]
<1>1. /\ UNCHANGED <<token, ack, job, at>> /\ sending' = [sending EXCEPT ![c] = Nothing]
      /\ sending \in [Caller -> Request \cup {Nothing}] /\ r \in Request
  BY DEF Send, worker, Free, IInv, TypeOK, RequestTypes
<1>2. \A d \in Caller : sending'[d].kind = "fence" => d # c /\ sending'[d] = sending[d]
  BY <1>1 DEF Nothing, Plain
<1>3. CASE ~(Len(queue) < QueueSize) /\ r.kind # "fence"
  BY <1>1, <1>2, <1>3, FencesStay DEF Send
<1>4. CASE ~(Len(queue) < QueueSize) /\ r.kind = "fence"
  <2>1. UNCHANGED queue /\ waits' = 0 /\ failed' = r.arg /\ r.arg = token
    BY <1>1, <1>4 DEF Send, FencesInv, FenceOrder
  <2>2. Queued' = Queued
    BY <2>1 DEF Queued
  <2>3. \A d \in Caller : sending'[d].kind # "fence"
    BY <1>2, <1>4 DEF FencesInv, FenceOrder
  <2>4. waits' <= token' /\ failed' <= token'
    BY <1>1, <2>1, OnTheWay
  <2> QED
    BY <1>1, <2>1, <2>2, <2>3, <2>4 DEF FencesInv, FenceOrder, NoneAfter, FenceInHand
<1>5. CASE Len(queue) < QueueSize
  <2> DEFINE n == Len(queue) + 1
  <2>1. /\ queue' = Append(queue, r) /\ UNCHANGED failed
        /\ waits' = IF r.kind = "fence" THEN r.arg ELSE waits
    BY <1>5 DEF Send
  <2>2. /\ n \in Nat /\ Len(queue') = n /\ 1..n = 1..Len(queue) \cup {n} /\ n \notin 1..Len(queue)
        /\ queue'[n] = r /\ \A i \in 1..Len(queue) : queue'[i] = queue[i] /\ i < n
    BY <1>1, <2>1, OnTheWay
  <2> HIDE DEF n
  <2>3. CASE r.kind # "fence"
    <3>1. Queued' = Queued /\ Queued \subseteq 1..Len(queue)
      BY <2>2, <2>3 DEF Queued
    <3>2. UNCHANGED waits /\ \A m : Status(m)' = Status(m)
      BY <1>1, <2>1, <2>3 DEF Status
    <3>3. FenceOrder'
      BY <1>1, <1>2, <2>1, <2>2, <3>1, <3>2 DEF FencesInv, FenceOrder
    <3>4. NoneAfter'
      BY <1>1, <3>1, <3>2 DEF FencesInv, NoneAfter
    <3>5. FenceInHand'
      BY <1>1, <2>2, <3>2 DEF FencesInv, FenceInHand, Status
    <3> QED
      BY <3>3, <3>4, <3>5 DEF FencesInv
  <2>4. CASE r.kind = "fence"
    <3>1. Queued' = Queued \cup {n} /\ Queued \subseteq 1..Len(queue)
      BY <2>2, <2>4 DEF Queued
    <3>2. /\ r.arg = token /\ waits' = token /\ r = Fence(token)
          /\ ack # token /\ failed # token
          /\ job.kind = "fence" => job.arg < token
          /\ \A i \in Queued : queue[i].arg < token
      BY <1>1, <2>1, <2>4, RequestFields DEF FencesInv, FenceOrder
    <3>3. \A d \in Caller : sending'[d].kind # "fence"
      BY <1>2, <2>4 DEF FencesInv, FenceOrder
    <3>4. FenceOrder'
      <4>1. \A i \in Queued' : job'.kind = "fence" => job'.arg < queue'[i].arg
        BY <1>1, <2>2, <3>1, <3>2 DEF FencesInv, FenceOrder
      <4>2. ASSUME NEW i \in Queued', NEW j \in Queued', i < j
            PROVE  queue'[i].arg < queue'[j].arg
        <5>1. i \in Queued
          BY <2>2, <3>1, <4>2, OnTheWay
        <5> QED
          BY <2>2, <3>1, <3>2, <4>2, <5>1 DEF FencesInv, FenceOrder
      <4>3. waits' <= token' /\ failed' <= token'
        BY <1>1, <2>1, <3>2, OnTheWay DEF FencesInv, FenceOrder
      <4> QED
        BY <1>1, <3>3, <4>1, <4>2, <4>3 DEF FencesInv, FenceOrder
    <3>5. waits' # 0 => Status(waits)' = 0
      BY <1>1, <2>1, <3>2 DEF Status
    <3>6. FenceInHand' /\ NoneAfter'
      BY <2>2, <3>2, <3>5 DEF FenceInHand, NoneAfter
    <3> QED
      BY <3>4, <3>6 DEF FencesInv
  <2> QED
    BY <2>3, <2>4
<1> QED
  BY <1>3, <1>4, <1>5

\* A request is taken from the queue: the worker keeps a fence it has, for no
\* other fence but a newer one can follow it.
LEMMA FencesTake ==
    ASSUME IInv, FencesInv, queue # <<>>, queue' = Tail(queue), at' = "drain",
           job' = Wins(job, Head(queue)), UNCHANGED <<token, ack, failed, waits, sending>>
    PROVE  FencesInv'
<1>1. /\ Len(queue') = Len(queue) - 1 /\ Len(queue) \in Nat /\ Len(queue) >= 1
      /\ Head(queue) = queue[1] /\ 1 \in 1..Len(queue)
      /\ \A i \in 1..Len(queue) - 1 : queue'[i] = queue[i + 1] /\ i + 1 \in 1..Len(queue)
  BY OnTheWay
<1>2. ASSUME NEW i \in 1..Len(queue), i # 1
      PROVE  i - 1 \in 1..Len(queue') /\ queue'[i - 1] = queue[i]
  <2>1. i - 1 \in 1..Len(queue) - 1 /\ i - 1 + 1 = i
    BY <1>1, <1>2
  <2> QED
    BY <1>1, <2>1
<1>3. ASSUME NEW i \in Queued' PROVE i + 1 \in Queued /\ 1 < i + 1 /\ queue'[i] = queue[i + 1]
  BY <1>1, <1>3 DEF Queued
<1>4. job'.kind = "fence" =>
          \/ job' = queue[1] /\ 1 \in Queued
          \/ job' = job
  BY <1>1 DEF Wins, Queued
<1>5. FenceOrder'
  <2>1. \A i \in Queued' : job'.kind = "fence" => job'.arg < queue'[i].arg
    BY <1>3, <1>4 DEF FencesInv, FenceOrder
  <2>2. ASSUME NEW i \in Queued', NEW j \in Queued', i < j
        PROVE  queue'[i].arg < queue'[j].arg
    <3>1. i + 1 < j + 1
      BY <2>2, <1>1 DEF Queued
    <3> QED
      BY <1>3, <2>2, <3>1 DEF FencesInv, FenceOrder
  <2>3. ASSUME NEW c \in Caller, sending[c].kind = "fence"
        PROVE  /\ job'.kind = "fence" => job'.arg < token
               /\ \A i \in Queued' : queue'[i].arg < token
    BY <1>3, <1>4, <2>3 DEF FencesInv, FenceOrder
  <2> QED
    BY <2>1, <2>2, <2>3 DEF FencesInv, FenceOrder
<1>6. NoneAfter'
  <2>1. \A n : Status(n)' = Status(n)
    BY DEF Status
  <2> QED
    BY <1>3, <1>4, <2>1 DEF FencesInv, NoneAfter
<1>7. FenceInHand'
  <2> SUFFICES ASSUME waits # 0, Status(waits) = 0
               PROVE  job' = Fence(waits) \/ \E i \in 1..Len(queue') : queue'[i] = Fence(waits)
    BY DEF FenceInHand, Status
  <2>1. waits = token
    BY DEF Status
  <2>2. CASE job = Fence(waits)
    <3>1. job.kind = "fence" /\ job.arg = token
      BY <2>1, <2>2, OnTheWay, RequestFields
    <3>2. queue[1].kind # "fence"
      <4>1. queue[1].kind = "fence" => job.arg < queue[1].arg /\ queue[1].arg <= token
        BY <1>1, <3>1, OnTheWay DEF FencesInv, FenceOrder, Queued
      <4> QED
        BY <1>1, <3>1, <4>1, OnTheWay
    <3> QED
      BY <1>1, <2>2, <3>1, <3>2 DEF Wins
  <2>3. CASE queue[1] = Fence(waits)
    <3>1. queue[1].kind = "fence"
      BY <1>1, <2>3, OnTheWay, RequestFields
    <3> QED
      BY <1>1, <2>3, <3>1 DEF Wins
  <2>4. CASE \E i \in 1..Len(queue) : i # 1 /\ queue[i] = Fence(waits)
    BY <1>2, <2>4
  <2> QED
    BY <2>2, <2>3, <2>4 DEF FencesInv, FenceInHand
<1> QED
  BY <1>5, <1>6, <1>7 DEF FencesInv

\* The worker answers its fence.
LEMMA FencesAnswered ==
    ASSUME IInv, FencesInv, job.kind = "fence", job' = Nothing,
           UNCHANGED <<token, waits, queue, sending>>,
           (ack' = job.arg /\ failed' = failed) \/ (ack' = ack /\ failed' = job.arg)
    PROVE  FencesInv'
<1>0. job'.kind # "fence" /\ Queued' = Queued
  BY DEF Nothing, Plain, Queued
<1>1. job.arg \in Nat /\ job.arg <= token /\ ack' <= token /\ failed' <= token
  BY OnTheWay DEF FencesInv, FenceOrder
<1>2. ASSUME NEW c \in Caller, sending[c].kind = "fence" PROVE ack' # token /\ failed' # token
  <2>1. job.arg < token /\ ack # token /\ failed # token
    BY <1>2 DEF FencesInv, FenceOrder
  <2> QED
    BY <1>1, <2>1, OnTheWay
<1>3. FenceOrder'
  BY <1>0, <1>1, <1>2 DEF FencesInv, FenceOrder
<1>4. CASE waits # 0 /\ waits = token
  <2>1. Status(waits) = 0
    BY <1>4 DEF FencesInv, NoneAfter
  <2>2. job.arg = token => Queued = {} /\ Status(waits)' # 0
    <3>1. \A i \in Queued : job.arg < queue[i].arg /\ queue[i].arg <= token /\ queue[i].arg \in Nat
      BY OnTheWay DEF FencesInv, FenceOrder, Queued
    <3>2. job.arg = token => Queued = {}
      BY <1>1, <3>1
    <3>3. job.arg = token => Status(waits)' # 0
      BY <1>4, <2>1 DEF Status
    <3> QED
      BY <3>2, <3>3
  <2>3. job.arg # token => Status(waits)' = 0
    BY <1>4, <2>1 DEF Status
  <2>4. job.arg # token => \E i \in 1..Len(queue) : queue[i] = Fence(waits)
    BY <1>4, <2>1, OnTheWay, RequestFields DEF FencesInv, FenceInHand
  <2>5. NoneAfter'
    BY <1>0, <2>2, <2>3 DEF NoneAfter
  <2>6. FenceInHand'
    BY <2>2, <2>4 DEF FenceInHand
  <2> QED
    BY <1>3, <2>5, <2>6 DEF FencesInv
<1>5. CASE waits = 0 \/ waits # token
  BY <1>3, <1>5 DEF FencesInv, NoneAfter, FenceInHand, Status
<1> QED
  BY <1>4, <1>5

LEMMA FencesStep == IInv /\ FencesInv /\ [Next]_vars => FencesInv'
<1> SUFFICES ASSUME IInv, FencesInv, [Next]_vars PROVE FencesInv'
  OBVIOUS
<1>1. ASSUME NEW c \in Caller, AskSwitch(c) \/ AskPark(c) \/ AskUnpark(c) \/ AskRecover(c)
      PROVE  FencesInv'
  <2>1. PICK r : r.kind # "fence" /\ sending' = [sending EXCEPT ![c] = r]
    BY <1>1 DEF AskSwitch, AskPark, AskUnpark, AskRecover, Asks, Switch, Plain
  <2>2. sending \in [Caller -> Request \cup {Nothing}]
    BY DEF IInv, TypeOK, RequestTypes
  <2>3. \A d \in Caller : sending'[d].kind = "fence" => sending'[d] = sending[d]
    BY <2>1, <2>2
  <2>4. UNCHANGED <<token, ack, failed, waits, queue, job, at>>
    BY <1>1 DEF AskSwitch, AskPark, AskUnpark, AskRecover, Asks, fence, worker
  <2> QED
    BY <2>3, <2>4, FencesStay
<1>2. ASSUME NEW c \in Caller, Send(c) PROVE FencesInv'
  BY <1>2, FencesSend
<1>3. CASE AskFence
  BY <1>3, FencesAsk
<1>4. CASE ReleaseFence \/ Age \/ UNCHANGED vars
  BY <1>4, FencesStay DEF ReleaseFence, Age, vars, fence, worker
<1>5. CASE Take
  <2>1. job.kind # "fence"
    BY <1>5 DEF Take, FencesInv, FenceOrder
  <2> QED
    BY <1>5, <2>1, FencesTake DEF Take, Wins, fence
<1>6. CASE Coalesce
  BY <1>6, FencesTake DEF Coalesce, fence
<1>7. ASSUME job.kind # "fence", UNCHANGED <<fence, queue, sending>>, job' = job \/ job' = Nothing
      PROVE  FencesInv'
  <2>1. job'.kind # "fence"
    BY <1>7 DEF Nothing, Plain
  <2> QED
    BY <1>7, <2>1, FencesStay DEF fence
<1>8. CASE DropHeld \/ BeginUnpark \/ BeginSwitch \/ BeginRecover
  BY <1>7, <1>8 DEF DropHeld, BeginUnpark, BeginSwitch, BeginRecover, Serves, Quits, GoesTo, Enters
<1>9. CASE EndSwitchStop \/ Entered \/ EndRecoverStop \/ Recovered \/ StayParked
  <2>1. job.kind # "fence"
    BY <1>9 DEF EndSwitchStop, Entered, EndRecoverStop, Recovered, StayParked,
                FencesInv, FenceOrder
  <2> QED
    BY <1>7, <1>9, <2>1 DEF EndSwitchStop, Entered, EndRecoverStop, Recovered, StayParked,
                            Quits, GoesTo, Enters
<1>10. CASE BeginPark \/ EndPark
  <2>1. CASE job.kind # "fence"
    BY <1>7, <1>10, <2>1 DEF BeginPark, EndPark, Quits, GoesTo, Answer
  <2>2. CASE job.kind = "fence" /\ at' = "parkStop"
    BY <1>10, <2>2, FencesStay DEF BeginPark, EndPark, Quits, GoesTo, fence
  <2>3. CASE job.kind = "fence" /\ job' = Nothing
    <3>1. UNCHANGED <<token, waits, queue, sending>>
      BY <1>10, <2>3 DEF BeginPark, EndPark, Quits, GoesTo, Answer, fence
    <3>2. (ack' = job.arg /\ failed' = failed) \/ (ack' = ack /\ failed' = job.arg)
      <4>1. ASSUME NEW ok \in BOOLEAN, Answer(ok)
            PROVE  (ack' = job.arg /\ failed' = failed) \/ (ack' = ack /\ failed' = job.arg)
        BY <2>3, <4>1 DEF Answer
      <4>2. CASE BeginPark
        <5>1. job' # job
          BY <2>3 DEF Nothing, Plain
        <5>2. Answer(TRUE)
          BY <4>2, <5>1 DEF BeginPark, GoesTo
        <5> QED
          BY <4>1, <5>2
      <4>3. CASE EndPark
        BY <4>1, <4>3 DEF EndPark
      <4> QED
        BY <1>10, <4>2, <4>3
    <3> QED
      BY <2>3, <3>1, <3>2, FencesAnswered
  <2> QED
    BY <1>10, <2>1, <2>2, <2>3 DEF BeginPark, EndPark, Quits, GoesTo
<1>11. CASE Restart \/ Reset
  BY <1>11, FencesBoot DEF Restart, Reset
<1> QED
  BY <1>1, <1>2, <1>3, <1>4, <1>5, <1>6, <1>8, <1>9, <1>10, <1>11 DEF Next, Ask, Work, Serve

LEMMA FencesStart == Init => FencesInv
<1> SUFFICES ASSUME Init PROVE FencesInv
  OBVIOUS
<1>1. Queued = {} /\ job.kind # "fence" /\ \A c \in Caller : sending[c].kind # "fence"
  BY DEF Init, Queued, Nothing, Plain
<1> QED
  BY <1>1 DEF Init, FencesInv, FenceOrder, NoneAfter, FenceInHand

\* No fence the screen waits for is lost: until it is answered the worker has
\* it or it is in the queue, though the worker coalesces what it finds there
\* and a full queue drops what is sent.
THEOREM NoFenceIsLost == Spec => []FenceInHand
<1>1. FencesInv => FenceInHand
  BY DEF FencesInv
<1> QED
  BY <1>1, FencesStart, FencesStep, Invariant, PTL DEF Spec

\* The answer to the fence the screen waits for stands: "a late completion
\* from an earlier timeout cannot acknowledge a newer request", nor take the
\* answer to it back (app_switch_service).
THEOREM AnswersStand == Spec => AnswerStands
<1> DEFINE A == waits # 0 /\ UNCHANGED <<waits, token>> /\ Status(waits) # 0
                    => Status(waits)' = Status(waits)
<1>1. IInv /\ FencesInv /\ [Next]_vars => [A]_vars
  <2> SUFFICES ASSUME IInv, FencesInv, [Next]_vars, waits # 0, UNCHANGED <<waits, token>>,
                      Status(waits) # 0
               PROVE  Status(waits)' = Status(waits)
    OBVIOUS
  <2>1. CASE UNCHANGED <<ack, failed>>
    BY <2>1 DEF Status
  <2>2. CASE waits # token
    BY <2>2 DEF Status
  <2>3. CASE waits = token /\ ~UNCHANGED <<ack, failed>>
    <3>1. job.kind # "fence"
      BY <2>3 DEF FencesInv, NoneAfter
    <3>2. ASSUME NEW c \in Caller, Send(c) PROVE FALSE
      <4>1. sending[c].kind = "fence"
        BY <2>3, <3>2 DEF Send
      <4>2. waits < token
        BY <4>1 DEF FencesInv, FenceOrder
      <4> QED
        BY <2>3, <4>2, OnTheWay
    <3>3. CASE Restart \/ Reset
      BY <3>3 DEF Restart, Reset, Boots
    <3>4. UNCHANGED <<ack, failed>> \/ Restart \/ Reset
      BY <3>1, <3>2 DEF Next, Ask, Work, Serve, vars, fence, AskSwitch, AskPark, AskUnpark,
                        AskRecover, AskFence, ReleaseFence, Take, Coalesce, DropHeld, BeginPark,
                        BeginUnpark, BeginSwitch, BeginRecover, EndPark, EndSwitchStop, Entered,
                        EndRecoverStop, Recovered, StayParked, Age, Answer
    <3> QED
      BY <2>3, <3>3, <3>4
  <2> QED
    BY <2>1, <2>2, <2>3
<1> QED
  BY <1>1, FencesStart, FencesStep, Invariant, PTL DEF Spec, AnswerStands
=============================================================================
