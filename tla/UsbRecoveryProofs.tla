--------------------------- MODULE UsbRecoveryProofs ---------------------------
(***************************************************************************)
(* Proofs about UsbRecovery, for any limits: one worker on the static      *)
(* stack where there is no power switch, and a budget that holds through   *)
(* restarts.                                                               *)
(***************************************************************************)
EXTENDS UsbRecovery, TLAPS

\* A caller between its claim of the slot and its worker.
Owns(c) == at[c] \in {"reclaim", "create"}
Alive == {"start", "torn", "wait", "giveup", "report"}
Parked == {"suspending", "suspended"}

\* Who has the slot, on a board without a switch: a caller, a worker that is at
\* work or one that is parked, or nobody; never two of them.
SlotKept ==
    /\ \A c, d \in Callers : Owns(c) /\ Owns(d) => c = d
    /\ \A c \in Callers : Owns(c) => slot = "RUNNING"
    /\ worker \in Alive \cup Parked \cup {"none"}
    /\ worker = "none" => slot = "IDLE" \/ \E c \in Callers : at[c] = "create"
    /\ worker \in Alive => slot = "RUNNING" /\ \A c \in Callers : ~Owns(c)
    /\ worker \in Parked => slot = "FINISHED" \/ \E c \in Callers : at[c] = "reclaim"

CallersType ==
    /\ at \in [Callers -> Places]
    /\ slot \in {"IDLE", "RUNNING", "FINISHED"}
Inv == CallersType /\ (~vbus => SlotKept)

\* What a cycle that settings_task has asked for may still spend.
Spending == at["settings"] \in {"claim", "reclaim", "create"}
BudgetInv ==
    /\ CallersType
    /\ count \in Nat /\ spent \in Nat
    /\ spent <= count /\ count <= MaxCycles
    /\ Spending => count < MaxCycles

\* The steps that leave the callers, the worker and the budget alone, and those
\* that begin again.
Aloof == UNCHANGED <<vbus, at, slot, worker, count, spent>>
Restarts == Booted /\ vbus' = vbus

-----------------------------------------------------------------------------
LEMMA CallersAre == "settings" \in Callers /\ "console" \in Callers
BY DEF Callers

LEMMA AloofSteps ==
    ASSUME Plug \/ Unplug \/ Wedge \/ Balks \/ Enter \/ Leave \/ Attach \/ App
           \/ Found \/ UNCHANGED vars
    PROVE  Aloof
BY DEF Plug, Unplug, Wedge, Enter, Leave, Attach, App, Look, OpenRefused,
       Balks, Again, ConfigureFails, Configures, StartFails, Opens, Opening, Note,
       Lose, Found, vars, callers, work, budget, Aloof

LEMMA RecoverSteps ==
    ASSUME Recover PROVE Aloof \/ (Restarts /\ UNCHANGED <<count, spent>>)
BY DEF Recover, Reboot, Restarts, callers, work, budget, Aloof

\* The watchdog: it may ask for a cycle, with what is left of the budget.
Asks ==
    /\ Ticking /\ UNCHANGED <<vbus, slot, worker, count, spent>>
    /\ at' = [at EXCEPT !["settings"] = IF count < MaxCycles THEN "claim" ELSE "refused"]

LEMMA TickSteps == ASSUME Tick PROVE Aloof \/ Asks
<1>1. TickAbsent => Aloof
  BY DEF TickAbsent, Goes, Quiet, work, budget, Aloof
<1>2. TickDead => Asks
  BY DEF TickDead, Escalates, AskCycle, Quiet, work, budget, Asks
<1>3. TickSettled => Aloof
  BY DEF TickSettled, Goes, Quiet, work, budget, Aloof
<1>4. TickFresh => Aloof
  BY DEF TickFresh, Quiet, work, budget, Aloof
<1>5. TickStalls => Aloof
  BY DEF TickStalls, Goes, Quiet, work, budget, Aloof
<1>6. StalledCase /\ Quiet /\ Ticking => Aloof \/ Asks
  BY DEF StalledCase, Goes, Escalates, AskCycle, Quiet, work, budget, Aloof, Asks
<1>7. TickStalled => Aloof \/ Asks
  BY <1>6 DEF TickStalled, Judging
<1>9. TickRecovering => Aloof
  BY DEF TickRecovering, Goes, Quiet, work, budget, Aloof
<1>10. TickCycled => Aloof
  BY DEF TickCycled, Quiet, work, budget, Aloof
<1>11. TickFailed => Aloof
  BY DEF TickFailed, Quiet, work, budget, Aloof
<1> QED
  BY <1>1, <1>2, <1>3, <1>4, <1>5, <1>7, <1>9, <1>10, <1>11 DEF Tick

LEMMA AbsentSteps == ASSUME Absent PROVE Asks
BY DEF Absent, AskCycle, work, budget, Asks

-----------------------------------------------------------------------------
(* One worker *)

LEMMA InitInv == Init => Inv
BY DEF Init, Inv, CallersType, Places, Callers, AtRest, SlotKept, Owns, Alive, Parked

LEMMA RestartInv == ASSUME Restarts PROVE Inv'
BY DEF Restarts, Booted, Inv, CallersType, Places, Callers, AtRest, SlotKept,
       Owns, Alive, Parked

LEMMA AloofInv == ASSUME Inv, Aloof PROVE Inv'
BY DEF Inv, Aloof, CallersType, SlotKept, Owns

\* A caller that moves outside the slot leaves it to whom it belongs.
Outside == Places \ {"reclaim", "create"}
LEMMA OutsideInv ==
    ASSUME Inv, NEW c \in Callers, at[c] \in Outside, NEW p \in Outside,
           at' = [at EXCEPT ![c] = p], UNCHANGED <<vbus, slot, worker>>
    PROVE  Inv'
<1>1. CallersType'
  BY DEF Inv, CallersType, Outside
<1>2. \A d \in Callers : Owns(d)' <=> Owns(d)
  BY DEF Inv, CallersType, Outside, Owns
<1>3. \A d \in Callers : at'[d] = at[d] \/ (at[d] \in Outside /\ at'[d] \in Outside)
  BY DEF Inv, CallersType
<1>4. ~vbus => SlotKept'
  BY <1>2, <1>3 DEF Inv, SlotKept, Outside
<1> QED  BY <1>1, <1>4 DEF Inv

LEMMA StepInv == ASSUME Inv, [Next]_vars PROVE Inv'
<1>1. CASE Aloof
  BY <1>1, AloofInv
<1>2. CASE Restarts
  BY <1>2, RestartInv
<1>3. ASSUME Asks PROVE Inv'
  <2>1. at["settings"] \in Outside /\ {"claim", "refused"} \subseteq Outside
    BY <1>3 DEF Asks, Ticking, Outside, Places
  <2>2. CASE count < MaxCycles
    BY <1>3, <2>1, <2>2, OutsideInv, CallersAre DEF Asks
  <2>3. CASE ~(count < MaxCycles)
    BY <1>3, <2>1, <2>3, OutsideInv, CallersAre DEF Asks
  <2> QED  BY <2>2, <2>3
<1>4. CASE Refill
  BY <1>4 DEF Refill, Inv, CallersType, SlotKept, Owns, callers, work
<1>5. CASE Refused
  <2>1. at["settings"] \in Outside /\ "tick" \in Outside
    BY <1>5 DEF Refused, Outside, Places
  <2> QED  BY <1>5, <2>1, OutsideInv, CallersAre DEF Refused, work
<1>6. CASE Ask
  <2>1. at["console"] \in Outside /\ "claim" \in Outside
    BY <1>6 DEF Ask, Outside, Places
  <2> QED  BY <1>6, <2>1, OutsideInv, CallersAre DEF Ask, GoTo, work
<1>7. ASSUME NEW c \in Callers, Claim(c) PROVE Inv'
  <2>1. CASE slot = "RUNNING"
    <3>1. PICK p \in {"rest", "refused"} : at' = [at EXCEPT ![c] = p]
      BY <1>7, <2>1 DEF Claim, Back, GoTo
    <3>2. at[c] \in Outside /\ p \in Outside
      BY <1>7 DEF Claim, Outside, Places
    <3> QED  BY <1>7, <2>1, <3>1, <3>2, OutsideInv DEF Claim
  <2>2. CASE slot = "IDLE"
    <3>1. slot' = "RUNNING" /\ at' = [at EXCEPT ![c] = "create"]
          /\ at[c] = "claim" /\ worker' = worker /\ vbus' = vbus
      BY <1>7, <2>2 DEF Claim, GoTo
    <3>2. CallersType'
      BY <3>1 DEF Inv, CallersType, Places
    <3>3. ~vbus => SlotKept'
      BY <2>2, <3>1 DEF Inv, CallersType, SlotKept, Owns, Alive, Parked
    <3> QED  BY <3>1, <3>2, <3>3 DEF Inv
  <2>3. CASE slot = "FINISHED"
    <3>1. slot' = "RUNNING" /\ at' = [at EXCEPT ![c] = "reclaim"]
          /\ at[c] = "claim" /\ worker' = worker /\ vbus' = vbus
      BY <1>7, <2>3 DEF Claim, GoTo
    <3>2. CallersType'
      BY <3>1 DEF Inv, CallersType, Places
    <3>3. ~vbus => SlotKept'
      BY <2>3, <3>1 DEF Inv, CallersType, SlotKept, Owns, Alive, Parked
    <3> QED  BY <3>1, <3>2, <3>3 DEF Inv
  <2> QED  BY <2>1, <2>2, <2>3 DEF Inv, CallersType
<1>8. ASSUME NEW c \in Callers, Reclaim(c) PROVE Inv'
  <2>1. CASE worker = "suspended"
    <3>1. slot' = slot /\ at' = [at EXCEPT ![c] = "create"]
          /\ at[c] = "reclaim" /\ worker' = "none" /\ vbus' = vbus
      BY <1>8, <2>1 DEF Reclaim, GoTo
    <3>2. CallersType'
      BY <3>1 DEF Inv, CallersType, Places
    <3>3. ~vbus => SlotKept'
      BY <2>1, <3>1 DEF Inv, CallersType, SlotKept, Owns, Alive, Parked
    <3> QED  BY <3>1, <3>2, <3>3 DEF Inv
  <2>2. CASE worker # "suspended"
    <3>1. PICK p \in {"rest", "refused"} : at' = [at EXCEPT ![c] = p]
      BY <1>8, <2>2 DEF Reclaim, Back, GoTo
    <3>2. slot' = "FINISHED" /\ at[c] = "reclaim" /\ worker' = worker /\ vbus' = vbus
      BY <1>8, <2>2 DEF Reclaim
    <3>3. CallersType'
      BY <3>1, <3>2 DEF Inv, CallersType, Places
    <3>4. ~vbus => SlotKept'
      BY <3>1, <3>2 DEF Inv, CallersType, SlotKept, Owns, Alive, Parked
    <3> QED  BY <3>2, <3>3, <3>4 DEF Inv
  <2> QED  BY <2>1, <2>2
<1>9. ASSUME NEW c \in Callers, Create(c) PROVE Inv'
  <2>1. PICK p \in {"rest", "refused", "tick"} : at' = [at EXCEPT ![c] = p]
    BY <1>9 DEF Create, Back, GoTo
  <2>2. /\ at[c] = "create" /\ vbus' = vbus
        /\ \/ slot' = "IDLE" /\ worker' = worker
           \/ slot' = slot /\ worker' = "start"
    BY <1>9 DEF Create
  <2>3. CallersType'
    BY <2>1, <2>2 DEF Inv, CallersType, Places
  <2>4. ~vbus => SlotKept'
    BY <2>1, <2>2 DEF Inv, CallersType, SlotKept, Owns, Alive, Parked
  <2> QED  BY <2>2, <2>3, <2>4 DEF Inv
<1>10. ASSUME Worker PROVE Inv'
  <2>1. CASE vbus
    <3>1. Restarts \/ (vbus' = vbus /\ at' = at /\ slot' \in {slot, "IDLE", "FINISHED"})
      BY <1>10, <2>1
         DEF Worker, VbusPark, VbusOff, VbusOn, VbusBack, VbusGone, VbusRestart,
             PortTeardown, PortRefused, PortCycled, PortStillOff, PortWait,
             GiveUp, Report, Suspend, Bystanders, callers, Reboot, Restarts
    <3> QED  BY <2>1, <3>1, RestartInv DEF Inv, CallersType
  <2>2. CASE ~vbus
    <3>1. \/ Restarts
          \/ /\ worker \in Alive /\ worker' \in Alive
             /\ UNCHANGED <<vbus, at, slot>>
          \/ /\ worker = "report" /\ worker' = "suspending" /\ slot' = "FINISHED"
             /\ UNCHANGED <<vbus, at>>
          \/ /\ worker = "suspending" /\ worker' = "suspended"
             /\ UNCHANGED <<vbus, at, slot>>
      BY <1>10, <2>2
         DEF Worker, VbusPark, VbusOff, VbusOn, VbusBack, VbusGone, VbusRestart,
             PortTeardown, PortRefused, PortCycled, PortStillOff, PortWait,
             GiveUp, Report, Suspend, Bystanders, callers, Reboot, Restarts, Alive
    <3> QED
      BY <2>2, <3>1, RestartInv DEF Inv, CallersType, SlotKept, Owns, Alive, Parked
  <2> QED  BY <2>1, <2>2
<1>11. CASE PowerOn
  BY <1>11, RestartInv DEF PowerOn, Restarts
<1> QED
  BY <1>1, <1>2, <1>3, <1>4, <1>5, <1>6, <1>7, <1>8, <1>9, <1>10, <1>11,
     AloofSteps, RecoverSteps, TickSteps, AbsentSteps
     DEF Next, World, Settings, Try

\* On a board without a power switch no caller creates the worker while another
\* is on the stack, or beside another caller (hl_sdr_power_cycle_try).
THEOREM StackHasOneWorker == Spec => []OneWorker
<1>1. Inv => OneWorker
  BY DEF Inv, SlotKept, Owns, OneWorker, Alive, Parked
<1> QED  BY <1>1, InitInv, StepInv, PTL DEF Spec

-----------------------------------------------------------------------------
(* The budget *)

LEMMA InitBudget == Init => BudgetInv
BY LimitsAssumption
   DEF Init, BudgetInv, CallersType, Places, Callers, AtRest, Spending

LEMMA StepBudget == ASSUME BudgetInv, [Next]_vars PROVE BudgetInv'
<1> USE LimitsAssumption
<1>1. CASE Aloof
  BY <1>1 DEF Aloof, BudgetInv, CallersType, Spending
<1>2. ASSUME Restarts, UNCHANGED <<count, spent>> PROVE BudgetInv'
  BY <1>2 DEF Restarts, Booted, BudgetInv, CallersType, Places, Callers, AtRest, Spending
<1>3. ASSUME Asks PROVE BudgetInv'
  <2>1. CallersType'
    BY <1>3, CallersAre DEF Asks, BudgetInv, CallersType, Places
  <2>2. Spending' => count < MaxCycles
    BY <1>3, CallersAre DEF Asks, BudgetInv, CallersType, Spending
  <2>3. UNCHANGED <<count, spent>>
    BY <1>3 DEF Asks
  <2> QED  BY <2>1, <2>2, <2>3 DEF BudgetInv
<1>4. CASE Refill
  BY <1>4 DEF Refill, Ticking, Proven, BudgetInv, CallersType, Spending, callers, work
<1>5. CASE Refused
  BY <1>5, CallersAre DEF Refused, BudgetInv, CallersType, Places, Spending, work, budget
<1>6. CASE Ask
  BY <1>6, CallersAre
     DEF Ask, GoTo, BudgetInv, CallersType, Places, Spending, Callers, work, budget
<1>7. ASSUME NEW c \in Callers, Claim(c) \/ Reclaim(c) PROVE BudgetInv'
  <2>1. PICK p \in Places : at' = [at EXCEPT ![c] = p]
    BY <1>7 DEF Claim, Reclaim, Back, GoTo, BudgetInv, CallersType, Places
  <2>2. at[c] \in {"claim", "reclaim"} /\ UNCHANGED <<count, spent>>
        /\ slot' \in {slot, "RUNNING", "FINISHED"}
    BY <1>7 DEF Claim, Reclaim, BudgetInv, CallersType, budget
  <2>3. CallersType'
    BY <2>1, <2>2 DEF BudgetInv, CallersType
  <2>4. Spending' => Spending
    BY <2>1, <2>2, CallersAre DEF BudgetInv, CallersType, Spending
  <2> QED  BY <2>2, <2>3, <2>4 DEF BudgetInv
<1>8. ASSUME NEW c \in Callers, Create(c) PROVE BudgetInv'
  <2>1. PICK p \in {"rest", "refused", "tick"} : at' = [at EXCEPT ![c] = p]
    BY <1>8 DEF Create, Back, GoTo
  <2>2. at[c] = "create" /\ slot' \in {slot, "IDLE"}
    BY <1>8 DEF Create
  <2>3. CallersType'
    BY <2>1, <2>2 DEF BudgetInv, CallersType, Places
  <2>4. CASE c = "settings"
    <3>1. ~Spending'
      BY <2>1, <2>4, CallersAre DEF BudgetInv, CallersType, Spending
    <3>2. count < MaxCycles
      BY <2>2, <2>4 DEF BudgetInv, Spending
    <3>3. UNCHANGED <<count, spent>> \/ (count' = count + 1 /\ spent' = spent + 1)
      BY <1>8 DEF Create, budget
    <3> QED  BY <2>3, <3>1, <3>2, <3>3 DEF BudgetInv
  <2>5. CASE c # "settings"
    <3>1. UNCHANGED <<count, spent>>
      BY <1>8, <2>5 DEF Create, budget
    <3>2. Spending' => Spending
      BY <2>1, <2>5, CallersAre DEF BudgetInv, CallersType, Spending
    <3> QED  BY <2>3, <3>1, <3>2 DEF BudgetInv
  <2> QED  BY <2>4, <2>5
<1>9. ASSUME Worker PROVE BudgetInv'
  <2>1. \/ Restarts /\ UNCHANGED <<count, spent>>
        \/ at' = at /\ slot' \in {slot, "IDLE", "FINISHED"} /\ UNCHANGED <<count, spent>>
    BY <1>9
       DEF Worker, VbusPark, VbusOff, VbusOn, VbusBack, VbusGone, VbusRestart,
           PortTeardown, PortRefused, PortCycled, PortStillOff, PortWait,
           GiveUp, Report, Suspend, Bystanders, callers, budget, Reboot, Restarts
  <2> QED  BY <2>1, <1>2 DEF BudgetInv, CallersType, Spending
<1>10. CASE PowerOn
  BY <1>10 DEF PowerOn, Booted, BudgetInv, CallersType, Places, Callers, AtRest, Spending
<1> QED
  BY <1>1, <1>2, <1>3, <1>4, <1>5, <1>6, <1>7, <1>8, <1>9, <1>10,
     AloofSteps, RecoverSteps, TickSteps, AbsentSteps
     DEF Next, World, Settings, Try

\* However often the board restarts, no more cycles are started on the
\* watchdog's own account between two proofs of health than the budget has.
THEOREM BudgetHolds == Spec => []BudgetKept
<1>1. BudgetInv => BudgetKept
  BY LimitsAssumption DEF BudgetInv, BudgetKept
<1> QED  BY <1>1, InitBudget, StepBudget, PTL DEF Spec

-----------------------------------------------------------------------------
(* Types *)

Flags ==
    /\ vbus \in BOOLEAN /\ present \in BOOLEAN /\ moved \in BOOLEAN
    /\ asked \in BOOLEAN /\ told \in BOOLEAN
Dongles ==
    /\ dongle \in Kinds \cup {"out"} /\ bus \in {"off", "empty", "new", "seen"}
    /\ errors \in 0 .. Faults
Looking ==
    /\ app \in {"off", "look", "try", "start", "failed", "open"}
    /\ fails \in 0 .. Attempts
    /\ app \in {"try", "start", "failed"} => fails < Attempts
Watching ==
    /\ health \in {"ABSENT", "SETTLING", "OK", "STALLED", "RECOVERING",
                   "POWER_CYCLING", "FAILED"}
    /\ tries \in 0 .. MaxTries
    /\ why \in {"silent", "absent"}
    /\ worker \in {"none", "start", "cut", "on", "wait", "leaving", "torn",
                   "giveup", "report", "suspending", "suspended"}
Types == Flags /\ Dongles /\ Looking /\ Watching

\* What a dongle is given power, or cured, to.
LEMMA CuresType ==
    ASSUME NEW d \in Kinds \cup {"out"}
    PROVE  /\ Comes(d) \subseteq {"empty", "new"}
           /\ d = dongle => Cured \subseteq Kinds \cup {"out"}
BY DEF Comes, Cured, Kinds

LEMMA InitTypes == Init => Types
<1> SUFFICES ASSUME Init PROVE Types
  OBVIOUS
<1>1. Flags
  BY Zenon DEF Init, Flags
<1>2. Dongles
  BY CuresType, LimitsAssumption DEF Init, Dongles
<1>3. Looking /\ Watching
  BY LimitsAssumption DEF Init, Looking, Watching
<1> QED  BY <1>1, <1>2, <1>3 DEF Types

\* A start of the program, whatever becomes of the dongle and the bus.
LEMMA BootedTypes ==
    ASSUME Types, Booted, vbus' = vbus, dongle' \in Kinds \cup {"out"},
           bus' \in Comes(dongle')
    PROVE  Types'
<1>1. Flags'
  BY Zenon DEF Types, Booted, Flags
<1>2. Dongles'
  BY CuresType, LimitsAssumption DEF Booted, Dongles
<1>3. Looking' /\ Watching'
  BY LimitsAssumption DEF Booted, Looking, Watching
<1> QED  BY <1>1, <1>2, <1>3 DEF Types
LEMMA RebootTypes == ASSUME Types, Reboot PROVE Types'
<1>1. dongle' \in Kinds \cup {"out"}
  BY CuresType DEF Types, Dongles, Reboot
<1> QED  BY <1>1, BootedTypes DEF Reboot

\* The endpoint goes with its device.
LEMMA DetachedTypes ==
    ASSUME Types, Detached
    PROVE  /\ present' \in BOOLEAN /\ moved' \in BOOLEAN
           /\ errors' \in 0 .. Faults /\ tries' \in 0 .. MaxTries
           /\ health' \in {health, "ABSENT"}
<1>1. present' \in BOOLEAN /\ moved' \in BOOLEAN
  BY Zenon DEF Detached, Moves, Types, Flags
<1>2. errors' \in 0 .. Faults /\ tries' \in 0 .. MaxTries
      /\ health' \in {health, "ABSENT"}
  BY LimitsAssumption DEF Detached, Types, Dongles, Watching
<1> QED  BY <1>1, <1>2

LEMMA WorldTypes ==
    ASSUME Types, World \/ Attach, ~Balks
    PROVE  Types'
<1>1. CASE Attach
  <2>1. Flags'
    BY <1>1, Zenon DEF Attach, Attached, Moves, Types, Flags, callers
  <2>2. Dongles' /\ Looking' /\ Watching'
    BY <1>1, LimitsAssumption
       DEF Attach, Attached, Types, Dongles, Looking, Watching, looks, callers, work
  <2> QED  BY <2>1, <2>2 DEF Types
<1>2. CASE Plug
  <2>1. bus' \in {"off", "empty", "new"} /\ dongle' \in Kinds
    BY <1>2, CuresType DEF Plug
  <2> QED
    BY <1>2, <2>1 DEF Plug, Types, Flags, Dongles, Looking, Watching, looks, watch,
       callers, work
<1>3. CASE Unplug
  <2>1. Flags'
    BY <1>3, DetachedTypes, Zenon DEF Unplug, Types, Flags, callers
  <2>2. Dongles' /\ Looking' /\ Watching'
    BY <1>3, DetachedTypes
       DEF Unplug, Types, Dongles, Looking, Watching, looks, callers, work
  <2> QED  BY <2>1, <2>2 DEF Types
<1>4. CASE Wedge
  BY <1>4 DEF Wedge, Worse, Kinds, Types, Flags, Dongles, Looking, Watching, looks, watch,
     callers, work
<1>5. CASE PowerOn
  <2>1. dongle' = dongle /\ bus' \in Comes(dongle) /\ vbus' = vbus /\ Booted
    BY <1>5 DEF PowerOn
  <2> QED  BY <2>1, BootedTypes DEF Types, Dongles
<1>6. CASE Enter \/ Leave
  BY <1>6, LimitsAssumption
     DEF Enter, Leave, Types, Flags, Dongles, Looking, Watching, usb, watch, callers, work
<1>7. CASE Ask
  BY <1>7 DEF Ask, GoTo, Types, Flags, Dongles, Looking, Watching, usb, looks, watch, work
<1> QED  BY <1>1, <1>2, <1>3, <1>4, <1>5, <1>6, <1>7 DEF World

LEMMA AppTypes == ASSUME Types, App \/ Balks PROVE Types'
<1> USE LimitsAssumption
    DEF Types, Flags, Dongles, Looking, Watching, usb, watch, callers, work, Holding
<1>1. CASE Look
  <2>1. Flags'
    BY <1>1, Zenon DEF Look
  <2>2. Looking'
    BY <1>1 DEF Look
  <2>3. Dongles' /\ Watching'
    BY <1>1 DEF Look
  <2> QED  BY <2>1, <2>2, <2>3
<1>2. CASE OpenRefused \/ Balks
  BY <1>2 DEF OpenRefused, Balks, Again
<1>3. CASE ConfigureFails \/ StartFails
  BY <1>3 DEF ConfigureFails, StartFails, Opening, OneMore
<1>4. CASE Configures \/ Opens
  BY <1>4 DEF Configures, Opens, Opening
<1>5. CASE Note
  BY <1>5 DEF Note
<1>6. CASE Lose
  BY <1>6 DEF Lose
<1> QED  BY <1>1, <1>2, <1>3, <1>4, <1>5, <1>6 DEF App

LEMMA RecoverTypes == ASSUME Types, Recover PROVE Types'
<1>1. CASE Reboot
  BY <1>1, RebootTypes
<1>2. CASE ~Reboot
  <2>1. Flags'
    BY <1>2, Zenon DEF Recover, Types, Flags, usb, callers
  <2>2. Dongles' /\ Looking' /\ Watching'
    BY <1>2, LimitsAssumption
       DEF Recover, Types, Dongles, Looking, Watching, Kinds, usb, callers, work
  <2> QED  BY <2>1, <2>2 DEF Types
<1> QED  BY <1>1, <1>2

\* The watchdog changes its own state, asks the registry or asks for a cycle.
LEMMA TickTypes == ASSUME Types, Tick PROVE Types'
<1> USE DEF Types, Flags, Dongles, Looking, Watching, Quiet, usb, looks, work
<1>1. ASSUME NEW h \in {"ABSENT", "SETTLING", "OK", "STALLED", "RECOVERING"},
             Goes(h), Quiet
      PROVE  Types'
  BY <1>1 DEF Goes
<1>2. ASSUME Escalates, Quiet PROVE Types'
  BY <1>2 DEF Escalates, AskCycle
<1>3. ASSUME StalledCase, Quiet PROVE Types'
  <2>1. CASE Goes("SETTLING") \/ Goes("OK")
    BY <1>1, <1>3, <2>1
  <2>2. CASE Escalates
    BY <1>2, <1>3, <2>2
  <2>3. ASSUME health' = "RECOVERING" /\ tries' = tries + 1 /\ asked' = TRUE
               /\ tries < MaxTries /\ UNCHANGED <<at, why>>
        PROVE  Types'
    BY <1>3, <2>3, LimitsAssumption
  <2> QED  BY <1>3, <2>1, <2>2, <2>3 DEF StalledCase
<1>4. CASE TickAbsent \/ TickSettled \/ TickStalls \/ TickRecovering
  BY <1>1, <1>4 DEF TickAbsent, TickSettled, TickStalls, TickRecovering
<1>5. CASE TickDead
  BY <1>2, <1>5 DEF TickDead
<1>6. CASE TickStalled
  BY <1>3, <1>6 DEF TickStalled
<1>7. CASE TickFresh \/ TickCycled \/ TickFailed
  BY <1>7, LimitsAssumption DEF TickFresh, TickCycled, TickFailed
<1> QED  BY <1>4, <1>5, <1>6, <1>7 DEF Tick

LEMMA SettingsTypes ==
    ASSUME Types, Absent \/ Found \/ Refill \/ Refused PROVE Types'
BY DEF Absent, AskCycle, Found, Refill, Refused, Types, Flags, Dongles, Looking,
   Watching, usb, looks, watch, callers, work

LEMMA TryTypes ==
    ASSUME Types, CallersType, NEW c \in Callers, Try(c) PROVE Types'
<1> DEFINE Calls == /\ UNCHANGED <<vbus, usb, looks, watch, why, told>>
                    /\ worker' \in {worker, "none", "start"}
<1>1. ASSUME Claim(c) PROVE Calls
  <2>1. CASE slot = "IDLE"
    BY <1>1, <2>1 DEF Claim, GoTo
  <2>2. CASE slot = "FINISHED"
    BY <1>1, <2>2 DEF Claim, GoTo
  <2>3. CASE slot = "RUNNING"
    BY <1>1, <2>3 DEF Claim, Back, GoTo
  <2> QED  BY <2>1, <2>2, <2>3 DEF CallersType
<1>2. Reclaim(c) => Calls
  BY DEF Reclaim, Back, GoTo
<1>3. Create(c) => Calls
  BY DEF Create, Back, GoTo
<1>4. Calls
  BY <1>1, <1>2, <1>3 DEF Try
<1> QED
  BY <1>4 DEF Types, Flags, Dongles, Looking, Watching, usb, looks, watch

LEMMA WorkerTypes == ASSUME Types, Worker PROVE Types'
<1> USE DEF Bystanders, callers, looks, usb
<1>1. CASE Reboot
  BY <1>1, RebootTypes
<1>2. CASE VbusPark
  BY <1>2, LimitsAssumption DEF VbusPark, Types, Flags, Dongles, Looking, Watching
<1>3. ASSUME Detached, UNCHANGED <<dongle, looks>>, UNCHANGED Bystanders,
             bus' \in {bus, "off"}, worker' \in {"on", "torn", "giveup"}
      PROVE  Types'
  <2>1. Flags'
    BY <1>3, DetachedTypes, Zenon DEF Types, Flags
  <2>2. Dongles' /\ Looking' /\ Watching'
    BY <1>3, DetachedTypes DEF Types, Dongles, Looking, Watching
  <2> QED  BY <2>1, <2>2 DEF Types
<1>4. CASE VbusOn
  <2>1. dongle' \in Kinds \cup {"out"} /\ bus' \in {"empty", "new"}
    BY <1>4, CuresType DEF VbusOn, Types, Dongles
  <2> QED  BY <1>4, <2>1 DEF VbusOn, Types, Flags, Dongles, Looking, Watching
<1>5. CASE PortCycled
  <2>1. CASE UNCHANGED <<usb, health, tries>>
    BY <1>5, <2>1 DEF PortCycled, Types, Flags, Dongles, Looking, Watching
  <2>2. CASE Detached /\ dongle' \in Cured /\ bus' \in Comes(dongle')
    <3>1. dongle' \in Kinds \cup {"out"} /\ bus' \in {"empty", "new"}
      BY <2>2, CuresType DEF Types, Dongles
    <3>2. Flags'
      BY <1>5, <2>2, DetachedTypes, Zenon DEF PortCycled, Types, Flags
    <3>3. Dongles' /\ Looking' /\ Watching'
      BY <1>5, <2>2, <3>1, DetachedTypes
         DEF PortCycled, Types, Dongles, Looking, Watching
    <3> QED  BY <3>2, <3>3 DEF Types
  <2> QED  BY <1>5, <2>1, <2>2 DEF PortCycled
<1>6. ASSUME UNCHANGED <<usb, looks, health, tries>>, UNCHANGED Bystanders,
             worker' \in {"none", "leaving", "torn", "report", "giveup",
                          "suspending", "suspended"}
      PROVE  Types'
  BY <1>6 DEF Types, Flags, Dongles, Looking, Watching
<1>7. CASE VbusOff \/ PortStillOff
  BY <1>3, <1>7 DEF VbusOff, PortStillOff
<1>8. CASE PortTeardown
  BY <1>3, <1>6, <1>8 DEF PortTeardown
<1>9. CASE VbusBack \/ VbusGone \/ PortRefused \/ PortWait \/ Report \/ Suspend
  BY <1>6, <1>9 DEF VbusBack, VbusGone, PortRefused, PortWait, Report, Suspend
<1>10. CASE GiveUp /\ ~Reboot
  BY <1>6, <1>10 DEF GiveUp
<1> QED
  BY <1>1, <1>2, <1>4, <1>5, <1>7, <1>8, <1>9, <1>10 DEF Worker, VbusRestart

LEMMA StepTypes == ASSUME Types, BudgetInv, [Next]_vars PROVE Types'
<1>1. CASE UNCHANGED vars
  BY <1>1 DEF vars, usb, looks, watch, callers, work, Types, Flags, Dongles,
     Looking, Watching
<1> QED
  BY <1>1, WorldTypes, AppTypes, RecoverTypes, TickTypes, SettingsTypes,
     TryTypes, WorkerTypes DEF Next, World, Settings, BudgetInv

\* Every variable keeps its type; in particular the app never counts more
\* failures than it holds off at, and does not try while it holds off.
THEOREM TypeCorrect == Spec => []TypeOK
<1>1. Types /\ BudgetInv => TypeOK
  BY DEF Types, Flags, Dongles, Looking, Watching, BudgetInv, CallersType, TypeOK
<1>2. Spec => []BudgetInv
  BY InitBudget, StepBudget, PTL DEF Spec
<1> QED  BY <1>1, <1>2, InitTypes, StepTypes, PTL DEF Spec

-----------------------------------------------------------------------------
(* The two counts of the same failures *)

\* The count of errors is the registration's own.
Registered == ~present => errors = 0

\* Steps that neither party's count has a part in, and a new start.
Same == UNCHANGED <<present, errors, moved, app, fails>>
Afresh == ~present' /\ errors' = 0 /\ app' = "off" /\ fails' = 0

LEMMA InitRegistered == Init => Registered
BY DEF Init, Registered

LEMMA SameCounts ==
    ASSUME Registered, Same
    PROVE  Registered' /\ (OwnFailures => OwnFailures')
BY DEF Registered, Same, OwnFailures, Failed, Holding

LEMMA AfreshCounts == ASSUME Afresh PROVE Registered' /\ OwnFailures'
BY DEF Registered, Afresh, OwnFailures, Failed

\* The endpoint goes: what the app holds off for, it knows to be over.
LEMMA DetachedCounts ==
    ASSUME Types, Registered, Detached, UNCHANGED <<app, fails>>
    PROVE  Registered' /\ (OwnFailures => OwnFailures' \/ Apart)
<1>1. CASE ~present
  BY <1>1, SameCounts DEF Detached, Same
<1>2. CASE present
  <2>1. present' = FALSE /\ errors' = 0 /\ Moves
    BY <1>2 DEF Detached
  <2>2. CASE Holding
    <3>1. moved'
      BY <2>1, <2>2 DEF Moves
    <3>2. Holding'
      BY <2>2 DEF Holding
    <3> QED  BY <2>1, <3>1, <3>2 DEF Registered, OwnFailures
  <2>3. CASE Failed > 0 /\ ~Holding
    BY <1>2, <2>1, <2>3 DEF Registered, Apart, Counting
  <2>4. CASE Failed <= 0
    BY <2>1, <2>4 DEF Registered, OwnFailures, Failed
  <2>5. Failed \in Nat
    BY LimitsAssumption DEF Failed, Types, Looking
  <2> QED  BY <2>2, <2>3, <2>4, <2>5
<1> QED  BY <1>1, <1>2

LEMMA AttachedCounts ==
    ASSUME Types, Registered, Attach
    PROVE  Registered' /\ (OwnFailures => OwnFailures')
<1>1. CASE UNCHANGED present
  BY <1>1, SameCounts DEF Attach, Attached, Same, looks
<1>2. CASE Attached
  <2>1. present' /\ errors' = 0 /\ errors = 0 /\ UNCHANGED <<app, fails>>
    BY <1>2 DEF Attach, Attached, Registered, looks
  <2>2. Holding /\ moved => Holding' /\ moved'
    BY <1>2, <2>1 DEF Attached, Moves, Holding
  <2>3. errors # Faults
    BY <2>1, LimitsAssumption
  <2>4. Failed <= errors => (Failed <= errors)'
    BY <2>1 DEF Failed
  <2> QED  BY <2>1, <2>2, <2>3, <2>4 DEF Registered, OwnFailures
<1> QED  BY <1>1, <1>2 DEF Attach

\* The app's own steps: every failure it notes, the endpoint has counted.
LEMMA AppCounts ==
    ASSUME Types, Registered, Enter \/ Leave \/ Balks \/ App
    PROVE  Registered' /\ (OwnFailures => OwnFailures' \/ Apart)
<1> USE LimitsAssumption
    DEF Types, Dongles, Looking, Registered, OwnFailures, Failed, Holding, usb
<1>1. CASE Enter \/ Leave
  BY <1>1 DEF Enter, Leave
<1>2. CASE Look
  <2>1. present' = present /\ errors' = errors /\ app' = "try" /\ app = "look"
    BY <1>2 DEF Look
  <2>2. CASE fails = Attempts
    BY <1>2, <2>1, <2>2 DEF Look
  <2>3. CASE fails # Attempts
    BY <1>2, <2>1, <2>3 DEF Look
  <2> QED  BY <2>2, <2>3
<1>3. CASE OpenRefused \/ Balks
  BY <1>3 DEF OpenRefused, Balks, Again
<1>4. CASE ConfigureFails \/ StartFails
  <2>1. /\ app \in {"try", "start"} /\ app' = "failed" /\ fails' = fails
        /\ fails < Attempts /\ present /\ present' /\ errors' = OneMore
    BY <1>4 DEF ConfigureFails, StartFails, Opening
  <2>2. CASE errors < Faults
    BY <2>1, <2>2 DEF OneMore
  <2>3. CASE errors = Faults
    BY <2>1, <2>3 DEF OneMore
  <2> QED  BY <2>2, <2>3
<1>5. CASE Configures
  <2>1. /\ app = "try" /\ app' = "start" /\ fails' = fails /\ fails < Attempts
        /\ present /\ present' /\ errors' = 0
    BY <1>5 DEF Configures, Opening
  <2>2. CASE fails = 0
    BY <2>1, <2>2
  <2>3. CASE fails > 0
    BY <2>1, <2>3 DEF Apart, Counting
  <2> QED  BY <2>1, <2>2, <2>3
<1>6. CASE Opens
  BY <1>6 DEF Opens, Opening
<1>7. CASE Note
  BY <1>7 DEF Note
<1>8. CASE Lose
  BY <1>8 DEF Lose
<1> QED  BY <1>1, <1>2, <1>3, <1>4, <1>5, <1>6, <1>7, <1>8 DEF App

LEMMA RecoverCounts ==
    ASSUME Types, Registered, Recover
    PROVE  Registered' /\ (OwnFailures => OwnFailures')
<1>1. CASE Reboot
  BY <1>1, AfreshCounts DEF Reboot, Booted, Afresh
<1>2. CASE ~Reboot
  <2>1. UNCHANGED <<present, errors, moved>>
    BY <1>2 DEF Recover, usb
  <2>2. CASE UNCHANGED <<app, fails>>
    BY <2>1, <2>2, SameCounts DEF Same
  <2>3. CASE app' \in {"look", "off"} /\ fails' = 0
    BY <2>1, <2>3 DEF Registered, OwnFailures, Failed, Types, Dongles
  <2> QED  BY <1>2, <2>2, <2>3 DEF Recover
<1> QED  BY <1>1, <1>2

LEMMA WorkerCounts ==
    ASSUME Types, Registered, Worker
    PROVE  Registered' /\ (OwnFailures => OwnFailures' \/ Apart)
<1> USE DEF Bystanders, looks, usb
<1>1. CASE Reboot
  BY <1>1, AfreshCounts DEF Reboot, Booted, Afresh
<1>2. CASE VbusPark
  BY <1>2 DEF VbusPark, Registered, OwnFailures, Failed, Types, Dongles
<1>3. CASE Detached /\ UNCHANGED <<app, fails>>
  BY <1>3, DetachedCounts
<1>4. CASE Same
  BY <1>4, SameCounts
<1>5. VbusOff \/ PortStillOff => Detached /\ UNCHANGED <<app, fails>>
  BY DEF VbusOff, PortStillOff
<1>6. PortTeardown \/ PortCycled => (Detached /\ UNCHANGED <<app, fails>>) \/ Same
  BY DEF PortTeardown, PortCycled, Same
<1>7. VbusOn \/ VbusBack \/ VbusGone \/ PortRefused \/ PortWait \/ Report
      \/ Suspend \/ (GiveUp /\ ~Reboot) => Same
  BY DEF VbusOn, VbusBack, VbusGone, PortRefused, PortWait, Report, Suspend, GiveUp, Same
<1> QED
  BY <1>1, <1>2, <1>3, <1>4, <1>5, <1>6, <1>7 DEF Worker, VbusRestart

\* The watchdog, its cycles and the noise around them.
LEMMA OtherCounts ==
    ASSUME Tick \/ Absent \/ Found \/ Refill \/ Refused \/ Plug \/ Wedge \/ Ask
           \/ (\E c \in Callers : Try(c)) \/ UNCHANGED vars
    PROVE  Same
<1> USE DEF Same, usb, looks
<1>1. Tick => Same
  BY DEF Tick, TickAbsent, TickDead, TickSettled, TickFresh, TickStalls, TickStalled,
     TickRecovering, TickCycled, TickFailed, Quiet
<1>2. Absent \/ Found \/ Refill \/ Refused => Same
  BY DEF Absent, Found, Refill, Refused
<1>3. Plug \/ Wedge \/ Ask \/ UNCHANGED vars => Same
  BY DEF Plug, Wedge, Ask, vars
<1>4. ASSUME NEW c \in Callers, Try(c) PROVE Same
  BY <1>4 DEF Try, Claim, Reclaim, Create
<1> QED  BY <1>1, <1>2, <1>3, <1>4

LEMMA StepCounts ==
    ASSUME Types, Registered, [Next]_vars
    PROVE  Registered' /\ (OwnFailures => OwnFailures' \/ Apart)
<1>1. CASE Unplug
  BY <1>1, DetachedCounts DEF Unplug, looks
<1>2. CASE PowerOn
  BY <1>2, AfreshCounts DEF PowerOn, Booted, Afresh
<1> QED
  BY <1>1, <1>2, AttachedCounts, AppCounts, RecoverCounts, WorkerCounts, OtherCounts,
     SameCounts DEF Next, World, Settings

\* The watchdog has every failure that the app has counted, so that an app that
\* holds off for them leaves a dongle the watchdog acts on (what the
\* _Static_assert of radio_open_retry.c is for), until the endpoint goes while
\* the app is counting or a configure succeeds between two of its failures; for
\* any Attempts >= Faults.
THEOREM HoldIsSeen == Spec => CountsTogether
<1> DEFINE CInv == Types /\ BudgetInv /\ Registered
<1>1. Init => CInv
  BY InitTypes, InitBudget, InitRegistered
<1>2. CInv /\ [Next]_vars => CInv'
  BY StepTypes, StepBudget, StepCounts
<1>3. CInv /\ [Next]_vars => [OwnFailures => OwnFailures' \/ Apart]_vars
  BY StepCounts
<1>4. CInv => (OwnFailures /\ Holding => moved \/ errors = Faults)
  BY LimitsAssumption DEF Types, Dongles, Looking, OwnFailures, Failed, Holding
<1> QED
  BY <1>1, <1>2, <1>3, <1>4, PTL DEF Spec, CountsTogether
=============================================================================
