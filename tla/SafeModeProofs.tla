--------------------------- MODULE SafeModeProofs ---------------------------
(***************************************************************************)
(* Proofs about SafeMode, for any limit: its types, what it reports of a   *)
(* retry, and that it implements StartBudget.                              *)
(***************************************************************************)
EXTENDS SafeMode, TLAPS

\* What the record says while the board is up or down: a start in flight is
\* one the budget allows, a retried one has used all but one, safe mode is
\* never in flight and never timed.
Record ==
    /\ up => valid
    /\ armed => faults < Limit
    /\ retry => faults = Limit - 1
    /\ up /\ safe => ~armed /\ timer = "none"
    /\ asked /\ valid => retry \/ forced

IInv == TypeOK /\ Record

LEMMA EntryType ==
    /\ Entry \in {"none", "repeated_fault", "retry_failed", "forced"}
    /\ (Entry = "none") <=> (~(valid /\ forced) /\ Faults < Limit)
BY DEF Entry

LEMMA FaultsType ==
    ASSUME IInv
    PROVE  /\ Faults \in 0..Limit
           /\ ~valid => Faults = 0
           /\ valid /\ ~Counted => Faults = faults
           /\ valid /\ Counted => Faults = faults + 1
<1>1. CASE ~valid
  BY <1>1, LimitAssumption, SMT DEF Faults, Counted
<1>2. CASE valid /\ ~Counted
  BY <1>2, LimitAssumption, SMT DEF Faults, IInv, TypeOK
<1>3. CASE valid /\ Counted
  BY <1>3, LimitAssumption, SMT DEF Faults, IInv, TypeOK, Record, Counted
<1> QED  BY <1>1, <1>2, <1>3, Zenon DEF Counted

LEMMA InitInv == Init => IInv
<1> SUFFICES ASSUME Init PROVE IInv
  OBVIOUS
<1>1. faults \in 0..Limit
  BY LimitAssumption, SMT DEF Init
<1>2. TypeOK
  BY <1>1, Zenon DEF Init, TypeOK, Class
<1> QED  BY <1>2, Zenon DEF Init, IInv, Record

LEMMA StepInv == IInv /\ [Next]_vars => IInv'
<1> SUFFICES ASSUME IInv, [Next]_vars PROVE IInv'
  OBVIOUS
<1> USE LimitAssumption
<1>1. CASE Decide
  <2>1. Faults \in 0..Limit
    BY FaultsType
  <2>2. Entry \in {"none", "repeated_fault", "retry_failed", "forced"}
    BY EntryType
  <2>3. safe' \in BOOLEAN /\ armed' \in BOOLEAN /\ forced' \in BOOLEAN
        /\ retry' \in BOOLEAN /\ up' \in BOOLEAN /\ valid' \in BOOLEAN
        /\ asked' \in BOOLEAN
    BY <1>1, Zenon DEF Decide, Arms, Retries
  <2>4. faults' \in 0..Limit
    BY <1>1, <2>1, Zenon DEF Decide, Arms, Retries
  <2>5. TypeOK'
    BY <1>1, <2>2, <2>3, <2>4, Zenon DEF Decide, Arms, Retries, IInv, TypeOK
  <2>6. armed' => faults' < Limit
    BY <1>1, EntryType, Zenon DEF Decide, Arms, Retries
  <2>7. retry' => faults' = Limit - 1
    <3>1. SUFFICES ASSUME retry' PROVE faults' = Limit - 1
      OBVIOUS
    <3>2. valid /\ retry /\ Faults < Limit
      BY <1>1, <3>1, EntryType, Zenon DEF Decide, Arms, Retries
    <3>3. faults = Limit - 1
      BY <3>2, Zenon DEF IInv, Record
    <3>4. Faults = faults
      BY <3>2, <3>3, FaultsType, SMT
    <3> QED  BY <1>1, <3>3, <3>4, Zenon DEF Decide, Arms, Retries
  <2>8. (up' => valid') /\ (up' /\ safe' => ~armed' /\ timer' = "none")
    BY <1>1, Zenon DEF Decide, Arms, Retries
  <2>9. asked' /\ valid' => retry' \/ forced'
    <3>1. SUFFICES ASSUME asked', ~forced' PROVE retry'
      OBVIOUS
    <3>2. asked /\ valid /\ ~Counted
      BY <1>1, <3>1, Zenon DEF Decide, Counted
    <3>3. ~forced
      BY <1>1, <3>1, <3>2, Zenon DEF Decide
    <3>4. retry /\ faults = Limit - 1
      BY <3>2, <3>3, Zenon DEF IInv, Record
    <3>5. Faults = faults
      BY <3>2, FaultsType, Zenon
    <3>6. Faults < Limit
      BY <3>4, <3>5, SMT
    <3>7. Entry = "none"
      BY <3>3, <3>6, EntryType, Zenon
    <3> QED  BY <1>1, <3>2, <3>4, <3>7, Zenon DEF Decide, Arms, Retries
  <2> QED  BY <2>5, <2>6, <2>7, <2>8, <2>9 DEF IInv, Record
<1>2. CASE HealthyArm
  BY <1>2, SMT DEF HealthyArm, record, boot, IInv, TypeOK, Record
<1>3. CASE Healthy
  <2>1. faults' \in 0..Limit
    BY <1>3, SMT DEF Healthy, IInv, TypeOK
  <2>2. TypeOK'
    BY <1>3, <2>1, Zenon DEF Healthy, boot, IInv, TypeOK
  <2>3. Record'
    BY <1>3, Zenon DEF Healthy, boot, IInv, Record
  <2> QED  BY <2>2, <2>3 DEF IInv
<1>4. CASE ForceOn
  BY <1>4, SMT DEF ForceOn, boot, IInv, TypeOK, Record
<1>5. CASE ForceOff
  <2>1. faults' \in 0..Limit
    BY <1>5, SMT DEF ForceOff, IInv, TypeOK
  <2>2. TypeOK'
    BY <1>5, <2>1, Zenon DEF ForceOff, boot, IInv, TypeOK
  <2>3. Record'
    BY <1>5, LimitAssumption, SMT DEF ForceOff, boot, IInv, TypeOK, Record
  <2> QED  BY <2>2, <2>3 DEF IInv
<1>6. CASE RetryNormal
  <2>1. faults' \in 0..Limit
    BY <1>6, SMT DEF RetryNormal, IInv, TypeOK
  <2>2. TypeOK'
    BY <1>6, <2>1, Zenon DEF RetryNormal, boot, IInv, TypeOK
  <2>3. Record'
    BY <1>6, Zenon DEF RetryNormal, boot, IInv, Record
  <2> QED  BY <2>2, <2>3 DEF IInv
<1>7. CASE Reset
  <2>1. TypeOK'
    BY <1>7, Zenon DEF Reset, IInv, TypeOK
  <2>2. Record'
    BY <1>7, Zenon DEF Reset, IInv, Record
  <2> QED  BY <2>1, <2>2 DEF IInv
<1>8. CASE UNCHANGED vars
  BY <1>8, SMT DEF vars, record, boot, IInv, TypeOK, Record
<1> QED  BY <1>1, <1>2, <1>3, <1>4, <1>5, <1>6, <1>7, <1>8 DEF Next

\* In every reachable state the record is what a history of starts can leave
\* (ls_safe_decide and the requests), for any limit.
THEOREM Invariant == Spec => []IInv
BY InitInv, StepInv, PTL DEF Spec

\* The count of faults never passes the limit.
THEOREM TypeCorrect == Spec => []TypeOK
<1>1. IInv => TypeOK
  BY DEF IInv
<1> QED  BY <1>1, Invariant, PTL

\* A retried normal boot that faults leads to safe mode that says so.
THEOREM RetrySaysSo == Spec => RetryReported
<1> DEFINE Says == Decide /\ asked /\ valid /\ armed /\ cause \in Blamed
                     /\ ~forced => safe' /\ entry' = "retry_failed"
<1>1. ASSUME IInv, [Next]_vars PROVE [Says]_vars
  <2>1. SUFFICES ASSUME Decide, asked, valid, armed, cause \in Blamed, ~forced
                 PROVE  safe' /\ entry' = "retry_failed"
    OBVIOUS
  <2>2. Counted /\ retry
    BY <1>1, <2>1, Zenon DEF Counted, IInv, Record
  <2>3. Faults = Limit
    BY <1>1, <2>1, <2>2, FaultsType, LimitAssumption, SMT
       DEF IInv, TypeOK, Record
  <2>4. ~(Faults < Limit)
    BY <2>3, LimitAssumption, SMT
  <2>5. Entry = "retry_failed"
    BY <2>1, <2>2, <2>4, Zenon DEF Entry
  <2> QED  BY <2>1, <2>5 DEF Decide, Arms, Retries
<1> QED  BY <1>1, Invariant, PTL DEF Spec, RetryReported

-----------------------------------------------------------------------------
(* The budget.                                                             *)
Lives == IF ~valid THEN Limit
         ELSE IF ~up /\ armed /\ cause \in Blamed THEN Limit - faults - 1
         ELSE Limit - faults
Fault == cause \in Blamed
Mode  == IF ~up THEN "down" ELSE IF safe THEN "safe" ELSE "normal"
Sure  == up /\ ~safe /\ ~armed
Held  == valid /\ forced

LEMMA LivesValue ==
    ASSUME IInv
    PROVE  /\ ~up => Lives = Limit - Faults
           /\ up => Lives = Limit - faults
<1>1. CASE up
  BY <1>1, LimitAssumption, SMT DEF IInv, TypeOK, Record, Lives
<1>2. CASE ~up
  <2>1. CASE ~valid
    BY <1>2, <2>1, LimitAssumption, FaultsType, SMT DEF Lives
  <2>2. CASE valid /\ Counted
    BY <1>2, <2>2, LimitAssumption, FaultsType, SMT
       DEF IInv, TypeOK, Lives, Counted
  <2>3. CASE valid /\ ~Counted
    <3>1. ~(armed /\ cause \in Blamed)
      BY <2>3, Zenon DEF Counted
    <3> QED
      BY <1>2, <2>3, <3>1, LimitAssumption, FaultsType, SMT
         DEF IInv, TypeOK, Lives
  <2> QED  BY <2>1, <2>2, <2>3
<1> QED  BY <1>1, <1>2

LEMMA BudgetInit == Init => Budget!Init
BY DEF Init, Budget!Init, Blamed

LEMMA BudgetStep ==
    ASSUME IInv, IInv', [Next]_vars
    PROVE  [Budget!Next]_(Budget!vars)
<1> USE LimitAssumption
<1>1. CASE Decide
  <2>1. Lives = Limit - Faults /\ Lives' = Limit - faults'
    BY <1>1, LivesValue, FaultsType DEF Decide, Arms, Retries, Lives
  <2>2. Lives' = Lives
    BY <1>1, <2>1 DEF Decide, Arms, Retries
  <2>3. Lives = 0 <=> ~(Faults < Limit)
    BY <2>1, FaultsType, SMT
  <2>4. safe' <=> Held \/ Lives = 0
    BY <1>1, <2>3, EntryType, Zenon DEF Decide, Arms, Retries, Held
  <2>5. Mode = "down" /\ Mode' = IF Held \/ Lives = 0 THEN "safe" ELSE "normal"
    BY <1>1, <2>4, Zenon DEF Decide, Arms, Retries, Mode
  <2>6. Sure' = FALSE /\ Held' = Held /\ Fault' = Fault
    BY <1>1, Zenon DEF Decide, Arms, Retries, Sure, Held, Fault
  <2> QED  BY <2>2, <2>5, <2>6 DEF Budget!Next, Budget!Start, Lives, Mode, Sure, Held, Fault
<1>2. CASE HealthyArm
  BY <1>2 DEF HealthyArm, record, boot, Budget!vars
<1>3. CASE Healthy
  <2>1. up /\ ~safe /\ valid
    BY <1>3, SMT DEF Healthy, IInv, TypeOK, Record
  <2>2. Lives' = Limit
    BY <1>3, <2>1, SMT DEF Healthy, boot, Lives
  <2>3. Mode = "normal" /\ Mode' = Mode /\ Sure' = TRUE /\ Held' = Held /\ Fault' = Fault
    BY <1>3, <2>1, Zenon DEF Healthy, boot, Mode, Sure, Held, Fault
  <2> QED  BY <2>2, <2>3 DEF Budget!Next, Budget!Prove, Lives, Mode, Sure, Held, Fault
<1>4. CASE ForceOn
  <2>1. up /\ valid
    BY <1>4 DEF ForceOn, IInv, Record
  <2>2. Lives' = Lives /\ Mode' = Mode /\ Sure' = Sure /\ Held' = TRUE
        /\ Fault' = Fault
    BY <1>4, <2>1, Zenon DEF ForceOn, boot, Lives, Mode, Sure, Held, Fault
  <2>3. Mode # "down"
    BY <2>1 DEF Mode
  <2> QED  BY <2>2, <2>3 DEF Budget!Next, Budget!Hold, Lives, Mode, Sure, Held, Fault
<1>5. CASE ForceOff
  <2>1. up /\ valid
    BY <1>5 DEF ForceOff, IInv, Record
  <2>2. Mode' = Mode /\ Sure' = Sure /\ Held' = FALSE /\ Fault' = Fault
    BY <1>5, <2>1, Zenon DEF ForceOff, boot, Mode, Sure, Held, Fault
  <2>3. Lives' = Limit
    BY <1>5, <2>1, SMT DEF ForceOff, boot, Lives
  <2>4. Mode # "down"
    BY <2>1 DEF Mode
  <2> QED  BY <2>2, <2>3, <2>4 DEF Budget!Next, Budget!Release, Lives, Mode, Sure, Held, Fault
<1>6. CASE RetryNormal
  <2>1. up /\ valid
    BY <1>6 DEF RetryNormal, IInv, Record
  <2>2. Mode # "down" /\ Mode' = Mode /\ Held' = FALSE /\ Fault' = Fault
    BY <1>6, <2>1, Zenon DEF RetryNormal, boot, Mode, Held, Fault
  <2>3. Sure' = (Mode = "normal")
    <3>1. CASE safe
      BY <1>6, <2>1, <3>1, Zenon DEF RetryNormal, boot, Mode, Sure
    <3>2. CASE ~safe
      <4>1. Sure' = TRUE /\ Mode = "normal"
        BY <1>6, <2>1, <3>2, Zenon DEF RetryNormal, boot, Mode, Sure
      <4> QED  BY <4>1
    <3> QED  BY <3>1, <3>2
  <2>4. Lives' = 1
    BY <1>6, <2>1, SMT DEF RetryNormal, boot, Lives
  <2> QED  BY <2>2, <2>3, <2>4 DEF Budget!Next, Budget!Retry, Lives, Mode, Sure, Held, Fault
<1>7. CASE Reset
  <2>1. up /\ valid /\ Mode # "down" /\ Mode' = "down" /\ Sure' = FALSE
    BY <1>7, Zenon DEF Reset, Mode, Sure, IInv, Record
  <2>2. Lives = Limit - faults /\ Fault' \in BOOLEAN
    BY <2>1, LivesValue DEF Fault
  <2>3. CASE ~valid'
    <3>1. Lives' = Limit /\ Held' = FALSE
      BY <2>3 DEF Lives, Held
    <3> QED
      BY <2>1, <2>2, <3>1
         DEF Budget!Next, Budget!Down, Lives, Mode, Sure, Held, Fault
  <2>4. CASE valid'
    <3>1. Held' = Held
      BY <1>7, <2>1, <2>4, Zenon DEF Reset, Held
    <3>2. armed <=> Mode = "normal" /\ ~Sure
      BY <2>1, Zenon DEF Mode, Sure, IInv, Record
    <3>3. Lives' = IF Fault' /\ Mode = "normal" /\ ~Sure
                   THEN Lives - 1 ELSE Lives
      <4>1. CASE armed /\ Fault'
        <5>1. Lives' = Limit - faults - 1
          BY <1>7, <2>4, <4>1, Zenon DEF Reset, Lives, Fault
        <5> QED  BY <2>2, <3>2, <4>1, <5>1
      <4>2. CASE ~(armed /\ Fault')
        <5>1. Lives' = Limit - faults
          BY <1>7, <2>4, <4>2, Zenon DEF Reset, Lives, Fault
        <5> QED  BY <2>2, <3>2, <4>2, <5>1
      <4> QED  BY <4>1, <4>2
    <3> QED
      BY <2>1, <2>2, <3>1, <3>3
         DEF Budget!Next, Budget!Down, Lives, Mode, Sure, Held, Fault
  <2> QED  BY <2>3, <2>4 DEF IInv, TypeOK
<1>8. CASE UNCHANGED vars
  BY <1>8 DEF vars, record, boot, Budget!vars
<1> QED  BY <1>1, <1>2, <1>3, <1>4, <1>5, <1>6, <1>7, <1>8 DEF Next

\* The two-step accounting, where the boot after a fault counts it, keeps the
\* budget of faulting starts that the header promises, for any limit.
THEOREM KeepsBudget == Spec => ImplementsBudget
<1>1. IInv /\ IInv' /\ [Next]_vars => [Budget!Next]_(Budget!vars)
  BY BudgetStep
<1> QED
  BY <1>1, BudgetInit, Invariant, PTL DEF Spec, Budget!Spec, ImplementsBudget
=============================================================================
