------------------------------ MODULE SafeMode ------------------------------
(***************************************************************************)
(* Early safe mode, core/ls_safe_mode.c and ls_safe_mode_esp.c.  A record  *)
(* in memory that a reset does not clear counts the normal starts that     *)
(* faulted; the first thing a boot does is to decide from it and from the  *)
(* cause of the reset whether the radio may be started.  A timer clears    *)
(* the count once a normal boot has run for LS_SAFE_HEALTHY_MS, and the    *)
(* console asks for safe mode, for its end, or for one more normal boot.   *)
(*                                                                         *)
(* The fault is counted by the boot after it.  Each change of the record   *)
(* is one critical section; a reset in the middle of one, like a loss of   *)
(* power, leaves a record whose checksum is wrong.  A definition marked    *)
(* "Slip" is not part of the model: it is the one below it with a mistake  *)
(* a change of the code could make, and the property named after it is the *)
(* one that catches the mistake.                                           *)
(***************************************************************************)
EXTENDS Integers

CONSTANT Limit  \* LS_SAFE_FAULT_LIMIT
ASSUME LimitAssumption == Limit \in Nat \ {0}

\* ls_safe_classify.
Class  == {"clean", "fault", "power", "unknown"}
Blamed == {"fault", "unknown"}

VARIABLES
    valid,                         \* ls_safe_state_valid
    faults, armed, forced, retry,  \* ls_safe_state_t
    up,     \* app_main has decided and the board runs
    cause,  \* the class of esp_reset_reason
    safe, entry, \* s_boot
    timer,  \* the healthy timer
    asked   \* ghost: a retry was asked for and nothing has settled it yet

record == <<valid, faults, armed, forced, retry>>
boot   == <<up, cause, safe, entry>>
vars   == <<record, boot, timer, asked>>

TypeOK ==
    /\ valid \in BOOLEAN
    /\ faults \in 0..Limit
    /\ armed \in BOOLEAN /\ forced \in BOOLEAN /\ retry \in BOOLEAN
    /\ up \in BOOLEAN /\ cause \in Class
    /\ safe \in BOOLEAN
    /\ entry \in {"none", "repeated_fault", "retry_failed", "forced"}
    /\ timer \in {"none", "set", "done"}
    /\ asked \in BOOLEAN

\* The memory holds anything when the board is powered for the first time.
Init ==
    /\ valid = FALSE /\ faults = 0 /\ armed = FALSE /\ forced = FALSE
    /\ retry = FALSE
    /\ up = FALSE /\ cause = "clean" /\ safe = FALSE /\ entry = "none"
    /\ timer = "none" /\ asked = FALSE

-----------------------------------------------------------------------------
\* Slip (ImplementsBudget): any reset of a start in flight is counted.
CountedAll == valid /\ armed

\* ls_safe_decide: a record that does not check is all zeros.
Counted == valid /\ armed /\ cause \in Blamed

Faults == (IF valid THEN faults ELSE 0) + (IF Counted THEN 1 ELSE 0)

Entry ==
    IF valid /\ forced THEN "forced"
    ELSE IF Faults < Limit THEN "none"
    ELSE IF retry /\ Counted THEN "retry_failed"
    ELSE "repeated_fault"

Arms == Entry = "none"

\* Slip (RetryReported): the flag is taken down by the boot it is for.
RetriesOnce == FALSE

Retries == valid /\ retry /\ Entry = "none"

Decide ==
    /\ ~up
    /\ up' = TRUE
    /\ valid' = TRUE
    /\ faults' = Faults
    /\ entry' = Entry
    /\ safe' = (Entry # "none")
    /\ armed' = Arms
    /\ forced' = (valid /\ forced)
    /\ retry' = Retries
    /\ timer' = "none"
    /\ asked' = (asked /\ valid /\ ~(armed /\ cause \in Blamed))
    /\ UNCHANGED cause

\* ls_safe_healthy_arm at the end of app_main, and the timer's callback.
HealthyArm ==
    /\ up /\ ~safe /\ timer = "none"
    /\ timer' = "set"
    /\ UNCHANGED <<record, boot, asked>>

Healthy ==
    /\ up /\ timer = "set"
    /\ timer' = "done"
    /\ faults' = 0 /\ armed' = FALSE /\ retry' = FALSE /\ asked' = FALSE
    /\ UNCHANGED <<valid, forced, boot>>

\* ls_safe_force from the console of either mode.
ForceOn ==
    /\ up
    /\ forced' = TRUE
    /\ UNCHANGED <<valid, faults, armed, retry, boot, timer, asked>>

ForceOff ==
    /\ up
    /\ forced' = FALSE /\ faults' = 0 /\ retry' = FALSE /\ asked' = FALSE
    /\ UNCHANGED <<valid, armed, boot, timer>>

\* ls_safe_retry_normal_boot.  The restart that follows is a Reset: the rest
\* of the board, the timer included, goes on until it comes.
RetryNormal ==
    /\ up
    /\ forced' = FALSE /\ retry' = TRUE /\ armed' = FALSE /\ asked' = TRUE
    /\ faults' = Limit - 1
    /\ UNCHANGED <<valid, boot, timer>>

\* The board is reset, by what the class says, and may lose the record.
Reset ==
    /\ up
    /\ up' = FALSE
    /\ cause' \in Class
    /\ valid' \in BOOLEAN
    /\ UNCHANGED <<faults, armed, forced, retry, safe, entry, timer, asked>>

Next == Decide \/ HealthyArm \/ Healthy \/ ForceOn \/ ForceOff \/ RetryNormal
        \/ Reset

Spec == Init /\ [][Next]_vars

-----------------------------------------------------------------------------
\* A retried normal boot that faults, whatever clean resets and brownouts it
\* went through before, is followed by safe mode that says so, unless safe
\* mode was asked for meanwhile (ls_safe_request_retry).
RetryReported ==
    [][Decide /\ asked /\ valid /\ armed /\ cause \in Blamed /\ ~forced
         => safe' /\ entry' = "retry_failed"]_vars

\* However faults, clean resets, brownouts, lost records and requests follow
\* each other, the record keeps the budget of StartBudget: the radio is not
\* started after Limit faulting starts in a row, nor after a retried one that
\* faulted, and is never refused for any other cause.
Budget == INSTANCE StartBudget WITH
    mode  <- IF ~up THEN "down" ELSE IF safe THEN "safe" ELSE "normal",
    fault <- cause \in Blamed,
    lives <- IF ~valid THEN Limit
             ELSE IF ~up /\ armed /\ cause \in Blamed THEN Limit - faults - 1
             ELSE Limit - faults,
    sure  <- up /\ ~safe /\ ~armed,
    hold  <- valid /\ forced

ImplementsBudget == Budget!Spec
=============================================================================
