---------------------------- MODULE StartBudget ----------------------------
(***************************************************************************)
(* What early safe mode promises (core/ls_safe_mode.h): the board has a    *)
(* budget of starts that may fault.  A start that lives long enough fills  *)
(* the budget, a start that faults before takes one from it, and with none *)
(* left, or on request, the board comes up in safe mode.                   *)
(***************************************************************************)
EXTENDS Naturals

CONSTANT Limit

VARIABLES
    mode,   \* down, up in a normal start, up in safe mode
    fault,  \* the last reset was a fault
    lives,  \* how many more starts may fault
    sure,   \* this start has nothing to pay if it faults
    hold    \* safe mode was asked for

vars == <<mode, fault, lives, sure, hold>>

TypeOK == /\ mode \in {"down", "normal", "safe"}
          /\ fault \in BOOLEAN
          /\ lives \in 0..Limit
          /\ sure \in BOOLEAN /\ hold \in BOOLEAN

Init == mode = "down" /\ fault = FALSE /\ lives = Limit /\ sure = FALSE /\ hold = FALSE

Start ==
    /\ mode = "down"
    /\ mode' = IF hold \/ lives = 0 THEN "safe" ELSE "normal"
    /\ sure' = FALSE
    /\ UNCHANGED <<fault, lives, hold>>

Prove ==
    /\ mode = "normal"
    /\ sure' = TRUE /\ lives' = Limit
    /\ UNCHANGED <<mode, fault, hold>>

\* A reset.  Only a start that faults before it is sure pays for it; the
\* record of all this may be lost.
Down ==
    /\ mode # "down"
    /\ mode' = "down" /\ sure' = FALSE
    /\ fault' \in BOOLEAN
    /\ \/ /\ lives' = IF fault' /\ mode = "normal" /\ ~sure
                      THEN lives - 1 ELSE lives
          /\ UNCHANGED hold
       \/ lives' = Limit /\ hold' = FALSE

\* One more start, whatever went before; this one has nothing to pay.
Retry ==
    /\ mode # "down"
    /\ sure' = (mode = "normal") /\ lives' = 1 /\ hold' = FALSE
    /\ UNCHANGED <<mode, fault>>

Hold    == mode # "down" /\ hold' = TRUE /\ UNCHANGED <<mode, fault, lives, sure>>
Release == mode # "down" /\ hold' = FALSE /\ lives' = Limit
           /\ UNCHANGED <<mode, fault, sure>>

Next == Start \/ Prove \/ Down \/ Retry \/ Hold \/ Release

Spec == Init /\ [][Next]_vars
=============================================================================
