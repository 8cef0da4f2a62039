----------------------------- MODULE MCSafeMode -----------------------------
(***************************************************************************)
(* An instance of SafeMode for TLC.                                        *)
(***************************************************************************)
EXTENDS SafeMode
=============================================================================
