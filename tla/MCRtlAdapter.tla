---------------------------- MODULE MCRtlAdapter ----------------------------
(***************************************************************************)
(* An instance of RtlAdapter for TLC: one app task, two dongles, one       *)
(* detach, one other device that goes.                                     *)
(***************************************************************************)
EXTENDS RtlAdapter

CONSTANT app

MCApp == {app}
=============================================================================
