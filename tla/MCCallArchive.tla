---------------------------- MODULE MCCallArchive ----------------------------
(***************************************************************************)
(* An instance of CallArchive for TLC.                                     *)
(***************************************************************************)
EXTENDS CallArchive
=============================================================================
