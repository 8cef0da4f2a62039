----------------------------- MODULE MCUsbRecovery -----------------------------
(***************************************************************************)
(* Instances of UsbRecovery for TLC: the limits are in the .cfg files.     *)
(***************************************************************************)
EXTENDS UsbRecovery
=============================================================================
