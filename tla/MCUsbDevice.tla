---------------------------- MODULE MCUsbDevice ----------------------------
(***************************************************************************)
(* A small instance of UsbDevice: two processes and a key of each vendor,  *)
(* so that they contend for one key or have one each.                      *)
(***************************************************************************)
EXTENDS UsbDevice, TLC

MCSymmetry == Permutations(Procs)
=============================================================================
