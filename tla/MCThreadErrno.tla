--------------------------- MODULE MCThreadErrno ---------------------------
(***************************************************************************)
(* Small instances of ThreadErrno: two threads that store one of two       *)
(* errors or load.                                                         *)
(***************************************************************************)
EXTENDS ThreadErrno, TLC

MCSymmetry == Permutations(Threads)
=============================================================================
