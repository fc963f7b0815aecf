---------------------------- MODULE MCOsCtrlSmp ----------------------------
(* Two processors, so that a timer can be started on one of them and the   *)
(* next command given on the other; two interrupts, so that a loop over    *)
(* them can be left half way.                                              *)
EXTENDS OsCtrlSmp

const_Cpus == {1, 2}
const_Pids == {2, 3}
=============================================================================
