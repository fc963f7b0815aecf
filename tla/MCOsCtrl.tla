------------------------------ MODULE MCOsCtrl ------------------------------
(* Two processes; each may be switched out once.                           *)
EXTENDS OsCtrl

const_Pids   == {2, 3}
const_Bursts == {1}
=============================================================================
