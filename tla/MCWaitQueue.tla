---------------------------- MODULE MCWaitQueue ----------------------------
(* Two threads that wait and sleep; the scheduler may be locked to one.    *)
EXTENDS WaitQueue

CONSTANTS t1, t2
const_Waiters  == {t1, t2}
const_Sleepers == {t1, t2}
const_Forcible == {t2}
=============================================================================
