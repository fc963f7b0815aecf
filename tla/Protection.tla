----------------------------- MODULE Protection -----------------------------
(***************************************************************************)
(* What os_ctrl promises about protected execution: one process at a time  *)
(* has the machine, it gets the processor and the silence of the device    *)
(* interrupts together, an armed watchdog stands behind it from the first  *)
(* moment, and the protection ends, always, and as a whole.                *)
(***************************************************************************)
EXTENDS Naturals

CONSTANT Pids

VARIABLES
  owner,    \* the protected process, or 0
  silent,   \* the device interrupts are off
  watched   \* a timer that ends the protection is pending

vars == <<owner, silent, watched>>

Init == owner = 0 /\ silent = FALSE /\ watched = FALSE

(* Protection is taken from the unprotected state only.                    *)
Enter(p) ==
  /\ owner = 0 /\ ~silent /\ ~watched
  /\ owner' = p /\ silent' = TRUE /\ watched' = TRUE

(* A command that names no process lets the interrupts in early.           *)
LetInterruptsIn ==
  /\ silent
  /\ silent' = FALSE
  /\ UNCHANGED <<owner, watched>>

(* A stop command, a read, a timer or the unloading of the module.         *)
End ==
  /\ owner # 0
  /\ owner' = 0 /\ silent' = FALSE /\ watched' = FALSE

Next == (\E p \in Pids : Enter(p)) \/ LetInterruptsIn \/ End

Safety == Init /\ [][Next]_vars

Spec == Safety /\ WF_vars(End)
=============================================================================
