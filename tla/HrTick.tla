------------------------------- MODULE HrTick -------------------------------
(***************************************************************************)
(* The high resolution tick of one run queue (scheduler_mod/sched_mod.c    *)
(* 1013-1149): set under the lock of the run queue from any processor, but *)
(* only started on its own, by an interrupt sent from the others.          *)
(*                                                                         *)
(* External: an expired timer leaves the queue before its function runs,   *)
(* and hrtimer_cancel() waits for the function.                            *)
(***************************************************************************)
EXTENDS Integers

CONSTANTS
  CPUs, Here,  \* the processor of the run queue
  Horizon      \* bound on the times

VARIABLES
  now,
  expires,   \* of the timer
  key,       \* what it was put in the queue of timers with, or -1
  running,   \* its function is called and has not got the lock
  pending,   \* hrtick_csd_pending
  csd,       \* the interrupt is on its way
  active,    \* cpu_active(Here)
  asked      \* history: a tick was asked for, and has not come or been cleared

vars == <<now, expires, key, running, pending, csd, active, asked>>

Init ==
  /\ now = 0 /\ expires = 0 /\ key = -1 /\ running = FALSE
  /\ pending = FALSE /\ csd = FALSE /\ active = TRUE /\ asked = FALSE

-----------------------------------------------------------------------------
(* hrtick_start() by processor c: hrtick_enabled() has been asked.         *)
hrtick_start(c, delay) ==
  /\ active /\ now + delay <= Horizon
  /\ expires' = now + delay /\ asked' = TRUE
  /\ IF c = Here THEN key' = now + delay /\ UNCHANGED <<pending, csd>>
     ELSE pending' = TRUE /\ csd' = (csd \/ ~pending) /\ UNCHANGED key
  /\ UNCHANGED <<now, running, active>>

KeepsPending == \* mutant: hrtick_csd_pending is not reset
  /\ csd /\ csd' = FALSE
  /\ key' = expires
  /\ UNCHANGED <<now, expires, running, pending, active, asked>>

(* In the interrupt.                                                       *)
__hrtick_start ==
  /\ csd /\ csd' = FALSE
  /\ key' = expires /\ pending' = FALSE
  /\ UNCHANGED <<now, expires, running, active, asked>>

Expire ==
  /\ key # -1 /\ key <= now /\ ~running
  /\ key' = -1 /\ running' = TRUE
  /\ UNCHANGED <<now, expires, pending, csd, active, asked>>

hrtick ==
  /\ running /\ running' = FALSE
  /\ asked' = (key # -1 \/ csd)
  /\ UNCHANGED <<now, expires, key, pending, csd, active>>

(* By schedule().                                                          *)
hrtick_clear ==
  /\ ~running
  /\ key' = -1 /\ asked' = csd
  /\ UNCHANGED <<now, expires, running, pending, csd, active>>

(* CPU_DOWN_PREPARE and CPU_DEAD: without the lock.                        *)
hotplug_hrtick == ~active /\ hrtick_clear

Hotplug ==
  /\ active' = ~active
  /\ UNCHANGED <<now, expires, key, running, pending, csd, asked>>

Time ==
  /\ now < Horizon /\ now' = now + 1
  /\ UNCHANGED <<expires, key, running, pending, csd, active, asked>>

Next ==
  \/ \E c \in CPUs, delay \in 1..Horizon : hrtick_start(c, delay)
  \/ __hrtick_start \/ Expire \/ hrtick \/ hrtick_clear \/ hotplug_hrtick \/ Hotplug \/ Time

Spec == Init /\ [][Next]_vars

-----------------------------------------------------------------------------
(* 1090: a tick that was asked for is in the queue, runs, or the interrupt *)
(* that starts it is on its way.                                           *)
TickComes == asked => key # -1 \/ running \/ csd

(* With it, an inductive invariant: no time is taken for a timer that is   *)
(* in no queue; and as hrtick_start() sends no interrupt when              *)
(* hrtick_csd_pending is set, the flag does not outlive the interrupt it   *)
(* stands for.  In the code the flag is set after the call, yet under the  *)
(* lock of the run queue, which the interrupt takes before it clears it.   *)
TimesOK       == now \in Nat /\ expires \in Nat /\ key \in Nat \cup {-1}
PendingIsSent == pending => csd
IInv          == TimesOK /\ PendingIsSent /\ TickComes

(* hrtimer_set_expires() is only for a timer that is in no queue: the      *)
(* queue is ordered by it.                                                 *)
QueueInOrder == key # -1 => key = expires
=============================================================================
