------------------------------ MODULE RtPower ------------------------------
(***************************************************************************)
(* How much of the time of a processor real-time tasks leave to the others *)
(* (scheduler_mod/sched_mod.c 1250-1269, 3620-3676, 3719).  The time is    *)
(* accounted under the lock of the run queue.  Whoever balances asks       *)
(* without it, the processor itself in its softirq and the idle load       *)
(* balancer on its behalf, and ages the sum as well.                       *)
(***************************************************************************)
EXTENDS Integers

CONSTANTS
  PERIOD,  \* sched_avg_period()
  TICK,    \* real-time is accounted at least so often
  LONG,    \* how long the clock of an idle run queue may stand still
  Ages, Sums  \* what updates that overlap may leave in age_stamp and in rt_avg

VARIABLES
  age,      \* rq->clock - rq->age_stamp
  rt_avg,
  pending,  \* real-time that is not accounted yet
  updating, \* who is in sched_avg_update()
  mixed,    \* one of them was there when another came, or when the clock moved
  excess    \* history: what such an overlap left of rt_avg above the total, halved ever since

vars == <<age, rt_avg, pending, updating, mixed, excess>>

Locked == "rq->lock"
Askers == {"softirq", "nohz"}

Init ==
  /\ age = 0 /\ rt_avg = 0 /\ pending = 0
  /\ updating = {} /\ mixed = FALSE /\ excess = 0

Periods(a) == IF a > PERIOD THEN (a - 1) \div PERIOD ELSE 0

AgesTheStamp(sum) == \* mutant: the sum is not halved
  /\ age' = age - PERIOD * Periods(age)
  /\ rt_avg' = sum
  /\ excess' = excess \div 2^Periods(age)

(* The sum is halved for every period that has passed.                     *)
sched_avg_update(sum) ==
  /\ age' = age - PERIOD * Periods(age)
  /\ rt_avg' = sum \div 2^Periods(age)
  /\ excess' = excess \div 2^Periods(age)

(* Two of them at once, or one that reads a clock that moves: a halving is *)
(* lost or done twice, the stamp passes the clock, a number of 64 bits has *)
(* the halves of two.  What is left depends on how the loop was compiled.  *)
Total == PERIOD + age + TICK
Overlapped ==
  /\ age' \in Ages /\ rt_avg' \in Sums
  /\ LET above == rt_avg' + pending' + 1 - Total' IN excess' = IF above > 0 THEN above ELSE 0

-----------------------------------------------------------------------------
Enter(who) ==
  /\ who \notin updating
  /\ updating' = updating \cup {who}
  /\ mixed' = (mixed \/ updating # {})
  /\ UNCHANGED <<age, rt_avg, pending, excess>>

Leave(who, sum) ==
  /\ who \in updating
  /\ updating' = updating \ {who}
  /\ mixed' = (mixed /\ updating' # {})
  /\ (mixed /\ Overlapped) \/ (~mixed /\ sched_avg_update(sum))

sched_rt_avg_update ==
  \/ pending > 0 /\ Enter(Locked)
  \/ pending' = 0 /\ Leave(Locked, rt_avg + pending)

(* By whoever balances, with what is accounted.                            *)
scale_rt_power(who) == Enter(who) \/ (UNCHANGED pending /\ Leave(who, rt_avg))

(* update_rq_clock(), under the lock: real-time or none has passed.        *)
Busy ==
  /\ Locked \notin updating
  /\ age <= PERIOD + LONG /\ pending < TICK
  /\ age' = age + 1 /\ pending' = pending + 1
  /\ mixed' = (updating # {})
  /\ UNCHANGED <<rt_avg, updating, excess>>

Free(ns) ==
  /\ Locked \notin updating
  /\ age + ns <= PERIOD + LONG /\ pending = 0
  /\ age' = age + ns
  /\ mixed' = (updating # {})
  /\ UNCHANGED <<rt_avg, pending, updating, excess>>

Next ==
  \/ sched_rt_avg_update \/ Busy
  \/ \E who \in Askers : scale_rt_power(who)
  \/ \E ns \in {1, LONG} : Free(ns)

Spec == Init /\ [][Next]_vars

-----------------------------------------------------------------------------
(* 3627: real-time has not had more than all of the time, but for less     *)
(* than an account may be late: without that the rest would be negative.   *)
(* What an overlap has left above it is halved with every period since.    *)
RtWithinTotal == ~mixed => rt_avg < Total + excess

(* With it, an inductive invariant: what is not accounted yet is within    *)
(* the same bound.                                                         *)
PowerInv ==
  /\ age \in Int /\ age <= PERIOD + LONG + 1
  /\ rt_avg \in Nat /\ pending \in 0..TICK /\ excess \in Nat
  /\ mixed \in BOOLEAN /\ (mixed => updating # {})
  /\ ~mixed => rt_avg + pending < Total + excess

(* available is unsigned: it must not be less than nothing.                *)
AvailableIsLeft == rt_avg <= PERIOD + age

(* The same at all times, as scale_rt_power() relies on.                   *)
NeverAbove == rt_avg < Total
=============================================================================
