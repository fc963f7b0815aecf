------------------------------ MODULE CpuLoad ------------------------------
(***************************************************************************)
(* The decaying averages of the load of a run queue                        *)
(* (scheduler_mod/sched_mod.c 3029-3056).                                  *)
(***************************************************************************)
EXTENDS Integers

CONSTANTS
  Loads,            \* of the run queue
  CPU_LOAD_IDX_MAX

VARIABLES
  load,      \* rq->load.weight
  cpu_load

vars == <<load, cpu_load>>

Init ==
  /\ load \in Loads
  /\ cpu_load = [i \in 1..CPU_LOAD_IDX_MAX |-> 0]

NoRoundUp(old, new, i) == \* mutant: the division always rounds down
  (old * (2^(i - 1) - 1) + new) \div 2^(i - 1)

Average(old, new, i) ==
  LET scale == 2^(i - 1) IN (old * (scale - 1) + new + (IF new > old THEN scale - 1 ELSE 0)) \div scale

update_cpu_load ==
  /\ cpu_load' = [i \in 1..CPU_LOAD_IDX_MAX |-> Average(cpu_load[i], load, i)]
  /\ UNCHANGED load

LoadChanges(l) ==
  /\ l # load /\ load' = l
  /\ UNCHANGED cpu_load

Next == update_cpu_load \/ \E l \in Loads : LoadChanges(l)

Spec == Init /\ [][Next]_vars

(* 3046: while the load stays as it is each average comes closer to it     *)
(* with every step, from above and from below, and does not get stuck.     *)
NeverStuck ==
  \A i \in 1..CPU_LOAD_IDX_MAX :
    LET next == Average(cpu_load[i], load, i) IN
      \/ next = load
      \/ cpu_load[i] < next /\ next < load
      \/ load < next /\ next < cpu_load[i]

LoadOK == load \in Nat /\ cpu_load \in [1..CPU_LOAD_IDX_MAX -> Nat]
=============================================================================
