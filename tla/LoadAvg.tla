------------------------------ MODULE LoadAvg ------------------------------
(***************************************************************************)
(* The load average (scheduler_mod/sched_mod.c 2973-3062, 7305-7324,       *)
(* 7435-7439): how each processor adds what has changed to calc_load_tasks,*)
(* while tasks block on one processor, wake on another and processors die. *)
(*                                                                         *)
(* When a processor looks at its tasks, at a tick each LOAD_FREQ or when   *)
(* it goes idle, is left open.                                             *)
(***************************************************************************)
EXTENDS Integers, FiniteSets

CONSTANTS
  CPUs, Removable,
  Tasks,
  Limit,          \* on how far the counts of the run queues drift apart
  FIXED_1, EXP  \* of one average, scaled down from 2048 and 1884

VARIABLES
  online,
  dead,                \* processors whose CPU_DEAD is still to come
  place,               \* how each task is, and on which run queue it was last
  nr_uninterruptible,  \* of each run queue; only the sum makes sense
  calc_load_active,    \* what each run queue has added last
  calc_load_tasks,
  avenrun

vars == <<online, dead, place, nr_uninterruptible, calc_load_active, calc_load_tasks, avenrun>>

Running(c) == {t \in Tasks : place[t] = <<"running", c>>}
nr_active(c) == Cardinality(Running(c)) + nr_uninterruptible[c]

Init ==
  /\ online = CPUs /\ dead = {}
  /\ place \in [Tasks -> {<<"sleeping", c>> : c \in CPUs}]
  /\ nr_uninterruptible = [c \in CPUs |-> 0] /\ calc_load_active = [c \in CPUs |-> 0]
  /\ calc_load_tasks = 0 /\ avenrun = 0

-----------------------------------------------------------------------------
(* deactivate_task(): a task that waits in TASK_UNINTERRUPTIBLE counts.    *)
Sleep(t, how) ==
  /\ place[t][1] = "running" /\ place[t][2] \in online
  /\ place' = [place EXCEPT ![t][1] = how]
  /\ nr_uninterruptible' = IF how = "blocked" THEN [nr_uninterruptible EXCEPT ![place[t][2]] = @ + 1]
                                              ELSE nr_uninterruptible
  /\ UNCHANGED <<online, dead, calc_load_active, calc_load_tasks, avenrun>>

(* try_to_wake_up() takes the task off the count of the run queue it is    *)
(* on, and lets go of the lock before it chooses a run queue for it.       *)
BeginWake(t) ==
  /\ place[t][1] \in {"sleeping", "blocked"}
  /\ place' = [place EXCEPT ![t][1] = "waking"]
  /\ nr_uninterruptible' = IF place[t][1] = "blocked" THEN [nr_uninterruptible EXCEPT ![place[t][2]] = @ - 1]
                                                      ELSE nr_uninterruptible
  /\ UNCHANGED <<online, dead, calc_load_active, calc_load_tasks, avenrun>>

Wake(t, c) ==
  /\ place[t][1] = "waking" /\ c \in online
  /\ place' = [place EXCEPT ![t] = <<"running", c>>]
  /\ UNCHANGED <<online, dead, nr_uninterruptible, calc_load_active, calc_load_tasks, avenrun>>

(* pull_task(), a change of affinity, or migrate_live_tasks(): the task    *)
(* goes, the count of those that wait stays.  Capped at Limit.             *)
Move(t, c) ==
  /\ place[t][1] # "waking" /\ place[t][2] # c /\ c \in online
  /\ place[t][1] = "blocked" => \A d \in CPUs : nr_uninterruptible[d] <= Limit
  /\ place' = [place EXCEPT ![t][2] = c]
  /\ UNCHANGED <<online, dead, nr_uninterruptible, calc_load_active, calc_load_tasks, avenrun>>

calc_load_account_active(c) ==
  /\ c \in online /\ nr_active(c) # calc_load_active[c]
  /\ calc_load_tasks' = calc_load_tasks + nr_active(c) - calc_load_active[c]
  /\ calc_load_active' = [calc_load_active EXCEPT ![c] = nr_active(c)]
  /\ UNCHANGED <<online, dead, place, nr_uninterruptible, avenrun>>

calc_load(load, active) == (load * EXP + active * (FIXED_1 - EXP)) \div FIXED_1

(* The sum may be negative while some processors have looked and others    *)
(* have not.                                                               *)
calc_global_load ==
  /\ avenrun' = calc_load(avenrun, IF calc_load_tasks > 0 THEN calc_load_tasks * FIXED_1 ELSE 0)
  /\ UNCHANGED <<online, dead, place, nr_uninterruptible, calc_load_active, calc_load_tasks>>

-----------------------------------------------------------------------------
Down(c) ==
  /\ c \in online \cap Removable
  /\ online' = online \ {c} /\ dead' = dead \cup {c}
  /\ UNCHANGED <<place, nr_uninterruptible, calc_load_active, calc_load_tasks, avenrun>>

DeadNotRemoved(c) == \* mutant: calc_load_active keeps what was subtracted
  /\ c \in dead /\ \A t \in Tasks : place[t][2] # c
  /\ LET d == CHOOSE d \in online : TRUE IN
       nr_uninterruptible' = [nr_uninterruptible EXCEPT ![d] = @ + nr_uninterruptible[c], ![c] = 0]
  /\ calc_load_tasks' = calc_load_tasks - calc_load_active[c]
  /\ dead' = dead \ {c}
  /\ UNCHANGED <<online, place, avenrun, calc_load_active>>

(* migration_call(CPU_DEAD): migrate_nr_uninterruptible(), then            *)
(* calc_global_load_remove().                                              *)
Dead(c) ==
  /\ c \in dead /\ \A t \in Tasks : place[t][2] # c
  /\ LET d == CHOOSE d \in online : TRUE IN
       nr_uninterruptible' = [nr_uninterruptible EXCEPT ![d] = @ + nr_uninterruptible[c], ![c] = 0]
  /\ calc_load_tasks' = calc_load_tasks - calc_load_active[c]
  /\ calc_load_active' = [calc_load_active EXCEPT ![c] = 0]
  /\ dead' = dead \ {c}
  /\ UNCHANGED <<online, place, avenrun>>

Up(c) ==
  /\ c \in CPUs \ (online \cup dead)
  /\ online' = online \cup {c}
  /\ UNCHANGED <<dead, place, nr_uninterruptible, calc_load_active, calc_load_tasks, avenrun>>

Next ==
  \/ \E t \in Tasks : \/ BeginWake(t)
                      \/ \E how \in {"sleeping", "blocked"} : Sleep(t, how)
                      \/ \E c \in CPUs : Wake(t, c) \/ Move(t, c)
  \/ \E c \in CPUs : calc_load_account_active(c) \/ Down(c) \/ Dead(c) \/ Up(c)
  \/ calc_global_load

Spec == Init /\ [][Next]_vars

-----------------------------------------------------------------------------
(* 2982 and 3003: once every processor has looked, calc_load_tasks is the  *)
(* number of tasks that run or wait uninterruptibly, wherever they blocked,*)
(* woke or were moved, and whichever processors have gone and come back.   *)
LoadIsTrue ==
  (\A c \in CPUs : calc_load_active[c] = nr_active(c)) =>
    calc_load_tasks = Cardinality({t \in Tasks : place[t][1] \in {"running", "blocked"}})

(* With it, an inductive invariant: calc_load_tasks and the number of      *)
(* tasks differ by what the processors have still to add or take away.     *)
Sum(f, S) == Cardinality(UNION {{c} \X (1..f[c]) : c \in S}) - Cardinality(UNION {{c} \X (1..(-f[c])) : c \in S})
Drift == [c \in CPUs |-> calc_load_active[c] - nr_active(c)]
Counted == {t \in Tasks : place[t][1] \in {"running", "blocked"}}
TypeOK ==
  /\ online \subseteq CPUs /\ dead \subseteq CPUs \ online /\ CPUs \ Removable \subseteq online
  /\ place \in [Tasks -> {"sleeping", "blocked", "waking", "running"} \X CPUs]
  /\ nr_uninterruptible \in [CPUs -> Int] /\ calc_load_active \in [CPUs -> Int] /\ calc_load_tasks \in Int
LoadInv == TypeOK /\ calc_load_tasks = Cardinality(Counted) + Sum(Drift, CPUs)
=============================================================================
