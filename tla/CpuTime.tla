------------------------------ MODULE CpuTime ------------------------------
(***************************************************************************)
(* Where the ticks go (scheduler_mod/sched_mod.c 5002-5160, 6793-6824 and  *)
(* 10813-10832): to the task, to its kind of time on the processor, and to *)
(* the accounting group of the task and the groups above.                  *)
(***************************************************************************)
EXTENDS Integers, FiniteSets

CONSTANTS
  CPUs, Tasks,
  Nice,        \* tasks with a positive nice value
  Groups, Parent,  \* cpuacct groups and the one above each, or None
  MaxTicks,    \* bound on the ticks of a behaviour
  None

VARIABLES
  curr,      \* the task each processor runs, or None for its idle task
  group,     \* task_ca() of each task
  cpustat,   \* kstat_this_cpu.cpustat
  utime, stime, gtime,
  ca_stat,   \* cpuacct: user and system time of each group
  in_iowait, \* the run queue each task counts in while it waits for I/O, or None
  nr_iowait,
  ticks      \* history: ticks of each processor

vars == <<curr, group, cpustat, utime, stime, gtime, ca_stat, in_iowait, nr_iowait, ticks>>

Kinds == {"user", "nice", "system", "irq", "softirq", "steal", "idle", "iowait", "guest"}
Sum(f, S) == Cardinality(UNION {{k} \X (1..f[k]) : k \in S})

Init ==
  /\ curr = [c \in CPUs |-> None] /\ group \in [Tasks -> Groups]
  /\ cpustat = [c \in CPUs |-> [k \in Kinds |-> 0]]
  /\ utime = [t \in Tasks \cup {None} |-> 0] /\ stime = utime /\ gtime = utime
  /\ ca_stat = [g \in Groups |-> [user |-> 0, system |-> 0]]
  /\ in_iowait = [t \in Tasks |-> None] /\ nr_iowait = [c \in CPUs |-> 0]
  /\ ticks = [c \in CPUs |-> 0]

-----------------------------------------------------------------------------
Count(c, kinds) ==
  /\ Sum(ticks, CPUs) < MaxTicks
  /\ cpustat' = [cpustat EXCEPT ![c] = [k \in Kinds |-> @[k] + (IF k \in kinds THEN 1 ELSE 0)]]
  /\ ticks' = [ticks EXCEPT ![c] = @ + 1]
  /\ UNCHANGED <<curr, group, in_iowait, nr_iowait>>

(* The group of the task and every group above it.                         *)
Above(g) == {h \in Groups : \A S \in SUBSET Groups :
               g \in S /\ (\A k \in S : Parent[k] # None => Parent[k] \in S) => h \in S}
cpuacct_update_stats(t, idx) ==
  ca_stat' = IF t = None THEN [g \in Groups |-> IF Parent[g] = None THEN [ca_stat[g] EXCEPT ![idx] = @ + 1]
                                                                   ELSE ca_stat[g]]
             ELSE [g \in Groups |-> IF g \in Above(group[t]) THEN [ca_stat[g] EXCEPT ![idx] = @ + 1]
                                                            ELSE ca_stat[g]]

account_user_time(c) ==
  /\ curr[c] # None
  /\ utime' = [utime EXCEPT ![curr[c]] = @ + 1]
  /\ Count(c, {IF curr[c] \in Nice THEN "nice" ELSE "user"})
  /\ cpuacct_update_stats(curr[c], "user")
  /\ UNCHANGED <<stime, gtime>>

GuestCountedTwice(c) == \* mutant: guest time of a nice task is user and nice time
  /\ curr[c] # None
  /\ utime' = [utime EXCEPT ![curr[c]] = @ + 1] /\ gtime' = [gtime EXCEPT ![curr[c]] = @ + 1]
  /\ Count(c, {"user", "guest"} \cup (IF curr[c] \in Nice THEN {"nice"} ELSE {}))
  /\ UNCHANGED <<stime, ca_stat>>

(* The guest of a PF_VCPU task; accounting groups are not told.            *)
account_guest_time(c) ==
  /\ curr[c] # None
  /\ utime' = [utime EXCEPT ![curr[c]] = @ + 1] /\ gtime' = [gtime EXCEPT ![curr[c]] = @ + 1]
  /\ Count(c, {"user", "guest"})
  /\ UNCHANGED <<stime, ca_stat>>

(* In an interrupt the idle task is charged too.                           *)
account_system_time(c, context) ==
  /\ curr[c] # None \/ context # "system"
  /\ stime' = [stime EXCEPT ![curr[c]] = @ + 1]
  /\ Count(c, {context})
  /\ cpuacct_update_stats(curr[c], "system")
  /\ UNCHANGED <<utime, gtime>>

account_idle_time(c) ==
  /\ curr[c] = None
  /\ Count(c, {IF nr_iowait[c] > 0 THEN "iowait" ELSE "idle"})
  /\ UNCHANGED <<utime, stime, gtime, ca_stat>>

account_steal_time(c) ==
  /\ Count(c, {"steal"})
  /\ UNCHANGED <<utime, stime, gtime, ca_stat>>

-----------------------------------------------------------------------------
Runs(t, c) ==
  /\ curr[c] = None /\ in_iowait[t] = None /\ \A d \in CPUs : curr[d] # t
  /\ curr' = [curr EXCEPT ![c] = t]
  /\ UNCHANGED <<group, cpustat, utime, stime, gtime, ca_stat, in_iowait, nr_iowait, ticks>>

Preempted(c) ==
  /\ curr[c] # None
  /\ curr' = [curr EXCEPT ![c] = None]
  /\ UNCHANGED <<group, cpustat, utime, stime, gtime, ca_stat, in_iowait, nr_iowait, ticks>>

(* io_schedule(), io_schedule_timeout(): the run queue is the one the task *)
(* was on, wherever it goes on.                                            *)
io_schedule(c) ==
  /\ curr[c] # None
  /\ in_iowait' = [in_iowait EXCEPT ![curr[c]] = c]
  /\ nr_iowait' = [nr_iowait EXCEPT ![c] = @ + 1]
  /\ curr' = [curr EXCEPT ![c] = None]
  /\ UNCHANGED <<group, cpustat, utime, stime, gtime, ca_stat, ticks>>

IoDoneHere(t, c) == \* mutant: taken off the run queue the task wakes on
  /\ in_iowait[t] # None /\ curr[c] = None
  /\ in_iowait' = [in_iowait EXCEPT ![t] = None]
  /\ nr_iowait' = [nr_iowait EXCEPT ![c] = @ - 1]
  /\ curr' = [curr EXCEPT ![c] = t]
  /\ UNCHANGED <<group, cpustat, utime, stime, gtime, ca_stat, ticks>>

IoDone(t, c) ==
  /\ in_iowait[t] # None /\ curr[c] = None
  /\ in_iowait' = [in_iowait EXCEPT ![t] = None]
  /\ nr_iowait' = [nr_iowait EXCEPT ![in_iowait[t]] = @ - 1]
  /\ curr' = [curr EXCEPT ![c] = t]
  /\ UNCHANGED <<group, cpustat, utime, stime, gtime, ca_stat, ticks>>

Next ==
  \/ \E c \in CPUs : \/ account_user_time(c) \/ account_guest_time(c)
                     \/ \E context \in {"system", "irq", "softirq"} : account_system_time(c, context)
                     \/ account_idle_time(c) \/ account_steal_time(c)
                     \/ Preempted(c) \/ io_schedule(c)
                     \/ \E t \in Tasks : Runs(t, c) \/ IoDone(t, c)

Spec == Init /\ [][Next]_vars

-----------------------------------------------------------------------------
(* Each tick is counted once: on the processor, where guest time is part   *)
(* of user time, and for a task; the groups, whose root has every task,    *)
(* have it but for guest time; and who waits for I/O counts where it slept.*)
TicksCountedOnce ==
  LET busy == {"user", "nice", "system", "irq", "softirq"}
      all  == Tasks \cup {None}
  IN  /\ \A c \in CPUs : Sum(cpustat[c], Kinds \ {"guest"}) = ticks[c]
      /\ Sum(utime, all) + Sum(stime, all) = Sum([c \in CPUs |-> Sum(cpustat[c], busy)], CPUs)
      /\ \A g \in Groups : Parent[g] = None =>
           ca_stat[g].user + ca_stat[g].system = Sum(utime, all) + Sum(stime, all) - Sum(gtime, all)
      /\ \A c \in CPUs : nr_iowait[c] = Cardinality({t \in Tasks : in_iowait[t] = c})

(* With it, an inductive invariant: who runs does so on one processor and  *)
(* is not counted as waiting.                                              *)
TypeOK ==
  /\ curr \in [CPUs -> Tasks \cup {None}] /\ group \in [Tasks -> Groups]
  /\ cpustat \in [CPUs -> [Kinds -> Nat]]
  /\ {utime, stime, gtime} \subseteq [Tasks \cup {None} -> Nat]
  /\ ca_stat \in [Groups -> [user : Nat, system : Nat]]
  /\ in_iowait \in [Tasks -> CPUs \cup {None}]
  /\ nr_iowait \in [CPUs -> Nat] /\ ticks \in [CPUs -> Nat]
RunsOnce == \A c \in CPUs : curr[c] # None =>
  in_iowait[curr[c]] = None /\ \A d \in CPUs \ {c} : curr[d] # curr[c]
TicksInv == TypeOK /\ RunsOnce /\ TicksCountedOnce
=============================================================================
