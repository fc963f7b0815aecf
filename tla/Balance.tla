------------------------------- MODULE Balance -------------------------------
(***************************************************************************)
(* Load balancing (scheduler_mod/sched_mod.c 1495-1560, 3173-4510): the    *)
(* statistics of the groups of a domain, the imbalance, the busiest queue, *)
(* the tasks that are moved, and active balancing.                         *)
(*                                                                         *)
(* The tasks run all the time, which of a queue is any one, so that the    *)
(* load averages have settled to the weights, and the power of a processor *)
(* is Scale, as without real-time load.  The statistics are read without a *)
(* lock, in one step; tasks are moved under both locks, in another.        *)
(***************************************************************************)
EXTENDS Integers, Sequences, FiniteSetsExt, SequencesExt

CONSTANTS
  CPUs, Tasks,
  Settings,       \* weight: load weight of each task; allowed: its cpus_allowed; domains: for
                  \* each processor its domains from the bottom, flags and groups, its own first
  Depth,          \* the largest number of domains
  Scale,          \* SCHED_LOAD_SCALE
  Pct,            \* imbalance_pct
  Tries,          \* cache_nice_tries
  AtOnce,         \* bound: how many processors are in load_balance() at a time
  Huge,           \* what a negative unsigned number looks like
  None

ASSUME BalanceAssumption ==
  /\ CPUs \subseteq Nat /\ IsFiniteSet(CPUs) /\ IsFiniteSet(Tasks) /\ None \notin CPUs \cup Tasks
  /\ \A s \in Settings : s.weight \in [Tasks -> Nat \ {0}] /\ s.allowed \in [Tasks -> SUBSET CPUs]
  /\ Depth \in Nat /\ Scale \in Nat \ {0} /\ Pct \in Nat /\ Tries \in Nat /\ Huge \in Nat /\ AtOnce \in Nat

VARIABLES
  setting, \* one of Settings, not changed
  cpu,     \* the run queue of each task
  failed,  \* nr_balance_failed of each domain
  active,  \* active_balance and push_cpu of each run queue
  plan     \* the load_balance() each processor is in

vars == <<setting, cpu, failed, active, plan>>

weight  == setting.weight
allowed == setting.allowed
Domains == setting.domains
On(c)     == {t \in Tasks : cpu[t] = c}
nr_running(c) == Cardinality(On(c))
weighted_cpuload(c) == MapThenSumSet(LAMBDA t : weight[t], On(c))
cpu_avg_load_per_task(c) == IF nr_running(c) = 0 THEN 0 ELSE weighted_cpuload(c) \div nr_running(c)
Levels(c) == DOMAIN Domains[c]
Least(m, n) == IF m < n THEN m ELSE n
Unsigned(n) == IF n < 0 THEN Huge ELSE n
SumOver(F(_), S) == MapThenSumSet(F, S)
Power(g)  == Scale * Cardinality(g)
Closest(n, d) == (n + d \div 2) \div d

NoPlan == [at |-> "none"]
TypeOK ==
  /\ setting \in Settings
  /\ cpu \in [Tasks -> CPUs]
  /\ \A c \in CPUs : failed[c] \in [Levels(c) -> 0..(Tries + 3)]
  /\ active \in [CPUs -> CPUs \cup {None}]
  /\ \A c \in CPUs : plan[c].at \in {"none", "find", "check", "pull"}

-----------------------------------------------------------------------------
(* update_sg_lb_stats() of group g, by processor c, over the processors S. *)
SgStats(g, c, S, sibling) ==
  LET mine  == g \cap S
      loads == {weighted_cpuload(i) : i \in mine}
      per   == (SumOver(cpu_avg_load_per_task, mine) * Scale) \div Power(g)
  IN  [load     |-> SumOver(weighted_cpuload, mine),
       avg      |-> (SumOver(weighted_cpuload, mine) * Scale) \div Power(g),
       nr       |-> SumOver(nr_running, mine),
       imb      |-> c \notin g /\ mine # {} /\ Max(loads) - Min(loads) > 2 * per,
       capacity |-> IF sibling THEN Least(Closest(Power(g), Scale), 1) ELSE Closest(Power(g), Scale)]

(* Who balances for the group: its first idle processor, else its first.   *)
BalanceCpu(g, S) ==
  LET idle == {i \in g \cap S : nr_running(i) = 0}
  IN  IF idle # {} THEN Min(idle) ELSE Min(g)

(* fix_small_imbalance(): s are the statistics, the result what to move.   *)
fix_small_imbalance(s, c, imbalance) ==
  LET this_per == IF s.this_nr # 0 THEN s.this_per \div s.this_nr ELSE cpu_avg_load_per_task(c)
      imbn     == IF s.this_nr # 0 /\ s.per > this_per THEN 1 ELSE 2
      now      == (s.busiest_pwr * Least(s.per, s.max) + s.this_pwr * Least(this_per, s.this)) \div Scale
      less     == (s.per * Scale) \div s.busiest_pwr
      more     == IF s.max * s.busiest_pwr < s.per * Scale
                  THEN (s.max * s.busiest_pwr) \div s.this_pwr ELSE (s.per * Scale) \div s.this_pwr
      move     == ((IF s.max > less THEN s.busiest_pwr * Least(s.per, s.max - less) ELSE 0)
                   + s.this_pwr * Least(this_per, s.this + more)) \div Scale
  IN  IF Unsigned(s.max - s.this) + s.per >= s.per * imbn \/ move > now THEN s.per ELSE imbalance

(* calculate_imbalance(): towards the average of the domain; a group that  *)
(* was chosen although it is below the average gives one task at most.     *)
calculate_imbalance(s, c) ==
  LET max_pull  == Least(Unsigned(s.max - s.avg), Unsigned(s.max - s.per))
      imbalance == Least(max_pull * s.busiest_pwr, Unsigned(s.avg - s.this) * s.this_pwr) \div Scale
  IN  IF s.max < s.avg THEN fix_small_imbalance(s, c, 0)
      ELSE IF imbalance < s.per THEN fix_small_imbalance(s, c, imbalance) ELSE imbalance

(* update_sd_lb_stats(): of the groups that may give something away the    *)
(* first with the largest load, None if there is no such group.            *)
Busiest(stats) ==
  LET may == {k \in 2..Len(stats) : /\ stats[k].avg > 0
                                    /\ stats[k].nr > stats[k].capacity \/ stats[k].imb}
  IN  IF may = {} THEN None
      ELSE CHOOSE k \in may : \A j \in may : stats[j].avg < stats[k].avg \/ (stats[j].avg = stats[k].avg /\ k <= j)

(* The statistics of the domain, of its busiest group b.                   *)
Stats(stats, b, sd) ==
  LET avg == (Scale * SumOver(LAMBDA k : stats[k].load, 1..Len(stats)))
               \div SumOver(LAMBDA k : Power(sd.groups[k]), 1..Len(stats))
      per == stats[b].load \div stats[b].nr
  IN  [this |-> stats[1].avg, this_nr |-> stats[1].nr, this_per |-> stats[1].load,
       this_pwr |-> Power(sd.groups[1]), max |-> stats[b].avg, avg |-> avg,
       per |-> IF stats[b].imb THEN Least(per, avg) ELSE per,
       busiest_pwr |-> Power(sd.groups[b])]

(* find_busiest_group(): the group and the load to be moved, or None.      *)
find_busiest_group(c, sd, S) ==
  LET stats == [k \in 1..Len(sd.groups) |-> SgStats(sd.groups[k], c, S, sd.prefer_sibling)]
      b     == Busiest(stats)
      s     == Stats(stats, b, sd)
  IN  IF \/ b = None
         \/ s.this >= s.max
         \/ s.this >= s.avg
         \/ 100 * s.max <= Pct * s.this
         \/ s.max <= s.per
      THEN None
      ELSE [group |-> sd.groups[b], imbalance |-> calculate_imbalance(s, c)]

(* find_busiest_queue(): the first processor with the largest load, those  *)
(* with one task that is too heavy left out.                               *)
find_busiest_queue(g, imbalance, S) ==
  LET may == {i \in g \cap S : /\ weighted_cpuload(i) > 0
                               /\ ~(nr_running(i) = 1 /\ weighted_cpuload(i) > imbalance)}
  IN  IF may = {} THEN None
      ELSE CHOOSE i \in may : \A j \in may :
             weighted_cpuload(j) < weighted_cpuload(i) \/ (weighted_cpuload(j) = weighted_cpuload(i) /\ i <= j)

-----------------------------------------------------------------------------
(* balance_tasks(): go through the tasks of the busiest queue in its       *)
(* order; stop when the load has been moved.  A task that is too heavy is  *)
(* passed over before anybody asks whether it is pinned.                   *)
can_migrate_task(t, c, curr, hot) == c \in allowed[t] /\ curr # t /\ t \notin hot

(* A mutant: a task that weighs more than the imbalance stays.             *)
BalanceNoBumping(order, c, imbalance, curr, hot) ==
  LET Visit(acc, t) ==
        IF acc.rem <= 0 \/ weight[t] > acc.rem \div 2 THEN acc
        ELSE IF can_migrate_task(t, c, curr, hot)
             THEN [moved |-> acc.moved \cup {t}, rem |-> acc.rem - weight[t], pinned |-> FALSE]
             ELSE [acc EXCEPT !.pinned = @ /\ c \notin allowed[t]]
  IN  FoldLeft(Visit, [moved |-> {}, rem |-> imbalance, pinned |-> imbalance > 0], order)

balance_tasks(order, c, imbalance, curr, hot) ==
  LET Visit(acc, t) ==
        IF acc.rem <= 0 \/ weight[t] \div 2 > acc.rem THEN acc
        ELSE IF can_migrate_task(t, c, curr, hot)
             THEN [moved |-> acc.moved \cup {t}, rem |-> acc.rem - weight[t], pinned |-> FALSE]
             ELSE [acc EXCEPT !.pinned = @ /\ c \notin allowed[t]]
  IN  FoldLeft(Visit, [moved |-> {}, rem |-> imbalance, pinned |-> imbalance > 0], order)

(* What processor b may be running: the migration thread, when it is woken *)
(* or there is nothing else (then the idle thread), or one of its tasks.   *)
Runs(b) == IF On(b) = {} \/ active[b] # None THEN On(b) \cup {None} ELSE On(b)

(* The tasks of b that are too hot to be moved to c: none after failures.  *)
Hot(b, c, l) == IF failed[c][l] > Tries THEN {{}} ELSE SUBSET On(b)

Begin(l, newidle) == [at |-> "find", l |-> l, cpus |-> CPUs, newidle |-> newidle]

(* Any placement; a processor without tasks is idle, or about to be.       *)
Init ==
  /\ setting \in Settings
  /\ cpu \in [Tasks -> CPUs] /\ \A t \in Tasks : cpu[t] \in allowed[t]
  /\ failed = [c \in CPUs |-> [l \in Levels(c) |-> 0]]
  /\ active = [c \in CPUs |-> None]
  /\ \E S \in SUBSET {c \in CPUs : On(c) = {}} :
       /\ Cardinality(S) <= AtOnce
       /\ plan = [c \in CPUs |-> IF c \in S THEN Begin(1, TRUE) ELSE NoPlan]

(* rebalance_domains() finds the interval of this domain elapsed.          *)
LoadBalance(c, l) ==
  /\ plan[c] = NoPlan /\ Cardinality({d \in CPUs : plan[d] # NoPlan}) < AtOnce
  /\ plan' = [plan EXCEPT ![c] = Begin(l, FALSE)]
  /\ UNCHANGED <<cpu, failed, active>>

(* The end of a domain; idle_balance() goes on to the next one unless      *)
(* load_balance_newidle() returned something else than 0.                  *)
Over(c, more) ==
  plan' = [plan EXCEPT ![c] = IF @.newidle /\ more /\ @.l < Len(Domains[c]) THEN Begin(@.l + 1, TRUE) ELSE NoPlan]

OutBalanced(c) ==
  /\ Over(c, TRUE)
  /\ failed' = [failed EXCEPT ![c][plan[c].l] = 0]
  /\ UNCHANGED <<cpu, active>>

Find(c) ==
  /\ plan[c].at = "find"
  /\ LET p     == plan[c]
         sd    == Domains[c][p.l]
         found == find_busiest_group(c, sd, p.cpus)
         queue == IF found = None THEN None ELSE find_busiest_queue(found.group, found.imbalance, p.cpus)
     IN  IF (~p.newidle /\ BalanceCpu(sd.groups[1], p.cpus) # c) \/ queue = None
         THEN OutBalanced(c)
         ELSE /\ plan' = [plan EXCEPT ![c] = [at |-> "check", l |-> p.l, cpus |-> p.cpus, newidle |-> p.newidle,
                                             from |-> queue, imbalance |-> found.imbalance]]
              /\ UNCHANGED <<cpu, failed, active>>

(* Nothing was moved: active balancing when that has happened too often.   *)
(* The count is kept at Tries + 3, from where all its values act alike.    *)
Failed(c, b, l) ==
  LET n == Least(failed[c][l] + 1, Tries + 3) IN
  \E curr \in Runs(b) :
    IF n <= Tries + 2 \/ curr = None \/ c \notin allowed[curr]
    THEN failed' = [failed EXCEPT ![c][l] = n] /\ UNCHANGED active
    ELSE /\ failed' = [failed EXCEPT ![c][l] = Tries + 1]
         /\ active' = IF active[b] = None THEN [active EXCEPT ![b] = c] ELSE active

NotMoved(c) ==
  /\ Over(c, FALSE)
  /\ IF plan[c].newidle THEN UNCHANGED <<failed, active>> ELSE Failed(c, plan[c].from, plan[c].l)
  /\ UNCHANGED cpu

(* The length of the other queue is looked at before it is locked.         *)
Check(c) ==
  /\ plan[c].at = "check"
  /\ IF nr_running(plan[c].from) > 1
     THEN plan' = [plan EXCEPT ![c].at = "pull"] /\ UNCHANGED <<cpu, failed, active>>
     ELSE NotMoved(c)

(* When all were pinned: once more without that processor.                 *)
AllPinned(c) ==
  LET p == plan[c] IN
  IF p.cpus # {p.from}
  THEN /\ plan' = [plan EXCEPT ![c] = [Begin(p.l, p.newidle) EXCEPT !.cpus = p.cpus \ {p.from}]]
       /\ UNCHANGED <<cpu, failed, active>>
  ELSE IF p.newidle THEN NotMoved(c) ELSE OutBalanced(c)

Pull(c) ==
  /\ plan[c].at = "pull"
  /\ LET b == plan[c].from
         l == plan[c].l
     IN  \E order \in SetToSeqs(On(b)), curr \in Runs(b), hot \in Hot(b, c, l) :
           LET m == balance_tasks(order, c, plan[c].imbalance, curr, hot) IN
           IF m.pinned THEN AllPinned(c)
           ELSE IF m.moved = {} THEN NotMoved(c)
           ELSE /\ cpu' = [t \in Tasks |-> IF t \in m.moved THEN c ELSE cpu[t]]
                /\ failed' = [failed EXCEPT ![c][l] = 0]
                /\ Over(c, FALSE)
                /\ UNCHANGED active

(* active_load_balance(): the migration thread of b has preempted what ran *)
(* there; one task goes to push_cpu.  A queue left empty is about to idle. *)
ActiveLoadBalance(b) ==
  /\ active[b] # None
  /\ LET c == active[b]
         l == Min({k \in Levels(c) : \E i \in 1..Len(Domains[c][k].groups) : b \in Domains[c][k].groups[i]})
     IN  \E hot \in Hot(b, c, l) :
           LET may == {t \in On(b) : can_migrate_task(t, c, None, hot)} IN
           \/ /\ may = {}
              /\ UNCHANGED <<cpu, plan>>
           \/ \E t \in may :
                /\ cpu' = [cpu EXCEPT ![t] = c]
                /\ plan' = IF On(b) = {t} /\ plan[b] = NoPlan THEN [plan EXCEPT ![b] = Begin(1, TRUE)] ELSE plan
  /\ active' = [active EXCEPT ![b] = None]
  /\ UNCHANGED failed

Next ==
  /\ \E c \in CPUs : \/ \E l \in Levels(c) : LoadBalance(c, l)
                     \/ Find(c) \/ Check(c) \/ Pull(c) \/ ActiveLoadBalance(c)
  /\ UNCHANGED setting

(* The tick raises the softirq, every interval elapses, load_balance()     *)
(* ends, the migration thread is woken and has real-time priority; the     *)
(* tasks of a queue take turns, so that a balancer that comes back again   *)
(* and again does not find the one it could move running each time.        *)
Fairness ==
  \A c \in CPUs : /\ \A l \in 1..Depth : []<>(l \in Levels(c) => plan[c].at = "find" /\ plan[c].l = l)
                  /\ []<>(plan[c] = NoPlan)
                  /\ []<>(active[c] = None)
                  /\ SF_vars(Pull(c) /\ cpu' # cpu /\ UNCHANGED setting)
Spec == Init /\ [][Next]_vars /\ Fairness

-----------------------------------------------------------------------------
(* Work conservation ("requires at least 1 task to be running on each      *)
(* physical CPU where possible"): no processor stays idle for ever while   *)
(* another one has two tasks of which one could run there.                 *)
Conserving ==
  \A c \in CPUs : []<>~(On(c) = {} /\ \E t \in Tasks : nr_running(cpu[t]) > 1 /\ c \in allowed[t])

(* The same when all tasks have the same weight.                           *)
AlikeConserving == (\A t, u \in Tasks : weight[t] = weight[u]) => Conserving
=============================================================================
