------------------------------ MODULE RtGroups ------------------------------
(***************************************************************************)
(* Task groups and real-time bandwidth (scheduler_mod/sched_mod.c 245-385, *)
(* 838-866, 1441-1492, 9765-10592) under CGROUP_SCHED, FAIR_GROUP_SCHED    *)
(* and RT_GROUP_SCHED: creation, removal and shares of groups, the         *)
(* admission test of their bandwidth, the sysctl pair and the attachment   *)
(* of tasks.                                                               *)
(*                                                                         *)
(* A walk of the tree is one step: rt_constraints_mutex and tasklist_lock  *)
(* are held.  Periods and runtimes are small numbers, 2^20 is Full.        *)
(***************************************************************************)
EXTENDS Integers, FiniteSets

CONSTANTS
  Groups, Root,  \* task groups; init_task_group
  Tasks,
  Writers,       \* threads that write the cgroup files of bandwidth
  Periods, Runtimes,
  INF,           \* RUNTIME_INF, larger than every period
  Full,          \* the ratio of one processor
  None

VARIABLES
  status,   \* "free", "listed", "hidden" (off its parent's list), "dying"
  parent,
  band,     \* rt_bandwidth of each group
  sysctl,   \* sysctl_sched_rt_period and _runtime
  handler,  \* sched_rt_handler: the old values until it has decided
  def_rt,   \* def_rt_bandwidth
  sharing,  \* the group whose shares are being set (shares_mutex)
  cgroup,   \* group of each task
  rq_tg,    \* group whose run queues the task is filed on
  rt_task,  \* the task is real-time
  attach,   \* the group each task is being attached to; "moving" once the core has changed it
  setsched, \* tasks whose __sched_setscheduler() is past the check
  set,      \* bandwidth a writer has read and is about to set
  unsure,   \* history: an admission test missed a group or used values that were not final
  stale     \* history: tasks whose check was overtaken before it was used

vars == <<status, parent, band, sysctl, handler, def_rt, sharing, cgroup, rq_tg,
          rt_task, attach, setsched, set, unsure, stale>>
group_vars == <<status, parent, band, sharing>>
glob_vars  == <<sysctl, handler, def_rt>>
task_vars  == <<cgroup, rq_tg, rt_task, attach, setsched>>

Bandwidths == [period : Periods, runtime : Runtimes \cup {INF}]
Used       == {g \in Groups : status[g] \in {"listed", "hidden"}}

TypeOK ==
  /\ status \in [Groups -> {"free", "listed", "hidden", "dying"}]
  /\ parent \in [Groups -> Groups \cup {None}] /\ band \in [Groups -> Bandwidths]
  /\ sysctl \in Bandwidths /\ def_rt \in Bandwidths /\ handler \in Bandwidths \cup {None}
  /\ sharing \in Groups \cup {None}
  /\ cgroup \in [Tasks -> Groups] /\ rq_tg \in [Tasks -> Groups]
  /\ rt_task \in [Tasks -> BOOLEAN] /\ stale \subseteq Tasks /\ unsure \in BOOLEAN
  /\ attach \in [Tasks -> {None, "moving"} \cup Groups] /\ setsched \subseteq Tasks
  /\ set \in [Writers -> {None} \cup [g : Groups, period : Periods, runtime : Runtimes \cup {INF}]]

-----------------------------------------------------------------------------
rt_bandwidth_enabled == sysctl.runtime # INF
to_ratio(b)          == IF b.runtime = INF THEN Full ELSE (Full * b.runtime) \div b.period
tg_has_rt_tasks(g)   == \E t \in Tasks : rt_task[t] /\ rq_tg[t] = g

(* The groups that a walk from the root meets: those in every set that     *)
(* contains the root and the listed children of its members.               *)
walk_tg_tree ==
  {g \in Groups : \A S \in SUBSET Groups :
     /\ Root \in S
     /\ \A c \in Groups : status[c] = "listed" /\ parent[c] \in S => c \in S
     => g \in S}

Children(g) == {c \in Groups : status[c] = "listed" /\ parent[c] = g}

(* The units of bandwidth that the groups of S hold in all.                *)
SumRatio(S, b) == Cardinality(UNION {{c} \X (1..to_ratio(b[c])) : c \in S})

SchedulableAlone(g, b) == \* mutant: the sum of the children is not tested
  /\ b[g].runtime <= b[g].period \/ b[g].runtime = INF
  /\ ~(rt_bandwidth_enabled /\ b[g].runtime = 0 /\ tg_has_rt_tasks(g))
  /\ to_ratio(b[g]) <= to_ratio(sysctl)

(* tg_schedulable() of group g when the bandwidths are to be b.            *)
tg_schedulable(g, b) ==
  /\ b[g].runtime <= b[g].period \/ b[g].runtime = INF
  /\ ~(rt_bandwidth_enabled /\ b[g].runtime = 0 /\ tg_has_rt_tasks(g))
  /\ to_ratio(b[g]) <= to_ratio(sysctl)
  /\ SumRatio(Children(g), b) <= to_ratio(b[g])

SchedulableIgnoresRt(b) == \* mutant: real-time tasks may be starved
  \A g \in walk_tg_tree : /\ b[g].runtime <= b[g].period \/ b[g].runtime = INF
                          /\ SumRatio(Children(g), b) <= to_ratio(b[g])
                          /\ to_ratio(b[g]) <= to_ratio(sysctl)

__rt_schedulable(b) == \A g \in walk_tg_tree : tg_schedulable(g, b)

(* An admission test is unsure when a group is off its list, or when the   *)
(* sysctl values may still be taken back.                                  *)
Unsure(deciding) == (\E g \in Groups : status[g] = "hidden") \/ (handler # None /\ ~deciding)

Init ==
  /\ \E p \in Periods, r \in Runtimes \ {0} :
       /\ r <= p
       /\ sysctl = [period |-> p, runtime |-> r]
       /\ def_rt = sysctl
       /\ band = [g \in Groups |-> [period |-> p, runtime |-> IF g = Root THEN r ELSE 0]]
  /\ status = [g \in Groups |-> IF g = Root THEN "listed" ELSE "free"]
  /\ parent = [g \in Groups |-> None]
  /\ handler = None /\ sharing = None
  /\ cgroup = [t \in Tasks |-> Root] /\ rq_tg = [t \in Tasks |-> Root]
  /\ rt_task = [t \in Tasks |-> FALSE]
  /\ attach = [t \in Tasks |-> None] /\ setsched = {} /\ set = [w \in Writers |-> None]
  /\ unsure = FALSE /\ stale = {}

-----------------------------------------------------------------------------
(* The cgroup core creates and removes groups one at a time and removes    *)
(* one only when no task, child or writer uses it (external).              *)
InUse(g) ==
  \/ \E c \in Used : parent[c] = g
  \/ \E t \in Tasks : cgroup[t] = g \/ rq_tg[t] = g \/ attach[t] = g
  \/ sharing = g \/ \E w \in Writers : set[w] # None /\ set[w].g = g

(* The bandwidth that a new group is given; its run queues get none.        *)
alloc_rt_sched_group == [period |-> def_rt.period, runtime |-> 0]

sched_create_group(g, p) ==
  /\ status[g] = "free" /\ p \in Used
  /\ status' = [status EXCEPT ![g] = "listed"]
  /\ parent' = [parent EXCEPT ![g] = p]
  /\ band' = [band EXCEPT ![g] = alloc_rt_sched_group]
  /\ UNCHANGED <<glob_vars, task_vars, sharing, set, unsure, stale>>

sched_destroy_group(g) ==
  /\ g # Root /\ g \in Used /\ ~InUse(g)
  /\ status' = [status EXCEPT ![g] = "dying"]
  /\ parent' = [parent EXCEPT ![g] = None]
  /\ band' = [band EXCEPT ![g] = def_rt]
  /\ UNCHANGED <<sharing, glob_vars, task_vars, set, unsure, stale>>

(* The RCU callback, after a grace period.                                 *)
free_sched_group_rcu(g) ==
  /\ status[g] = "dying"
  /\ status' = [status EXCEPT ![g] = "free"]
  /\ UNCHANGED <<parent, band, sharing, glob_vars, task_vars, set, unsure, stale>>

(* sched_group_set_shares(): the group leaves the lists, the writer waits  *)
(* in synchronize_sched(), changes the shares and lists it again.          *)
SharesUnlink(g) ==
  /\ sharing = None /\ g \in Used /\ g # Root
  /\ sharing' = g
  /\ status' = [status EXCEPT ![g] = "hidden"]
  /\ UNCHANGED <<parent, band, glob_vars, task_vars, set, unsure, stale>>

SharesRelink ==
  /\ sharing # None
  /\ status' = [status EXCEPT ![sharing] = "listed"]
  /\ sharing' = None
  /\ UNCHANGED <<parent, band, glob_vars, task_vars, set, unsure, stale>>

-----------------------------------------------------------------------------
(* Tasks whose way into g, or into real time in g, was checked already.    *)
OnTheirWay(g) ==
  {t \in Tasks : \/ attach[t] = g
                 \/ cgroup[t] = g /\ (attach[t] = "moving" \/ t \in setsched)}

(* sched_group_set_rt_runtime() and _period() read the other value of the  *)
(* group before they take the mutex.                                       *)
SetRuntime(w, g, r) ==
  /\ set[w] = None /\ g \in Used
  /\ set' = [set EXCEPT ![w] = [g |-> g, period |-> band[g].period, runtime |-> r]]
  /\ UNCHANGED <<group_vars, glob_vars, task_vars, unsure, stale>>

SetPeriod(w, g, p) ==
  /\ set[w] = None /\ g \in Used
  /\ set' = [set EXCEPT ![w] = [g |-> g, period |-> p, runtime |-> band[g].runtime]]
  /\ UNCHANGED <<group_vars, glob_vars, task_vars, unsure, stale>>

tg_set_bandwidth(w) ==
  /\ set[w] # None
  /\ LET g == set[w].g
         b == [band EXCEPT ![g] = [period |-> set[w].period, runtime |-> set[w].runtime]]
     IN  IF __rt_schedulable(b)
         THEN /\ band' = b /\ unsure' = (unsure \/ Unsure(FALSE))
              /\ stale' = IF b[g].runtime = 0 THEN stale \cup OnTheirWay(g) ELSE stale
         ELSE UNCHANGED <<band, unsure, stale>>
  /\ set' = [set EXCEPT ![w] = None]
  /\ UNCHANGED <<status, parent, sharing, glob_vars, task_vars>>

(* Values that limit the bandwidth again overtake the checks made without. *)
EnabledAgain == stale' = IF ~rt_bandwidth_enabled /\ sysctl'.runtime # INF
                         THEN stale \cup setsched ELSE stale

(* sched_rt_handler(): the new value is in place before it is tested.      *)
SysctlWrite(s) ==
  /\ handler = None
  /\ s.period = sysctl.period \/ s.runtime = sysctl.runtime
  /\ handler' = sysctl /\ sysctl' = s
  /\ EnabledAgain
  /\ UNCHANGED <<def_rt, group_vars, task_vars, set, unsure>>

SysctlHalfRollback == \* mutant: only the period is taken back
  /\ handler # None
  /\ IF __rt_schedulable(band) THEN def_rt' = sysctl /\ UNCHANGED sysctl
     ELSE sysctl' = [sysctl EXCEPT !.period = handler.period] /\ UNCHANGED def_rt
  /\ unsure' = unsure
  /\ handler' = None
  /\ EnabledAgain
  /\ UNCHANGED <<group_vars, task_vars, set>>

sched_rt_global_constraints ==
  /\ sysctl.runtime <= sysctl.period \/ sysctl.runtime = INF
  /\ __rt_schedulable(band)

SysctlDecide ==
  /\ handler # None
  /\ IF sched_rt_global_constraints
     THEN def_rt' = sysctl /\ UNCHANGED sysctl /\ unsure' = (unsure \/ Unsure(TRUE))
     ELSE sysctl' = handler /\ UNCHANGED <<def_rt, unsure>>
  /\ handler' = None
  /\ EnabledAgain
  /\ UNCHANGED <<group_vars, task_vars, set>>

-----------------------------------------------------------------------------
(* A task may be real-time in group g.                                     *)
CanRun(g) == band[g].runtime # 0

(* __sched_setscheduler() of a user: checked without a lock, done later.   *)
SetschedCheck(t) ==
  /\ t \notin setsched /\ ~rt_task[t]
  /\ rt_bandwidth_enabled => CanRun(cgroup[t])
  /\ setsched' = setsched \cup {t}
  /\ stale' = IF handler = None THEN stale ELSE stale \cup {t}
  /\ UNCHANGED <<cgroup, rq_tg, rt_task, attach, group_vars, glob_vars, set, unsure>>

SetschedCommit(t) ==
  /\ t \in setsched
  /\ rt_task' = [rt_task EXCEPT ![t] = TRUE]
  /\ setsched' = setsched \ {t}
  /\ stale' = IF attach[t] = None THEN stale ELSE stale \cup {t}
  /\ UNCHANGED <<cgroup, rq_tg, attach, group_vars, glob_vars, set, unsure>>

BecomeFair(t) ==
  /\ rt_task[t]
  /\ rt_task' = [rt_task EXCEPT ![t] = FALSE]
  /\ stale' = stale \ {t}
  /\ UNCHANGED <<cgroup, rq_tg, attach, setsched, group_vars, glob_vars, set, unsure>>

AttachUnchecked(t, g) == \* mutant: cpu_cgroup_can_attach() agrees to everything
  /\ attach[t] = None /\ g \in Used
  /\ attach' = [attach EXCEPT ![t] = g]
  /\ UNCHANGED <<cgroup, rq_tg, rt_task, setsched, group_vars, glob_vars, set, unsure, stale>>

(* cpu_cgroup_can_attach(); the core then changes the group of the task    *)
(* and calls cpu_cgroup_attach().                                          *)
CanAttach(t, g) ==
  /\ attach[t] = None /\ g \in Used
  /\ rt_task[t] => CanRun(g)
  /\ attach' = [attach EXCEPT ![t] = g]
  /\ UNCHANGED <<cgroup, rq_tg, rt_task, setsched, group_vars, glob_vars, set, unsure, stale>>

AttachCss(t) ==
  /\ attach[t] \in Groups
  /\ cgroup' = [cgroup EXCEPT ![t] = attach[t]]
  /\ attach' = [attach EXCEPT ![t] = "moving"]
  /\ stale' = stale \cup (setsched \cap {t})
  /\ UNCHANGED <<rq_tg, rt_task, setsched, group_vars, glob_vars, set, unsure>>

(* The task is filed on the run queues of its group, under the run queue   *)
(* lock, by sched_move_task() or by a migration.                           *)
set_task_rq(t) == rq_tg' = [rq_tg EXCEPT ![t] = cgroup[t]]

sched_move_task(t) ==
  /\ attach[t] = "moving"
  /\ set_task_rq(t)
  /\ attach' = [attach EXCEPT ![t] = None]
  /\ UNCHANGED <<cgroup, rt_task, setsched, group_vars, glob_vars, set, unsure, stale>>

Migrated(t) ==
  /\ rq_tg[t] # cgroup[t]
  /\ set_task_rq(t)
  /\ UNCHANGED <<cgroup, rt_task, attach, setsched, group_vars, glob_vars, set, unsure, stale>>

Next ==
  \/ \E g, p \in Groups : sched_create_group(g, p)
  \/ \E g \in Groups : sched_destroy_group(g) \/ free_sched_group_rcu(g) \/ SharesUnlink(g)
  \/ SharesRelink \/ SysctlDecide
  \/ \E w \in Writers, g \in Groups, r \in Runtimes \cup {INF} : SetRuntime(w, g, r)
  \/ \E w \in Writers, g \in Groups, p \in Periods : SetPeriod(w, g, p)
  \/ \E w \in Writers : tg_set_bandwidth(w)
  \/ \E s \in Bandwidths : SysctlWrite(s)
  \/ \E t \in Tasks : SetschedCheck(t) \/ SetschedCommit(t) \/ BecomeFair(t)
                      \/ AttachCss(t) \/ sched_move_task(t) \/ Migrated(t)
  \/ \E t \in Tasks, g \in Groups : CanAttach(t, g)

Spec == Init /\ [][Next]_vars

-----------------------------------------------------------------------------
(* Comments 10210 and 10216: nobody has more than the global setting       *)
(* allows and the children of a group have no more than the group.         *)
SumWithinParent ==
  handler = None =>
    \A g \in Used :
      /\ to_ratio(band[g]) <= to_ratio(sysctl)
      /\ SumRatio({c \in Used : parent[c] = g}, band) <= to_ratio(band[g])

(* It holds unless a test was made while a group was off its list or the   *)
(* sysctl values were not final.                                           *)
Admitted == unsure \/ SumWithinParent

(* Comments 6322 and 10202: no real-time task is in a group that has no    *)
(* runtime, unless its check was overtaken before it was used.             *)
NobodyStarves ==
  ~unsure /\ handler = None /\ rt_bandwidth_enabled =>
    \A t \in Tasks \ stale : rt_task[t] /\ attach[t] = None => CanRun(rq_tg[t])

(* A refused write of the sysctl files leaves nothing behind: the values   *)
(* that new groups start from are those in force.                          *)
RefusedLeavesNothing == handler = None => def_rt = sysctl
=============================================================================
