------------------------------- MODULE Queues -------------------------------
(***************************************************************************)
(* The run queue locks and, sharing nothing with them, the groups with     *)
(* real-time bandwidth; part says which of the two moves in a behaviour,   *)
(* the variables of the other keep the value None.                         *)
(***************************************************************************)
EXTENDS RunQueue

CONSTANTS
  Groups, Root, RtTasks, Writers, Periods, Runtimes, INF, Full \* as in RtGroups

VARIABLES part, status, parent, band, sysctl, handler, def_rt, sharing, cgroup, rq_tg, rt_task,
          attach, setsched, set, unsure, stale

(* RUNTIME_INF is no runtime that can be written; new groups get none.     *)
ASSUME GroupsAssumption ==
  /\ IsFiniteSet(Groups) /\ Root \in Groups /\ {None, "moving"} \cap Groups = {}
  /\ None # "moving"
  /\ Periods \subseteq Nat \ {0} /\ Runtimes \subseteq Nat /\ 0 \in Runtimes
  /\ INF \in Nat \ Runtimes /\ Full \in Nat
  /\ None \notin [period : Periods, runtime : Runtimes \cup {INF}]
  /\ None \notin [g : Groups, period : Periods, runtime : Runtimes \cup {INF}]

RG == INSTANCE RtGroups WITH Tasks <- RtTasks

group_state == <<status, parent, band, sysctl, handler, def_rt, sharing, cgroup, rq_tg, rt_task,
                 attach, setsched, set, unsure, stale>>

LocksIdle ==
  /\ lock = None /\ curr = None /\ on = None /\ cpu = None /\ queued = None /\ state = None
  /\ nvcsw = None /\ dropped = None /\ mm = None /\ active_mm = None /\ mm_count = None
  /\ prev_mm = None /\ act = None /\ seen = None /\ unpinned = None /\ astray = None

GroupsIdle ==
  /\ status = None /\ parent = None /\ band = None /\ sysctl = None /\ handler = None
  /\ def_rt = None /\ sharing = None /\ cgroup = None /\ rq_tg = None /\ rt_task = None
  /\ attach = None /\ setsched = None /\ set = None /\ unsure = None /\ stale = None

QueuesInit == \/ part = "RunQueue" /\ Init /\ GroupsIdle
              \/ part = "RtGroups" /\ RG!Init /\ LocksIdle

QueuesNext == /\ UNCHANGED part
              /\ \/ part = "RunQueue" /\ Next /\ UNCHANGED group_state
                 \/ part = "RtGroups" /\ RG!Next /\ UNCHANGED vars

QueuesSpec == QueuesInit /\ [][QueuesNext]_<<part, vars, group_state>>

(* After an admission test that missed something, or a decision under the  *)
(* lock of a run queue that the task had left, nothing is promised.        *)
StillPromised == IF part = "RtGroups" THEN ~unsure ELSE ~astray

-----------------------------------------------------------------------------
(* task_rq_lock() and __task_rq_lock(): whoever holds what they returned   *)
(* holds the lock of the run queue the task is on, unless the task was     *)
(* being woken when it was locked.                                         *)
LockHoldsTask == part = "RunQueue" /\ ~astray => LockedTaskStays

(* double_rq_lock(), double_lock_balance(): no two processors wait for the *)
(* run queue lock that the other holds.                                    *)
LocksAcyclic == part = "RunQueue" => NoLockCycle

(* finish_task_switch(): a dead task and a borrowed mm are given back      *)
(* once, and not while a processor is on them.                             *)
SwitchCountsReferences == part = "RunQueue" /\ ~astray => DroppedOnce /\ MmCounted

(* wait_task_inactive(): a sampled task is off every stack and queue, and  *)
(* equal results mean that it has not run in between.                      *)
InactiveStaysOff == [][part = "RunQueue" => InactiveSample]_vars

(* tg_schedulable(): the groups that were admitted fit into their parents, *)
(* and a refused write of the sysctl files leaves nothing behind.          *)
BandwidthAdmitted == part = "RtGroups" => RG!Admitted /\ RG!RefusedLeavesNothing

(* No real-time task is in a group without runtime, unless its check was   *)
(* overtaken.                                                              *)
NobodyStarves == part = "RtGroups" => RG!NobodyStarves
=============================================================================
