------------------------------ MODULE Affinity ------------------------------
(***************************************************************************)
(* The affinity system calls (scheduler_mod/sched_mod.c 6533-6687) of one  *)
(* task, against its exit and against updates of its cpuset.  What lets    *)
(* the task move to a processor it may use is in Migration.                *)
(*                                                                         *)
(* The cpuset is outside src/: an update writes its mask, then calls       *)
(* set_cpus_allowed_ptr() for each of its tasks.  The lock of processor    *)
(* hotplug is a count of those who hold processors back.                   *)
(***************************************************************************)
EXTENDS Integers, FiniteSets

CONSTANTS
  CPUs,     \* cpu_online_mask; hotplug itself is in Migration
  Callers,  \* tasks that call
  Masks,    \* masks they ask for
  Cpusets   \* masks the cpuset may have

VARIABLES
  cpuset,        \* its mask
  updating,      \* the update has written the mask and not yet reached the task
  cpus_allowed,  \* p->cpus_allowed
  hashed,        \* p can be found by its pid
  usage,         \* p->usage
  refcount,      \* get_online_cpus()
  call           \* where each caller is, its new_mask and what it returned

vars == <<cpuset, updating, cpus_allowed, hashed, usage, refcount, call>>

At(c, pc)            == call[c].at = pc
Goto(c, pc)          == call' = [call EXCEPT ![c].at = pc]
Return(c, ret, mask) == call' = [call EXCEPT ![c] = [at |-> "idle", new_mask |-> mask, ret |-> ret]]

Init ==
  /\ cpuset \in Cpusets /\ cpus_allowed = cpuset /\ updating = FALSE
  /\ hashed = TRUE /\ usage = 1 /\ refcount = 0
  /\ call = [c \in Callers |-> [at |-> "idle", new_mask |-> {}, ret |-> "ok"]]

-----------------------------------------------------------------------------
(* sys_sched_setaffinity(): in_mask is what get_user_cpu_mask() copied; a  *)
(* short one leaves the other processors out.                              *)
sys_sched_setaffinity(c, in_mask) ==
  /\ At(c, "idle")
  /\ call' = [call EXCEPT ![c] = [at |-> "find", new_mask |-> in_mask, ret |-> "ok"]]
  /\ UNCHANGED <<cpuset, updating, cpus_allowed, hashed, usage, refcount>>

NoMask(c) == \* -ENOMEM, -EFAULT, and for sched_getaffinity() -EINVAL
  /\ At(c, "idle")
  /\ Return(c, "EFAULT", {})
  /\ UNCHANGED <<cpuset, updating, cpus_allowed, hashed, usage, refcount>>

find_process_by_pid(c) ==
  /\ At(c, "find")
  /\ IF hashed THEN /\ usage' = usage + 1 /\ refcount' = refcount + 1
                    /\ Goto(c, "found")
               ELSE /\ Return(c, "ESRCH", {})
                    /\ UNCHANGED <<usage, refcount>>
  /\ UNCHANGED <<cpuset, updating, cpus_allowed, hashed>>

put_task_struct == usage' = usage - 1 /\ refcount' = refcount - 1

RefuseKeepsTask(c) == \* mutant: the failed allocation forgets the reference
  /\ At(c, "found")
  /\ refcount' = refcount - 1
  /\ \E ret \in {"ENOMEM", "EPERM"} : Return(c, ret, {})
  /\ UNCHANGED <<cpuset, updating, cpus_allowed, hashed, usage>>

(* No memory for a mask, not the owner, or refused by the security module. *)
Refuse(c) ==
  /\ At(c, "found")
  /\ put_task_struct
  /\ \E ret \in {"ENOMEM", "EPERM"} : Return(c, ret, {})
  /\ UNCHANGED <<cpuset, updating, cpus_allowed, hashed>>

cpuset_cpus_allowed(c) ==
  /\ At(c, "found")
  /\ call' = [call EXCEPT ![c].at = "set", ![c].new_mask = @ \cap cpuset]
  /\ UNCHANGED <<cpuset, updating, cpus_allowed, hashed, usage, refcount>>

(* set_cpus_allowed_ptr() takes a mask that has a processor.               *)
SetAllowed(c) ==
  /\ At(c, "set") \/ At(c, "again")
  /\ LET new_mask == call[c].new_mask IN
       IF new_mask \cap CPUs = {}
       THEN /\ put_task_struct /\ Return(c, "EINVAL", {})
            /\ UNCHANGED cpus_allowed
       ELSE /\ cpus_allowed' = new_mask /\ Goto(c, "check")
            /\ UNCHANGED <<usage, refcount>>
  /\ UNCHANGED <<cpuset, updating, hashed>>

CheckNothing(c) == \* mutant: a cpuset update in between is not noticed
  /\ At(c, "check")
  /\ put_task_struct /\ Return(c, "ok", call[c].new_mask)
  /\ UNCHANGED <<cpuset, updating, cpus_allowed, hashed>>

(* "We must have raced with a concurrent cpuset update."                   *)
CheckAgain(c) ==
  /\ At(c, "check")
  /\ IF call[c].new_mask \subseteq cpuset
     THEN /\ put_task_struct /\ Return(c, "ok", call[c].new_mask)
     ELSE /\ call' = [call EXCEPT ![c].at = "again", ![c].new_mask = cpuset]
          /\ UNCHANGED <<usage, refcount>>
  /\ UNCHANGED <<cpuset, updating, cpus_allowed, hashed>>

(* sched_getaffinity(), under tasklist_lock.                               *)
sched_getaffinity(c) ==
  /\ At(c, "idle")
  /\ IF hashed THEN Return(c, "ok", cpus_allowed \cap CPUs) ELSE Return(c, "ESRCH", {})
  /\ UNCHANGED <<cpuset, updating, cpus_allowed, hashed, usage, refcount>>

-----------------------------------------------------------------------------
(* The rest of the kernel.                                                 *)
UpdateCpuset(mask) ==
  /\ ~updating /\ mask # cpuset
  /\ cpuset' = mask /\ updating' = TRUE
  /\ UNCHANGED <<cpus_allowed, hashed, usage, refcount, call>>

UpdateTasks ==
  /\ updating /\ updating' = FALSE
  /\ cpus_allowed' = IF hashed THEN cpuset ELSE cpus_allowed
  /\ UNCHANGED <<cpuset, hashed, usage, refcount, call>>

Exit ==
  /\ hashed /\ hashed' = FALSE
  /\ usage' = usage - 1
  /\ UNCHANGED <<cpuset, updating, cpus_allowed, refcount, call>>

Next ==
  \/ \E c \in Callers : \/ \E m \in Masks : sys_sched_setaffinity(c, m)
                        \/ NoMask(c) \/ find_process_by_pid(c) \/ Refuse(c) \/ cpuset_cpus_allowed(c)
                        \/ SetAllowed(c) \/ CheckAgain(c) \/ sched_getaffinity(c)
  \/ \E m \in Cpusets : UpdateCpuset(m)
  \/ UpdateTasks \/ Exit

Spec == Init /\ [][Next]_vars

-----------------------------------------------------------------------------
(* 6579 to 6588: once nobody is in the middle of a change, the task runs   *)
(* within its cpuset, however calls and updates were mixed.                *)
AffinityInCpuset ==
  /\ hashed /\ ~updating
  /\ \A c \in Callers : ~At(c, "check") /\ ~At(c, "again")
  => cpus_allowed \subseteq cpuset

(* 6550: the task lives while a call uses it, and every way out gives back *)
(* the task and the processors, a refused or interrupted call included.    *)
ReferencesReturned ==
  LET inside == Cardinality({c \in Callers : call[c].at \in {"found", "set", "check", "again"}})
  IN  usage = inside + (IF hashed THEN 1 ELSE 0) /\ refcount = inside

(* With ReferencesReturned, an inductive invariant: a mask that lies       *)
(* outside the cpuset is that of a call that has still to look at it, or   *)
(* some call is about to put the task back, or the update will do it.      *)
Processors == UNION (Masks \cup Cpusets)
TypeOK ==
  /\ cpuset \in Cpusets /\ cpus_allowed \subseteq Processors /\ hashed \in BOOLEAN
  /\ call \in [Callers -> [at : {"idle", "find", "found", "set", "check", "again"}, new_mask : SUBSET Processors,
                           ret : {"ok", "EFAULT", "ESRCH", "ENOMEM", "EPERM", "EINVAL"}]]
WillBeSeen ==
  /\ hashed /\ ~updating => \/ cpus_allowed \subseteq cpuset
                            \/ \E c \in Callers : At(c, "again") \/ (At(c, "check") /\ call[c].new_mask = cpus_allowed)
  /\ \A c \in Callers : At(c, "again") => call[c].new_mask \in Cpusets
AffinityInv == TypeOK /\ WillBeSeen /\ ReferencesReturned
=============================================================================
