---------------------------- MODULE GroupMemory ----------------------------
(***************************************************************************)
(* The memory of task groups (scheduler_mod/sched_mod.c 9332-9387 and      *)
(* 9765-10007): how a group is allocated piece by piece, how it is freed   *)
(* when a piece is missing, and how a group that others may be walking is  *)
(* taken apart.  One cgroup operation runs at a time (cgroup_mutex) and    *)
(* only a group without children is destroyed.                             *)
(*                                                                         *)
(* External: call_rcu() calls back when the readers of now are gone; and   *)
(* hrtimer_cancel() of a timer that was never initialised does not return, *)
(* as it waits for the base the timer is on.                               *)
(***************************************************************************)
EXTENDS Integers, SequencesExt

CONSTANTS
  CPUs, Groups, root_task_group,
  Readers,
  FAIR, RT,  \* CONFIG_FAIR_GROUP_SCHED, CONFIG_RT_GROUP_SCHED
  None

VARIABLES
  heap,         \* the pieces of each group that are allocated
  parent,
  task_groups,  \* groups in the lists, and in those of the run queues
  creating,     \* the group that is being made, its next piece, and how it is going
  dying,        \* readers each destroyed group still waits for
  reader,       \* None, or what a reader holds: a group, or "nothing" yet
  leaked        \* history: pieces that nothing points to any more

vars == <<heap, parent, task_groups, creating, dying, reader, leaked>>

(* The pieces in the order of allocation.  A pair of entries is only put   *)
(* into the arrays, by init_tg_cfs_entry(), when both are there.           *)
PerCpu(queue, entity) ==
  LET cpu == SetToSeq(CPUs)
  IN  [i \in 1..(2 * Cardinality(CPUs)) |-> <<IF i % 2 = 1 THEN queue ELSE entity, cpu[(i + 1) \div 2]>>]
alloc_fair_sched_group == IF FAIR THEN <<<<"cfs_rq", None>>, <<"se", None>>>> \o PerCpu("cfs_rq", "se") ELSE <<>>
alloc_rt_sched_group   == IF RT THEN <<<<"rt_rq", None>>, <<"rt_se", None>>>> \o PerCpu("rt_rq", "rt_se") ELSE <<>>
Pieces == <<<<"tg", None>>>> \o alloc_fair_sched_group \o alloc_rt_sched_group

(* A run queue can only be freed once it is entered next to its entity.    *)
Freed(pieces, queue, entity) ==
  {p \in pieces : p[1] = entity \/ (p[1] = queue /\ (p[2] = None \/ <<entity, p[2]>> \in pieces))}
free_fair_sched_group(pieces) == Freed(pieces, "cfs_rq", "se")
free_rt_sched_group(pieces)   == Freed(pieces, "rt_rq", "rt_se")
free_sched_group(pieces) ==
  {p \in pieces : p[1] = "tg"} \cup free_fair_sched_group(pieces) \cup free_rt_sched_group(pieces)
init_rt_bandwidth(pieces) == <<"rt_se", None>> \in pieces
Whole(g) == g = root_task_group \/ heap[g] = ToSet(Pieces)

Init ==
  /\ heap = [g \in Groups |-> {}] /\ parent = [g \in Groups |-> None]
  /\ task_groups = {} /\ creating = None
  /\ dying = [g \in Groups |-> None]
  /\ reader = [r \in Readers |-> None] /\ leaked = {}

-----------------------------------------------------------------------------
cpu_cgroup_create(g, p) ==
  /\ creating = None /\ heap[g] = {} /\ p \in task_groups \cup {root_task_group}
  /\ creating' = [group |-> g, next |-> 1, hangs |-> FALSE]
  /\ parent' = [parent EXCEPT ![g] = p]
  /\ UNCHANGED <<heap, task_groups, dying, reader, leaked>>

kzalloc ==
  /\ creating # None /\ ~creating.hangs /\ creating.next <= Len(Pieces)
  /\ heap' = [heap EXCEPT ![creating.group] = @ \cup {Pieces[creating.next]}]
  /\ creating' = [creating EXCEPT !.next = @ + 1]
  /\ UNCHANGED <<parent, task_groups, dying, reader, leaked>>

(* free_sched_group() of what there is: free_rt_sched_group() cancels the  *)
(* timer of the group whether it was initialised or not.                   *)
AllocFails ==
  /\ creating # None /\ ~creating.hangs /\ creating.next <= Len(Pieces)
  /\ LET g == creating.group IN
       IF RT /\ creating.next > 1 /\ ~init_rt_bandwidth(heap[g])
       THEN /\ creating' = [creating EXCEPT !.hangs = TRUE]
            /\ UNCHANGED <<heap, leaked>>
       ELSE /\ creating' = None
            /\ leaked' = leaked \cup (heap[g] \ free_sched_group(heap[g]))
            /\ heap' = [heap EXCEPT ![g] = {}]
  /\ UNCHANGED <<parent, task_groups, dying, reader>>

RegisterEarly == \* mutant: registered when the fair part is there
  /\ creating # None /\ ~creating.hangs /\ creating.next > Len(alloc_fair_sched_group) + 1
  /\ task_groups' = task_groups \cup {creating.group}
  /\ creating' = None
  /\ UNCHANGED <<heap, parent, dying, reader, leaked>>

(* The last part of sched_create_group(), under task_group_lock.           *)
Register ==
  /\ creating # None /\ ~creating.hangs /\ creating.next = Len(Pieces) + 1
  /\ task_groups' = task_groups \cup {creating.group}
  /\ creating' = None
  /\ UNCHANGED <<heap, parent, dying, reader, leaked>>

DestroyAtOnce(g) == \* mutant: the readers of now are not waited for
  /\ creating = None /\ g \in task_groups /\ \A h \in task_groups : parent[h] # g
  /\ task_groups' = task_groups \ {g}
  /\ dying' = [dying EXCEPT ![g] = {}]
  /\ UNCHANGED <<heap, parent, creating, reader, leaked>>

sched_destroy_group(g) ==
  /\ creating = None /\ g \in task_groups /\ \A h \in task_groups : parent[h] # g
  /\ task_groups' = task_groups \ {g}
  /\ dying' = [dying EXCEPT ![g] = {r \in Readers : reader[r] # None}]
  /\ UNCHANGED <<heap, parent, creating, reader, leaked>>

free_sched_group_rcu(g) ==
  /\ dying[g] = {}
  /\ heap' = [heap EXCEPT ![g] = @ \ free_sched_group(@)]
  /\ dying' = [dying EXCEPT ![g] = None]
  /\ UNCHANGED <<parent, task_groups, creating, reader, leaked>>

-----------------------------------------------------------------------------
(* walk_tg_tree(), for_each_leaf_cfs_rq(): a reader finds a group in a     *)
(* list and goes up from its entities to those of its ancestors.           *)
rcu_read_lock(r) ==
  /\ reader[r] = None
  /\ reader' = [reader EXCEPT ![r] = "nothing"]
  /\ UNCHANGED <<heap, parent, task_groups, creating, dying, leaked>>

Find(r, g) ==
  /\ reader[r] # None /\ g \in task_groups
  /\ reader' = [reader EXCEPT ![r] = g]
  /\ UNCHANGED <<heap, parent, task_groups, creating, dying, leaked>>

rcu_read_unlock(r) ==
  /\ reader[r] # None
  /\ reader' = [reader EXCEPT ![r] = None]
  /\ dying' = [g \in Groups |-> IF dying[g] = None THEN None ELSE dying[g] \ {r}]
  /\ UNCHANGED <<heap, parent, task_groups, creating, leaked>>

Next ==
  \/ \E g \in Groups : \/ \E p \in Groups \cup {root_task_group} : cpu_cgroup_create(g, p)
                       \/ sched_destroy_group(g) \/ free_sched_group_rcu(g)
  \/ kzalloc \/ AllocFails \/ Register
  \/ \E r \in Readers : rcu_read_lock(r) \/ rcu_read_unlock(r) \/ \E g \in Groups : Find(r, g)

Spec == Init /\ [][Next]_vars

-----------------------------------------------------------------------------
(* 10005: whoever walks the groups finds every piece of the one he holds,  *)
(* and of those above it, though they may be destroyed one after the other.*)
WalkersFindGroups ==
  \A r \in Readers : reader[r] \in Groups =>
    Whole(reader[r]) /\ (parent[reader[r]] \in Groups => Whole(parent[reader[r]]))

(* 9986: freeing a group frees all of it.                                  *)
NothingLeaked == leaked = {}

(* The timer is only cancelled when it was initialised.                    *)
CreationEnds == creating = None \/ ~creating.hangs

(* With the first, an inductive invariant: a group that can be found, and  *)
(* one that is dying, is whole; so is the one above it, found or dying     *)
(* too; and who holds a group that is dying is one of those it waits for.  *)
TypeOK ==
  /\ heap \in [Groups -> SUBSET ToSet(Pieces)] /\ parent \in [Groups -> Groups \cup {root_task_group, None}]
  /\ task_groups \subseteq Groups /\ dying \in [Groups -> (SUBSET Readers) \cup {None}]
  /\ reader \in [Readers -> Groups \cup {None, "nothing"}]
Unborn(g) == g \notin task_groups /\ dying[g] = None
BeingMade ==
  creating # None =>
    /\ creating \in [group : Groups, next : 1..(Len(Pieces) + 1), hangs : BOOLEAN] /\ Unborn(creating.group)
    /\ heap[creating.group] = {Pieces[i] : i \in 1..(creating.next - 1)}
    /\ parent[creating.group] \in task_groups \cup {root_task_group}
BornWhole ==
  /\ \A g \in Groups : ~Unborn(g) => heap[g] = ToSet(Pieces)
  /\ \A g \in task_groups : parent[g] \in task_groups \cup {root_task_group} /\ dying[g] = None
Awaited ==
  \A r \in Readers, g \in Groups : reader[r] = g =>
    \A h \in {g, parent[g]} \cap Groups : h \in task_groups \/ (dying[h] # None /\ r \in dying[h])
GroupInv == TypeOK /\ BeingMade /\ BornWhole /\ Awaited
=============================================================================
