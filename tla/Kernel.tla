------------------------------- MODULE Kernel -------------------------------
(***************************************************************************)
(* Parts of the kernel that share no state.  One part moves in a           *)
(* behaviour, chosen at the start: its variables are the first of x1, x2,  *)
(* ... (those of Priorities are its own), and the others keep the value    *)
(* None.                                                                   *)
(***************************************************************************)
EXTENDS Priorities, FiniteSets

CONSTANTS
  CPUs, Removable,             \* and those that can go offline
  Groups, Parent,              \* accounting groups, and the one above each
  Readers,                     \* who walks groups or reads times
  MachineCPUs, Topologies, Isolated, MachineRemovable, Walkers, Partitions, NODES_PER_DOMAIN,
  Scale, Gain, Roots, def_root_domain,                                             \* Domains
  AffinityCPUs, AffinityCallers, Masks, Cpusets,                                   \* Affinity
  SyncCallers, TRIES,                                                              \* Expedited
  TaskGroups, root_task_group, FAIR, RT,                                           \* GroupMemory
  Packages, PowerModes, Wakers, Timers,                                            \* NoHz
  LoadTasks, Limit, FIXED_1, EXP,                                                  \* LoadAvg
  TimeTasks, Nice, MaxTicks,                                                       \* CpuTime
  MaxRun, WIDTH,                                                                   \* TaskTimes
  HALF, MaxUsage,                                                                  \* CpuAcct
  GroupLoads, Settings, MIN_SHARES, MAX_SHARES, NICE_0_LOAD, shares_thresh,        \* Shares
  Here, Horizon,                                                                   \* HrTick
  QueueLoads, CPU_LOAD_IDX_MAX,                                                    \* CpuLoad
  PERIOD, TICK, LONG, Ages, Sums,                                                  \* RtPower
  ForcedPids                                                                       \* ForceRun

ASSUME CallersAssumption == IsFiniteSet(AffinityCallers) /\ IsFiniteSet(SyncCallers) /\ 0 \notin SyncCallers
ASSUME CpusetsAssumption == \A mask \in Cpusets : mask \cap AffinityCPUs # {}
ASSUME GroupsAssumption ==
  /\ TaskGroups \cap {root_task_group, None, "nothing"} = {}
  /\ \A waited \in SUBSET Readers : waited # None
  /\ \A making \in [group : Groups, next : 1..4] : making # None
(* One processor is in the domains for ever, and there is room for a root  *)
(* domain more than the processors need (alloc_rootdom() is BuildFails).   *)
ASSUME MachineAssumption ==
  /\ IsFiniteSet(MachineCPUs) /\ MachineCPUs \subseteq Nat
  /\ MachineCPUs \ (MachineRemovable \cup Isolated) # {}
  /\ \A f \in [MachineCPUs -> Roots \cup {def_root_domain}] :
       \E r \in Roots \ {def_root_domain} : \A c \in MachineCPUs : f[c] # r
(* Threads of a core, and cores of a node, are together; without           *)
(* CONFIG_NUMA there is one node.                                          *)
ASSUME TopologyAssumption ==
  /\ NODES_PER_DOMAIN \in Nat \ {0} /\ Scale \in Nat \ {0} /\ Gain \in Nat
  /\ \A t \in Topologies :
       /\ t.smt \in BOOLEAN /\ t.mc \in BOOLEAN /\ t.numa \in BOOLEAN
       /\ \A c, d \in MachineCPUs : /\ t.thread[c] = t.thread[d] => t.core[c] = t.core[d]
                                    /\ t.core[c] = t.core[d] => t.node[c] = t.node[d]
                                    /\ ~t.numa => t.node[c] = t.node[d]
       /\ \A c \in MachineCPUs : t.node[c] \in Nat
ASSUME LoadAssumption == IsFiniteSet(LoadTasks) /\ CPUs \ Removable # {} /\ QueueLoads \subseteq Nat
ASSUME TimesAssumption ==
  IsFiniteSet(TimeTasks) /\ None \notin TimeTasks /\ None \notin Groups /\ None \notin Nat /\ HALF \in Nat \ {0}
(* Every accounting group is the root or below it.                         *)
ASSUME TreeAssumption ==
  /\ Parent \in [Groups -> Groups \cup {None}]
  /\ \A S \in SUBSET Groups : S # {} => \E group \in S : Parent[group] \notin S
  /\ \A g, h \in Groups : Parent[g] = None /\ Parent[h] = None => g = h
(* What the prover does not know of powers of two.                         *)
ASSUME PowersAssumption ==
  /\ 2^0 = 1 /\ \A n \in 0..(PERIOD + LONG) : 2^n \in Nat /\ 2^n > n
  /\ \A n \in {WIDTH} \cup {i - 1 : i \in 1..CPU_LOAD_IDX_MAX} : 2^n \in Nat \ {0}
ASSUME PeriodAssumption == PERIOD \in Nat \ {0} /\ TICK \in Nat \ {0} /\ LONG \in Nat
                            /\ Sums \subseteq Nat /\ \A a \in Ages : a \in Int /\ a <= PERIOD + LONG
ASSUME SharesAssumption ==
  /\ GroupLoads \subseteq Nat /\ Settings \subseteq Nat /\ shares_thresh \in Nat
  /\ {MIN_SHARES, NICE_0_LOAD, MAX_SHARES} \subseteq Nat \ {0}
  /\ MIN_SHARES <= NICE_0_LOAD /\ NICE_0_LOAD <= MAX_SHARES
ASSUME ForcedPidsAssumption == ForcedPids # {} /\ ForcedPids \subseteq Nat \ {0}

VARIABLES part, x1, x2, x3, x4, x5, x6, x7, x8, x9, x10, x11, x12, x13

-----------------------------------------------------------------------------
DO == INSTANCE Domains WITH
        CPUs <- MachineCPUs, Removable <- MachineRemovable, Cpusets <- Partitions, topo <- x1, active <- x2, doms_cur <- x3, memory <- x4, attached <- x5, rd <- x6,
        roots <- x7, online <- x8, work <- x9, hotplug <- x10, reader <- x11, tables <- x12,
        stale <- x13
AF == INSTANCE Affinity WITH
        CPUs <- AffinityCPUs, Callers <- AffinityCallers, cpuset <- x1, updating <- x2, cpus_allowed <- x3,
        hashed <- x4, usage <- x5, refcount <- x6, call <- x7
EX == INSTANCE Expedited WITH
        Callers <- SyncCallers, online <- x1,
        section <- x2, refcount <- x3, mutex <- x4, dest_cpu <- x5, done <- x6, queued <- x7,
        answering <- x8, call <- x9
GM == INSTANCE GroupMemory WITH
        Groups <- TaskGroups, heap <- x1, parent <- x2, task_groups <- x3, creating <- x4,
        dying <- x5, reader <- x6, leaked <- x7
NZ == INSTANCE NoHz WITH
        pc <- x1, state <- x2, tick <- x3, recently <- x4,
        cpu_mask <- x5, load_balancer <- x6, need <- x7, ipi <- x8, sends <- x9, powersave <- x10
LA == INSTANCE LoadAvg WITH
        Tasks <- LoadTasks, online <- x1, dead <- x2, place <- x3, nr_uninterruptible <- x4, calc_load_active <- x5,
        calc_load_tasks <- x6, avenrun <- x7
CT == INSTANCE CpuTime WITH
        Tasks <- TimeTasks, curr <- x1, group <- x2, cpustat <- x3, utime <- x4, stime <- x5,
        gtime <- x6, ca_stat <- x7, in_iowait <- x8, nr_iowait <- x9, ticks <- x10
TT == INSTANCE TaskTimes WITH
        utime <- x1, stime <- x2, runtime <- x3, high <- x4, low <- x5,
        prev_utime <- x6, prev_stime <- x7, reader <- x8
CA == INSTANCE CpuAcct WITH
        live <- x1, pieces <- x2, making <- x3, cpuusage <- x4, charging <- x5, access <- x6,
        charged <- x7, torn <- x8
SH == INSTANCE Shares WITH
        Loads <- GroupLoads, shares <- x1, listed <- x2, setting <- x3,
        load <- x4, cfs_shares <- x5, weight <- x6, up <- x7
HT == INSTANCE HrTick WITH
        now <- x1, expires <- x2, key <- x3,
        running <- x4, pending <- x5, csd <- x6, active <- x7, asked <- x8
CL == INSTANCE CpuLoad WITH
        Loads <- QueueLoads, load <- x1, cpu_load <- x2
RP == INSTANCE RtPower WITH
        age <- x1, rt_avg <- x2, pending <- x3, updating <- x4, mixed <- x5, excess <- x6
FR == INSTANCE ForceRun WITH
        Cpus <- CPUs, Pids <- ForcedPids, pid_force_run <- x1, last_p_id <- x2, lock <- x3,
        pc <- x4, arg <- x5
L1 == INSTANCE L1Invalidator WITH
        pc <- x1, EE <- x2, DCFA <- x3, old <- x4, plru <- x5, line <- x6, kept <- x7,
        met <- x8

ASSUME ProcessorsAssumption == CPUs # {} /\ IsFiniteSet(CPUs) /\ CPUs \subseteq Nat /\ None \notin CPUs \cup NZ!Sent
                              /\ None \notin CA!Accesses

-----------------------------------------------------------------------------
Unused12 == x12 = None /\ x13 = None
Unused11 == x11 = None /\ Unused12
Unused10 == x10 = None /\ Unused11
Unused9  == x9 = None /\ Unused10
Unused8  == x8 = None /\ Unused9
Unused7  == x7 = None /\ Unused8
Unused3  == x3 = None /\ x4 = None /\ x5 = None /\ x6 = None /\ Unused7

PrioritiesIdle ==
  task = None /\ alive = None /\ entry = None /\ curr = None /\ held = None /\ waiter = None
  /\ call = None /\ leaked = None

KernelInit ==
  \/ part = "Priorities" /\ Init /\ x1 = None /\ x2 = None /\ Unused3
  \/ PrioritiesIdle /\ \/ part = "Domains" /\ DO!Init
                       \/ part = "Affinity" /\ AF!Init /\ Unused8
                       \/ part = "Expedited" /\ EX!Init /\ Unused10
                       \/ part = "GroupMemory" /\ GM!Init /\ Unused8
                       \/ part = "NoHz" /\ NZ!Init /\ Unused11
                       \/ part = "LoadAvg" /\ LA!Init /\ Unused8
                       \/ part = "CpuTime" /\ CT!Init /\ Unused11
                       \/ part = "TaskTimes" /\ TT!Init /\ Unused9
                       \/ part = "CpuAcct" /\ CA!Init /\ Unused9
                       \/ part = "Shares" /\ SH!Init /\ Unused8
                       \/ part = "HrTick" /\ HT!Init /\ Unused9
                       \/ part = "CpuLoad" /\ CL!Init /\ Unused3
                       \/ part = "RtPower" /\ RP!Init /\ Unused7
                       \/ part = "ForceRun" /\ FR!Init /\ x6 = None /\ Unused7
                       \/ part = "L1Invalidator" /\ L1!Init /\ Unused9

slots == <<x1, x2, x3, x4, x5, x6, x7, x8, x9, x10, x11, x12, x13>>

KernelNext ==
  /\ UNCHANGED part
  /\ \/ part = "Priorities" /\ Next /\ UNCHANGED slots
     \/ /\ UNCHANGED vars
        /\ \/ part = "Domains" /\ DO!Next
           \/ part = "Affinity" /\ AF!Next /\ UNCHANGED <<x8, x9, x10, x11, x12, x13>>
           \/ part = "Expedited" /\ EX!Next /\ UNCHANGED <<x10, x11, x12, x13>>
           \/ part = "GroupMemory" /\ GM!Next /\ UNCHANGED <<x8, x9, x10, x11, x12, x13>>
           \/ part = "NoHz" /\ NZ!Next /\ UNCHANGED <<x11, x12, x13>>
           \/ part = "LoadAvg" /\ LA!Next /\ UNCHANGED <<x8, x9, x10, x11, x12, x13>>
           \/ part = "CpuTime" /\ CT!Next /\ UNCHANGED <<x11, x12, x13>>
           \/ part = "TaskTimes" /\ TT!Next /\ UNCHANGED <<x9, x10, x11, x12, x13>>
           \/ part = "CpuAcct" /\ CA!Next /\ UNCHANGED <<x9, x10, x11, x12, x13>>
           \/ part = "Shares" /\ SH!Next /\ UNCHANGED <<x8, x9, x10, x11, x12, x13>>
           \/ part = "HrTick" /\ HT!Next /\ UNCHANGED <<x9, x10, x11, x12, x13>>
           \/ part = "CpuLoad" /\ CL!Next /\ UNCHANGED <<x3, x4, x5, x6, x7, x8, x9, x10, x11, x12, x13>>
           \/ part = "RtPower" /\ RP!Next /\ UNCHANGED <<x7, x8, x9, x10, x11, x12, x13>>
           \/ part = "ForceRun" /\ FR!DisciplinedNext /\ UNCHANGED <<x6, x7, x8, x9, x10, x11, x12, x13>>
           \/ part = "L1Invalidator" /\ L1!Next /\ UNCHANGED <<x9, x10, x11, x12, x13>>

KernelSpec == KernelInit /\ [][KernelNext]_<<vars, part, slots>>

-----------------------------------------------------------------------------
(* sched_setscheduler(), nice(), fork and priority inheritance: queued and *)
(* running tasks are where their class and key say, and the priority and   *)
(* class in force follow from policy, nice value and inherited priority.   *)
TasksInForce == part = "Priorities" => FiledAsIs /\ PrioInForce

(* __sched_setscheduler() that keeps the policy does not bring back one    *)
(* that was replaced between its check and its lock; set_pid_force_run()   *)
(* that returns has had its effect, whatever its unlocked test skipped, if *)
(* calls that lock the scheduler overlap no other.                         *)
CallsTakeEffect == [][/\ part = "Priorities" => PolicyKept
                      /\ part = "ForceRun" => FR!DoneAtReturn]_<<vars, slots>>

(* partition_sched_domains() and hotplug against each other and against    *)
(* those who balance: root domains count their run queues and know which   *)
(* are online; nobody walks domains that are freed or changed under him;   *)
(* the tables under /proc name domains that are in use.  All this until    *)
(* the array a failed build has left behind is freed again.                *)
DomainsHold == part = "Domains" /\ ~DO!Corrupt => DO!RootsCounted /\ DO!WalksUndisturbed /\ DO!TablesNameDomains

(* sched_setaffinity() racing a cpuset's update: once both are done the    *)
(* task is within its cpuset, and references to it and to the processors   *)
(* are returned on every path.                                             *)
AffinityHolds == part = "Affinity" => AF!AffinityInCpuset /\ AF!ReferencesReturned

(* synchronize_sched_expedited() returns after every section that was open *)
(* when it was called, and posts no request that is still in use.          *)
GraceHolds == part = "Expedited" => EX!GracePeriod /\ EX!RequestSpent

(* Task groups and cpuacct groups that can be found have all their pieces, *)
(* and what a failed creation allocated is returned.                       *)
GroupsWhole ==
  /\ part = "GroupMemory" => GM!WalkersFindGroups
  /\ part = "CpuAcct" => CA!AllOrNothing

(* NO_HZ: the processor that balances for those without a tick has its own *)
(* tick and serves every one of them.                                      *)
IdleBalanced == part = "NoHz" => NZ!OwnerCovers

(* NO_HZ: a processor that halts with TIF_NEED_RESCHED set is woken.       *)
NoLostResched == part = "NoHz" => NZ!NoLostResched

(* Load figures: the load average counts every task once across migration  *)
(* and hotplug, a decayed load moves until it is the load, and real-time is *)
(* within the time it is a share of, but for what updates that overlapped  *)
(* have left of it.                                                        *)
LoadsAreTrue ==
  /\ part = "LoadAvg" => LA!LoadIsTrue
  /\ part = "CpuLoad" => CL!NeverStuck
  /\ part = "RtPower" => RP!RtWithinTotal

(* Times: each tick is booked once for the processor, the task and its     *)
(* groups; the times a task is told are within its run time, but for less  *)
(* than one half of it that is torn, whoever races; a 64-bit usage that is *)
(* charged, or reset, meanwhile is read whole.                             *)
TimesAreTrue ==
  /\ part = "CpuTime" => CT!TicksCountedOnce
  /\ part = "TaskTimes" => TT!PartsWithinRuntime
  /\ part = "CpuAcct" => CA!UsageIsTrue

(* tg_shares_up() racing sched_group_set_shares(): no processor's part is  *)
(* more than what the group has.                                           *)
SharesWithinGroup == part = "Shares" => SH!SharesWithinGroup

(* hrtick_start() from another processor: a tick that was asked for is     *)
(* queued, running, or an interrupt that will queue it is on its way.      *)
TickComes == part = "HrTick" => HT!TickComes

(* Two loops that are done when they end.  build_sched_domains(): the      *)
(* domains a processor has nest, with groups that divide them and have the *)
(* power of their cores, and cover its part unless its nodes disagree on   *)
(* the top level or are out of reach.                                      *)
(* flush_and_invalidate_L1_data_cache(): the buffer pushes all data out of *)
(* a set before it is invalidated, but for one way when lines of the       *)
(* buffer were in the cache.                                               *)
LoopsComplete ==
  /\ part = "Domains" /\ ~DO!Corrupt => DO!DomainsSound
  /\ part = "L1Invalidator" => L1!NothingLost
=============================================================================
