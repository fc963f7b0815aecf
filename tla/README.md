# A TLA+ model of the Linux Kernel Hack Challenge

The repository tries to give one Linux process the machine while its run time
is measured: no other process on its processor, no device interrupts, an L1
cache that is invalidated now and then. It consists of a patch of the Linux
2.6.32 scheduler, a kernel module that drives it, a profiling library for the
measured process, and a test case. This directory holds TLA+ modules for its
own logic and for the scheduler file the patch changes, TLC configurations that
check them on small instances, and TLAPS proofs of the most important results
for all instances.

Paths below are relative to `src/`; `P/` stands for
`FAILED_Linux_kernel_patch_attempt/`.

## 1. Inventory

| Component | Source | State | Operations |
|---|---|---|---|
| set_pid_force_run | `P/scheduler_mod/sched_mod.c` 5412-5433 | `pid_force_run`, static `last_p_id`, a spinlock | one exported function, called at task and at interrupt level |
| os_ctrl | `P/km_os_ctrl/os_ctrl.c`, `os_ctrl_common.h` | command and pid, profile data, `irq_enabled`, three hrtimers, static `last_enable`, `last_cmd` | read and write handlers of `/proc/os_ctrl`, three timer handlers, insmod, rmmod |
| libprf | `FAILED_profiling_lib/libprf.c`, `.h` | stream, status, two time stamps | START_PROFILING, STOP_PROFILING |
| L1-invalidator | `L1_invalidate_Kernel_module/` | the data cache, interrupts enabled, the flush assist bit | one /proc write |
| schedule | `sched_mod.c` 634, 2325-2640, 3157-3223, 5230-5525 | run queues, task states, TIF_NEED_RESCHED, the Big Kernel Lock | schedule() with the patch, wake-up, fork, exit, yield, tick, idle balancing |
| run queue locks | `sched_mod.c` 867-1010, 1741-1800, 2175-2270, 2691-2885, 3066-3110 | the lock of each run queue, references to tasks and mms | task_rq_lock, double_rq_lock, double_lock_balance, context_switch, finish_task_switch, wait_task_inactive |
| wait queues, completions | `sched_mod.c` 5590-6000 | queues of waiters, `done` | wake_up family, complete family, wait_for_completion family, sleep_on family |
| affinity, migration, hotplug | `sched_mod.c` 2059-2127, 3110-3155, 6533-6687, 7060-7770 | `cpus_allowed`, request queues, migration threads, processor phases | sched_setaffinity, set_cpus_allowed_ptr, sched_exec, migration_thread, migration_call |
| expedited grace periods | `sched_mod.c` 10884-10947 | one request for each processor, a mutex | synchronize_sched_expedited |
| priorities, policies | `sched_mod.c` 1836-2000, 6018-6500, 9660-9716 | policy, nice value, inherited priority, class | nice, setscheduler, PI boosting, fork, normalization by SysRq |
| real-time bandwidth | `sched_mod.c` 150-385, 10090-10592 | period and runtime of each group, the sysctl pair | admission test, cgroup files, sysctl handler, period timer |
| load balancing | `sched_mod.c` 1495-1560, 3173-4510 | loads, groups, domains, failures | find_busiest_group, load_balance, active balancing, newly idle balancing |
| processors without tick | `sched_mod.c` 1164-1248, 4509-4907 | `nohz.cpu_mask`, `nohz.load_balancer` | select_nohz_load_balancer, the kick, wake_up_idle_cpu |
| high resolution tick | `sched_mod.c` 1013-1149 | a timer, `hrtick_csd_pending` | hrtick_start, hrtick, hotplug notifier |
| load and time accounting | `sched_mod.c` 1250-1269, 2973-3062, 3620-3636, 5002-5215, 6793-6824, 10592-10832 | averages, counters | calc_load, update_cpu_load, account_*, task_times, cpuacct files, scale_rt_power |
| task groups, cgroup files | `sched_mod.c` 1565-1680, 9332-9387, 9765-10133 | tree of groups, their shares | create, destroy, attach, set shares, tg_shares_up |
| scheduling domains | `sched_mod.c` 7609-7770, 7781-9240 | domains and groups of each processor, root domains, sysctl tables | build, attach, detach, partition_sched_domains |
| patch baseline | `P/scheduler_mod/sched_orig.c`, `sched_patch` | - | the unpatched file and the diff |
| testcase | `testcase/` | none | a 60 Hz workload between START_ and STOP_PROFILING |
| configuration, documents | `linux-2.6.32/linux.config`, `doc/` | - | - |

### How they interact

The test case calls libprf. libprf opens `/proc/os_ctrl`, writes a command
(the pid, start or stop, and on a start the L1 interval) and reads the profile
back. On a start command the write handler of os_ctrl starts a *kill* timer
(10 s, a constant of os_ctrl.c) and a *reset* timer (900 us, another one),
disables the device interrupts, calls `set_pid_force_run()` with the pid and
starts the L1 timer. `schedule()` reads
`pid_force_run` without a lock: a thread with that pid stays on its processor.
The timer handlers run in hard-interrupt context, on any processor; the reset
handler and the kill handler call `set_pid_force_run(0)`, the kill handler
sends SIGKILL and enables the interrupts. A stop command or a read does the
same from task level.

### What is hard

* `set_pid_force_run()` is called at task and at interrupt level, takes its
  lock with interrupts on, and tests and saves a static variable outside it.
* The commands, the three timers and the exit of the process come in every
  order; state that a function keeps (`last_enable`, `last_cmd`) goes stale.
* With two processors a handler runs next to a timer handler; the loops over
  the device interrupts have to balance `disable_irq` and `enable_irq`.
* `schedule()` drops the run queue lock in the middle, and the patch makes
  every one of its steps conditional on a value other processors change.
* Wake-ups mark a task TASK_WAKING and choose a processor without any lock.
* Waiters drop the queue lock around `schedule()`; signals, timeouts and
  completions race; a forced thread returns from `schedule()` without having
  slept.
* Affinity changes, load balancing, migration threads and processor hotplug
  move the same tasks.
* Every library call of libprf may fail, before it has reached the module or
  after; one whose failure is not noted in the status is the second stamp.
* The run queue locks are taken in pairs and dropped in the middle of
  `schedule()`; what a context switch leaves behind is finished by the next
  task.
* Balancing works on statistics read without locks; its targets change
  meanwhile.
* A waker of an idle processor and the idle loop each set one flag and test the
  other's; the role of the idle balancer is passed on with atomic operations
  only.
* Task groups, scheduling domains and cpusets are rebuilt while others walk
  them; grace periods decide when memory is free.
* Averages and run times, 64 bits on a 32-bit machine, are read and even changed
  without the lock that others change them under.
* An allocation that fails late leaves a pointer to what was freed.
* Counters (load, IO wait, uninterruptible tasks, usage of groups) are kept on
  one processor for what may end on another.

What makes each component correct is stated by the properties of section 4;
`PROJECT.json` lists the hazards, each at its line.

## 2. Plan

Order: what the patch and the module promise first, then the parts of the
scheduler which the patch disturbs, then the rest of the scheduler.

1. `ForceRun` - the patch's function, statement by statement. Done, proved.
2. `OsCtrl`, with the abstract specification `Protection` it implements. Done, proved.
3. `OsCtrlSmp`, over `ForceRun` - the handlers statement by statement. Done, proved.
4. `LibPrf`, over `OsCtrl`, and `L1Invalidator`. Done, proved.
5. `Schedule`. Done, proved.
6. `RunQueue` - the locks below it. Done, proved.
7. `WaitQueue`. Done, proved.
8. `Migration`, `Affinity`, `Expedited`. Done, proved.
9. `Priorities`. Done, proved.
10. `RtGroups`, `GroupMemory`, `Shares`, `CpuAcct` - task groups. Done, but for
    the throttling by the period timer (section 6); proved.
11. `Balance`, `NoHz`, `HrTick`. Done; `NoHz` and `HrTick` proved. `Balance`
    promises liveness only.
12. `LoadAvg`, `CpuLoad`, `CpuTime`, `TaskTimes`, `RtPower`, `Domains`. Done, proved.

Every safety invariant and action property of a passing run is a theorem. What
is left is to model the power-saving balance (section 6).

## 3. Modules and the code

Each component has a module with its state, an action for each operation and
its properties. `MC*` modules and `.cfg` files hold the instances TLC checks,
`*_proofs` modules the theorems. `PROJECT.json` maps each definition to its
lines. Some definitions are marked as mutants: each is an operation with a
plausible mistake, and shows that a property tells the two apart.

| Module | Models |
|---|---|
| `ForceRun` | the body of `set_pid_force_run()`: Test, Lock, Write, Save, for each level of each processor |
| `OsCtrl`, `Protection` | os_ctrl.c, one action per handler; and what it promises |
| `OsCtrlSmp` | os_ctrl.c, statement by statement, on several processors, over `ForceRun` |
| `LibPrf` | libprf.c, call by call, over `OsCtrl` |
| `L1Invalidator` | the flush, instruction by instruction, on the lines of one set |
| `Schedule` | schedule() and its competitors |
| `RunQueue` | the run queue locks and the context switch |
| `WaitQueue` | wait queues, completions, sleep_on |
| `Migration` | affinity, migration threads, hotplug |
| `Affinity` | the affinity system calls against cpusets and exit |
| `Expedited` | expedited grace periods |
| `Priorities` | policies, nice values, priority inheritance, fork |
| `RtGroups` | the tree of groups with its real-time bandwidth, and the moves of tasks |
| `GroupMemory` | allocation and release of a group, piece by piece |
| `Shares`, `CpuAcct` | shares of a group on its processors; usage of a group, read while it is charged |
| `Balance` | load balancing between processors |
| `NoHz`, `HrTick` | processors without tick; the high resolution tick |
| `LoadAvg`, `CpuLoad`, `RtPower` | load average, load of a queue, power left by real-time tasks |
| `CpuTime`, `TaskTimes` | where ticks are booked; the times user space is told |
| `Domains` | scheduling domains, root domains, their rebuilding |

**ForceRun.** A context is a level (task, irq) of a processor. With
CONFIG_PREEMPT_NONE task-level kernel code only leaves its processor by
blocking, so that one context per level is enough; an interrupt level runs
before the task level of its processor. `DisciplinedSpec` restricts the
callers as a driver could: a call that locks overlaps no other.

**OsCtrl.** Variables have the names of the C variables; `timer` holds the
states of the three hrtimers, `alive` and `csw` the processes and their context
switch counters. `Write`, `Read`, `L1Fires`, `ResetFires`, `KillFires`, `Load`,
`Unload` each are the whole handler, `set_os` and `set_pid_force_run` included.

**OsCtrlSmp.** Each context runs a program, a sequence of the statements of a
handler; `Program` gives it for each command, read and timer. Statements of
`set_pid_force_run()` are the actions of `ForceRun`. Each device interrupt has
the nesting depth that `disable_irq()` keeps.

**LibPrf.** Control points of START_PROFILING and STOP_PROFILING, with the
failure of each library call. A stop command that fwrite() or fflush() did not
bring to the module is lost or waits in the stream; then fread() sends it first
(`StopReflush`). fread() may fail before the handler of the module runs
(`StopReadFails`). If a stamp could not be taken (`started`, `timed`), ELAPSED()
comes to anything in `Strays`. The clock advances with the measured code, the
L1 handler and the system calls; the numbers are scaled (a second is 4, a long
holds -9..8), as only their comparisons matter.

**L1Invalidator.** Which of the eight ways of one set still hold what was there
before, the bits of the pseudo LRU tree, and what the instructions do to them;
interrupts write data while they are enabled. What a way held before is left
open: any `dcbz` may meet its line in one of the old ways, as nothing says that
the memory from kmalloc() is not cached. The processor is external: the tree and
the flush assist follow what the comments of the source say of the e500. This
part has its real size, and no parameters.

**Schedule.** `schedule()` is split where the run queue lock is dropped and
where the patch branches: Enter (the test of `pid_force_run`, release of the
BKL), Locked or LockedBlocked (from the lock to the switch), Balance
(idle_balance), Post (reacquire), Recheck (need_resched). Wake-ups are split at
TASK_WAKING. Everything under a run queue lock is one step.

**RunQueue.** What `Schedule` takes as one step is split here: an actor holds,
waits for or drops single locks, in the order of `double_rq_lock()` or unfairly
as `double_lock_balance()` does without CONFIG_PREEMPT; `ContextSwitch` and
`FinishTaskSwitch` are apart, with `on`, whose stack a processor is on, and the
counts of tasks and mms between them. A wake-up gives the lock up at TASK_WAKING
(`BeginWaking`), moves the task without any (`SetTaskCpu`), and locks the run
queue it has chosen (`Activate`). A watcher runs wait_task_inactive().
`unpinned` remembers who was given a lock while his task was in TASK_WAKING, and
`astray` that somebody decided about a task that had so left the queue he holds.

**WaitQueue.** What runs under the queue lock is one step: Wait (enqueue), Loop
(state, unlock), Sleep and return from schedule(), Take or Dequeue. `done` is
bounded by `2 * Half + 1` as an unsigned int is.

**Migration.** What runs under a run queue lock is one step. The migration
thread is split at its state change, the look at its queue, `__migrate_task()`
and `complete()`. The phases of a processor follow migration_call():
CPU_UP_PREPARE, CPU_ONLINE, CPU_UP_CANCELED, CPU_DYING and CPU_DEAD, the latter
task by task, with the choice of a destination apart from the move, as the lock
is not held between. `stop_machine()` is kernel/cpu.c: a processor dies only
while no thread is in a stretch that does not give its processor up, which
includes a wake-up and a forced thread.

**Affinity.** A call goes from find_process_by_pid() over the permission checks
and cpuset_cpus_allowed() to set_cpus_allowed_ptr() and looks again at the
cpuset; the cpuset changes its mask and then its tasks; the task exits. The
counts of references to the task and to the set of processors are kept.

**Expedited.** A caller notices how many have come before it, posts a request
to every migration thread and collects the answers. The set of the read-side
sections that were open at the call is remembered, for the property only.

**Priorities.** A task is a record of policy, parameters, priorities, class and
weight; `entry` says under which class and key it is queued. A call of
setscheduler is split into its check without the lock, the lock, and the
recheck that starts again; everything under the lock is one step.

**RtGroups.** The admission test is `tg_schedulable()` as a walk of the tree.
What the walk cannot see - a group off its list while its shares are set,
sysctl values that a handler may still take back - is what `unsure` records.

**GroupMemory.** A creation allocates the pieces of a group in the order of the
code and may fail at each; `heap` is what is allocated, `leaked` what nobody can
free any more. Readers hold a group they found.

**Shares, CpuAcct.** tg_shares_up() reads the weights and writes the parts as
separate steps; setting shares takes the group off its list, waits, sets each
processor and puts it back; the comparison with the threshold, outside the
lock in the code, is one step with the update, as it only decides whether there
is one. A charge of a 64-bit usage is two writes on a 32-bit machine, under the
lock of the run queue. Any number of readers and writers go from processor to
processor at a time, each holding the lock of one processor at a time. Of a
total that a reset meets only the upper bound is claimed: no more than was
charged before and during the call.

**Balance.** Statistics of the groups, imbalance, busiest queue and the choice
of tasks are operators that follow the code, integer division included. A
balancer reads them in one step, checks the other queue, and pulls under both
locks in a third. In the run one processor is in load_balance() at a time
(`AtOnce` = 1): what makes its statistics stale is active and newly idle
balancing, and tasks that come and go. Which tasks are cache hot, which task of
a queue runs and the order of the list are left open.

**NoHz.** The idle loop step by step (enter, tick stopped, polling cleared, last
look at need_resched, halt), the senders of wake-ups between setting the flag
and testing for polling, the balancer's claim and release, hotplug.

**HrTick.** The timer with the key it was queued with, the flag that an
interrupt is pending, and the interrupt itself.

**Accounting.** `LoadAvg` keeps per processor what was last added to the global
count, as tasks block here and wake there and processors die; `CpuTime` books
each tick and each change of `nr_iowait`; `TaskTimes` splits the two
assignments of a reader, which takes no lock, and the run time into halves that
are written and read one after the other; `RtPower` lets any who age the average
overlap, one with the lock and the others without, and leaves open (`Ages`,
`Sums`) what two that overlapped have left; `CpuLoad` is the arithmetic.

**Domains.** Construction is a function from a topology to the domains, groups
and powers of a processor, with the degenerate ones dropped. Detach, the wait
for a grace period, free, build, attach and the tables are steps of
partition_sched_domains(); hotplug rebuilds as well, and walkers hold domains.
A build may fail before or after the array of node groups is entered for its
first processor; in the latter case the entry stays (`stale`), and when the
domains there are freed, the array is walked and freed again
(`free_stale_groups`), with anything lost in `memory`. What a kernel does after
that is not modelled.

**Kernel** composes sixteen parts that share no state and are only checked side
by side: the variable `part`, chosen at the start, says which one moves, its
variables are the first of `x1` to `x12`, and the rest keep `None`. The number
of states is the sum of those of the parts. `MCKernel` gives its constants their
values. **Queues** does the same for `RunQueue` and `RtGroups`, with
`MCRunQueue` for the values.

## 4. Runs

| Run | Instance | States | Question |
|---|---|---|---|
| `OsCtrl_protocol` | 2 pids | 75,592 | commands, timers, exits in every order |
| `OsCtrlSmp_handlers` | 2 processors, 2 device interrupts | 16,086 | the same, statement by statement |
| `LibPrf_users` | 2 users | 8,483,334 | is a reported measurement true and protected |
| `Schedule_smp` | 2 processors, 2 processes | 597,516 | is schedule() with the patch still a scheduler, and does it return |
| `RunQueue_groups` | 2 processors, 3 tasks, a watcher; 2 groups, a task, a writer | 2,884,823 | do the locks protect what they should; is admitted bandwidth there |
| `WaitQueue_completion` | 2 threads | 588,060 | is no token lost, are no waiters stuck |
| `Migration_hotplug` | 2 processors, 2 tasks | 2,519,718 | requests, affinity and hotplug together |
| `Balance_smp` | 3 processors, 3 tasks, flat or two nodes | 112,835 | does an idle processor get work |
| `Kernel_parts` | sixteen parts, mostly 2 processors | 3,382,305 | the rest of the scheduler, part by part |
| `ForceRun_selfdeadlock` (violated) | 1 processor | until violated | does every call return |
| `OsCtrl_restart` (violated) | 2 pids | until violated | does a start command protect |
| `Schedule_stuckbkl` (violated) | 1 processor, a BKL user | until violated | does schedule() return to a BKL holder |

**What they show.** A property of a run may be a conjunction of the properties
of a module; the parts are named here.

*OsCtrl.* `Consistent`: a locked scheduler or silent interrupts are backed by
both watchdogs (`Watched`), the next stop is not taken for a repetition
(`PendingMeansDisabled`), a profile is delivered once (`ProfileOnce`).
`StopRestores`, `Released` (liveness), and `Protected`, the refinement of
`Protection`: owner, silence and watchdog come together and go together.

*OsCtrlSmp.* `HandlersSound`: no order of statements and interrupts leaves a
protection without a watchdog (`Backed`), and flag and nesting depth agree for
each interrupt outside the loops (`IrqsAgree`). `Restores`: a stop command, when
it returns, has restored the machine. `Settled`: when no call is in progress
`last_p_id` equals `pid_force_run`, so that the unlocked test skips only calls
that would change nothing; the handlers themselves provide the discipline this
needs.

*LibPrf.* `ResultsTrue`: status success implies no context switch, what is
reported is the time the code took if the second stamp could be taken, and a
measurement whose start succeeded runs under the lock until a watchdog fires.
`StopReturnsTheMachine`: on every path of failures the machine is free when
STOP_PROFILING returns, or the status is LIBPRF_ERR_READ, nothing has reached
the module, and both watchdogs back what is still locked.

*Schedule.* `QueuedOnce` (no lost wake-up; nobody is current twice),
`BklHeldByRunner`, `NoSwitchWhileForced`, `ReturnsWithoutBkl` (liveness: once
reschedules are no longer asked for, a processor inside `schedule()` comes out
of it, with an idle thread or a process, unless what it goes on with holds the
Big Kernel Lock, the case `Schedule_stuckbkl` shows).

*RunQueue.* `LockHoldsTask`: whoever has what task_rq_lock() returned holds the
lock of the queue the task is on, unless the task was being woken when it was
given. `LocksAcyclic`. `SwitchCountsReferences`: a
dead task is dropped once and when nobody is on its stack, an mm is counted for
its users and its borrowers. `InactiveStaysOff`: what wait_task_inactive()
reports is true. All but `LocksAcyclic` hold until somebody has decided about a
task that had left the queue he holds (`astray`), which ends the exploration
(`StillPromised`).

*RtGroups.* `BandwidthAdmitted`: children have no more than their parent, nobody
more than the global setting, and a refused write of the sysctl files leaves
nothing behind. `NobodyStarves`: no real-time task is in a group without
runtime. Neither is promised after an admission test that could not see a group
(`unsure`), which ends the exploration as well, or for a task whose check
was overtaken (`stale`).

*WaitQueue.* `WaitersSound`: tokens are neither lost nor taken twice, nothing of
a dead stack frame is linked, nobody leaves in a sleeping state - but the forced
thread, which does return from `schedule()` in one. `InOrder`, `Delivered`
(liveness).

*Migration.* `WellPlaced`: a running task is where it is accounted to
(`RunsWhereItIs`), the migration thread that is woken through a pointer read
again without the lock exists (`MtIsThere`), and outside the two races below a
task is on an allowed processor or somebody is asked to move it
(`ObeysAffinity`). `Served`: the request on a caller's stack is linked, or in
the hand of a migration thread, exactly while the caller waits
(`RequestsAreAwaited`), and no request is overlooked by a migration thread that
goes to sleep, and no answer by its caller (`Answered`). `NobodyLeftBehind`.
`ForcedStays`: none of this moves a measured task.

*Balance.* `AlikeConserving` (liveness): when all tasks have the same weight no
processor stays idle for ever while another has two tasks of which one could
run there, one of them pinned or not.

*Kernel parts.* The composite properties of `Kernel` say which part each speaks
of. Among them: `CallsTakeEffect` (a check of setscheduler before its lock does
not decide on stale policies; set_pid_force_run() in the disciplined case),
`TasksInForce` (a queued task is found under its class and key), `AffinityHolds`
(calls and cpuset updates mixed leave the task in its cpuset), `GraceHolds` (an
expedited grace period is one), `GroupsWhole`, `DomainsHold` (root domains are
counted, and nobody walks domains that are freed, until an array that a failed
build has left behind is freed again), `IdleBalanced` (the owner of the idle
balancing has its tick and covers all others), `NoLostResched`, `LoadsAreTrue`
(the load average counts every task once; a decayed load is never stuck; the
real-time average is within the total but for what an overlap left above it,
halved with every period), `TimesAreTrue` (each tick is booked once; no part of
a run time exceeds it by one half of the number, 2^32 ns, or more; a usage is
made of values the group had), `SharesWithinGroup`, `TickComes`, `LoopsComplete`
(the domains that are built nest, their groups divide them and have the power of
their cores, and the last one is the part, unless its nodes disagree or are out
of reach; the flush pushes the data of a set out; see below for what each may
leave).

**Disagreements found.** Three are runs:

* `ForceRun_selfdeadlock`: a watchdog that fires on the processor that holds the
  spinlock of `set_pid_force_run()` spins for ever.
* `OsCtrl_restart`: after a watchdog, a read or an exit has ended a protection,
  the next start command is skipped as a repetition.
* `Schedule_stuckbkl`: a forced BKL holder waits for itself.

The others are stated next to the properties that hold, as definitions which TLC
refutes when they are named in the `.cfg` of the module's run (those of the
parts of `Kernel` need a definition there, as its other properties have):

| Definition | Source | What the code does |
|---|---|---|
| `LibPrf` L1IsCompensated | os_ctrl.c 325 | L1 time outside the two time stamps is subtracted from the measured time too |
| `LibPrf` SuccessMeansTimed | libprf.h 18, 23; libprf.c 84 | a stop whose clock_gettime() fails prints a message, and may return success with the time to a stamp of an earlier call |
| `LibPrf` StopAlwaysFrees | libprf.c 125 | a stop may fail to write and to read, and leave the machine to the watchdogs |
| `RunQueue` LockPins, StacksApart | sched_mod.c 943, 2382 | a task in TASK_WAKING is given a processor with no run queue lock: who holds what task_rq_lock() returned may not have the task, wait_task_inactive() may report one that runs elsewhere, and, without the CONSTRAINT, a wake-up queues a task whose stack another processor is still on |
| `Migration` ScheduledAway | sched_mod.c 7081 | set_cpus_allowed_ptr() on a task in TASK_WAKING has no effect; nor has a request to a destination that is online but on its way down, which `__migrate_task()` refuses without telling the caller |
| `Priorities` ForkReverts | 2545 | a child that reverts to the default policy keeps the real-time priority of its parent until it is set anew |
| `RtGroups` SumWithinParent | 10210, 10216 | the admission test misses a group that is off its list while its shares are set, and sysctl values a handler may take back |
| `Balance` Conserving | 4460 | with unequal weights the imbalance may round to nothing, for ever |
| `Domains` RecordedIsBuilt | 9016 | a partition whose domains could not be allocated is recorded, and left as it is the next time |
| `Domains` FreedOnce | 8642, 8672 | a build that fails late frees the array of node groups, which stays entered and is freed again with the domains of the next one |
| `Domains` AllnodesBuilt | 8699 | whether the groups of the top level are built is what the last processor of the part asked for: where nodes differ in size, others have that level without groups |
| `Domains` PartsReached | 8721 | the span of a node level has as many nodes as the limit allows, also when the part has more but not more processors than the limit times those of the node: nodes far away are then in no domain of it |
| `GroupMemory` NothingLeaked | 9986 | a run queue whose entity could not be allocated is entered nowhere and not freed |
| `GroupMemory` CreationEnds | 9854 | a creation that fails early cancels a period timer that was not initialised |
| `NoHz` MaskIsOnline, Nominated | 4655 | a processor may go offline and stay in the mask; nobody may be nominated by a busy tick |
| `TaskTimes` TotalGrows | 5204 | with readers that race the sum of the two times that are told shrinks |
| `TaskTimes` PartsWithinExactly | 5187, 5208 | a run time that is read while its halves are written may be more than the task has run, and is kept as a maximum |
| `HrTick` QueueInOrder | 1093 | the expiry of a timer is changed while it is queued |
| `L1Invalidator` AllFlushed | L1-invalidator.c 15 | twelve lines push all data out of eight ways if none of them is in the cache; if some are, the tree may turn so that one way keeps its data, which is then invalidated (thirteen would be enough) |
| `RtPower` AvailableIsLeft | 3627 | real-time may have had more than the total by less than a tick: the rest is unsigned |
| `RtPower` NeverAbove | 3626 | updates that overlap may leave more than that above the total |

Besides, `synchronize_sched_expedited_count` is never advanced past what a
caller read, so that the early return at 10915 is never taken; and the assembly
of L1-invalidator.c changes a register that it declares as an input, so that the
compiler may free another pointer than the one allocated.

**Bounds.** Two processors are CONFIG_NR_CPUS. Two processes are enough for a
forced one and one that wants its place; two waiters for an order, two callers
for an affinity that changes while a request is under way. Context switches come
by 1, or by 200 and 256 where the byte the count is cut to matters. `MaxCsw`
bounds the counters, `MaxPosts` the calls of complete() between two resets,
`Half` is 2, which already lets `done` wrap. In `Migration_hotplug` one
processor may go offline (processor 1 is the boot processor), one task is
measured and one sleeps for reasons of its own. With two processors a caller can
never meet a processor that dies while it is between its unlock and its wake-up,
because the only other processor is its own: `MtIsThere` speaks of this
configuration, is proved for it (`TwoProcessors`), and is not claimed for more.
For the same reason the second look of `move_task_off_dead_cpu()` is not taken.

`RunQueue_groups`: a third task makes two switches race over what the first
left; two groups are siblings or nested; a runtime is none, half of the period
or INF. With two processors a wake-up can only choose the source or the
destination of a migration that is under way, so that the race of
`__migrate_task()` with a wake-up to a third is only in the proofs. A wake-up of
one of the two tasks that never sleep would only take a lock, and is left out
(`SleepersWoken`). Tasks and groups that are treated alike are exchanged by
symmetry, in a run without liveness. `Balance_smp` needs a third processor for a
balancer whose busiest queue is emptied by another; its weights are those of
alike tasks, one twice as heavy, and one that hides the others; `Tries` 0 makes
active balancing come at once, `AtOnce` is 1. `LibPrf_users`: one stray elapsed
time (`Strays`) below zero and one content of the reply that was never written
(`Garbage`); the proofs are about all. `Kernel_parts`: three processors where
masks have to overlap (`Affinity`), four where nodes have to contain threads
(`Domains`: two nodes of two threads, three nodes of which one is out of reach
when a domain spans two (`NODES_PER_DOMAIN`), and no node or thread at all; the
partitions are none, all four with another attribute, three, and two that split
the nodes); two readers of a time or of a usage, one of whom may reset it while
the other reads; halves that carry at 2, and at most `MaxUsage` = 2 charged
since a reset or since a read began; ticks, times and loads bounded by the
constants. A period of the real-time average is as long as a tick (4), an idle
clock stands still for two (`LONG`); an overlap leaves a stamp ahead of the
clock, at it, or a period and a half behind (`Ages`), and a sum of nothing or of
more than any total (`Sums`). Scaled constants (`Full`, `FIXED_1`, `PERIOD`,
`Scale`) keep the proportions that the code's comparisons use.

**Deadlock** is checked in `OsCtrl_protocol`, `OsCtrl_restart` and
`LibPrf_users`. The others may stop: a machine that spins, or has nothing left
to do (`ForceRun_*`, `Schedule_*`, `OsCtrlSmp_handlers`), threads that all sleep
when the posts are used up or nobody wakes them (`WaitQueue_completion`,
`Migration_hotplug`), counters at their bound (`Kernel_parts`,
`RunQueue_groups`), balanced queues (`Balance_smp`).

**Fairness.** `ForceRun`: an interrupt handler goes on until it ends (weak), a
task goes on whenever interrupts leave it the processor infinitely often
(strong). `OsCtrl`: an enqueued hrtimer fires (weak). `Schedule`: code in
`schedule()` goes on and the watchdog resets a lock; in `Returns`, reschedule
requests stop. `WaitQueue`: a thread that could run does. `Balance`: the tick
raises the softirq, so every interval of every level elapses again and again;
load_balance() ends; the migration thread has real-time priority and answers;
and the tasks of a queue take turns on their processor, so that a balancer that
comes back again and again does not each time find the one task it could move
running (strong, on the pull). The other modules have no liveness
property: `Answered`, `NoLostResched` and `TickComes` state as invariants what
keeps a request from being forgotten.

## 5. Proofs

| Module | Theorem | Argument |
|---|---|---|
| `LibPrf_proofs` | TypeCorrect, WatchedHolds, PendingMeansDisabledHolds, ProfileOnceHolds, ConsistentHolds, StopRestoresHolds, ImplementsProtection | the scheduler is locked exactly while the reset timer is pending, and both copies of the pid agree |
| `OsCtrlSmp_proofs` | HandlersSoundHolds, SettledHolds, RestoresHolds | what a context has still to execute is the end of the program it runs; which kind of program holds which loop, and that at most one context is inside `set_pid_force_run()` |
| `LibPrf_proofs` | ResultsTrueHolds, StopReturnsTheMachineHolds | a step of libprf is a step of os_ctrl or leaves it alone; what each control point knows of the commands it has written; the two stamps and the clock, if both are there |
| `Schedule_proofs` | TypeCorrect, RunnableIsQueuedHolds, OneProcessorHolds, QueuedOnceHolds, BklHeldByRunnerHolds, NoSwitchWhileForcedHolds | where a thread that is not current may be; when a process is dequeued though current; where the BKL holder is; that the forced process has computed `sched_block` before every use |
| `Migration_proofs` | TypeCorrect, RunsWhereItIsHolds, NobodyLeftBehindHolds, ForcedStaysHolds, ServedHolds, ObeysAffinityHolds, WellPlacedHolds | a waker chooses an online processor, and only for a task that is not queued; one processor at a time changes its phase; the scan has still to come to every task of the dying processor; each request is linked once and belongs to a caller that waits; whoever is where it may not be has a request on the way |
| `WaitQueue_proofs` | WaitersSoundHolds, InOrderHolds | enough waiters are runnable for the tokens there are; where a thread may be in each of its calls; a waiter joins behind all others and only complete() posts one token |
| `Queues_proofs` | LocksInvariant, LockHoldsTaskHolds, LocksAcyclicHolds, SwitchCountsReferencesHolds, InactiveStaysOffHolds | which locks each actor holds at each point; where the threads of a processor are; a waking task has one waker, who has no lock; a dead task is known to one processor only, the last; a borrowed mm is counted from the switch to the drop |
| `Queues_proofs` | BandsInvariant, BandwidthAdmittedHolds, NobodyStarvesHolds | the groups in use are a tree without loops, so a walk meets all of them; `def_rt` keeps the values in force until the handler has decided; where a task goes has been checked, or the task is stale |
| `Kernel_proofs` | TasksInForceHolds, CallsTakeEffectHolds, AffinityHoldsAlways, GraceHoldsAlways, GroupsWholeHolds, IdleBalancedHolds, NoLostReschedHolds, TickComesHolds, SharesWithinGroupHolds, LoadsAreTrueHolds, TimesAreTrueHolds | one section for each part; a behaviour is one of the part that was chosen |
| `KernelLoops_proofs` | DomainsHoldAlways | stage by stage, what partition_sched_domains() has still to detach and to build, until a stale array is freed |
| `KernelLoops_proofs` | LoopsCompleteHolds | a tower of levels, each whole for the groups of its level; a count of the accesses below each node of the tree |

The assumptions are those on the constants, named where they are declared, and
TLC evaluates them in every run: pids are positive numbers, `MaxCsw` is a
number, processors are a finite set and `None` is none of them, and so on.
`None` and similar marks are none of the values they are told apart from
(`NoneAssumption`, `ProcessorsAssumption`, `GroupsAssumption`).
`MachineAssumption` says that one processor is neither removable nor isolated
(the boot processor is not removable; if all were isolated, the rebuild after a
hotplug would allocate a root domain that nobody joins and nobody frees), and
that there is always room for one root domain more than run queues can use.
`TopologyAssumption` says what the hardware's masks are: threads of a core are
in one package, cores of a package in one node. `WellPlacedHolds` has a
hypothesis of its own, `TwoProcessors`, which is CONFIG_NR_CPUS.

Each invariant is proved by the three facts Init => IInv, IInv /\ [Next]_vars =>
IInv' and IInv => Inv. None of the safety properties is inductive alone.
*Watched*: a stop command that is taken for a repetition would leave the machine
locked, so the invariant must say that a pending watchdog excludes this.
*ResultsTrue*: a late flush by fread() and a failed one leave the commands that
were accepted in different states, so the invariant says at each control point
which command the module saw last (`ReadOnce`), and what its counters will tell
(`CountersTell`); Elapsed is only computed where both stamps are of this
measurement. *StopReturnsTheMachine*: a read that reaches the module frees it,
and where neither write nor read did, *Watched* is all there is. *OneProcessor*:
pulling tasks is harmless only because a process off its processor is parked
behind its switch. *NobodyLeftBehind*: a task can only be missed by the scan if
it arrives afterwards, so the invariant must say that everything that moves
tasks, a waker's old choice included, moves them to processors that are online.
*NoLostToken* counts the threads that will look at `done`; what each step keeps
is `AwakeEnough`, that as many waiters are TASK_RUNNING as there are tokens or
all of them are, because complete() wakes only those who are not and a waiter
goes back to sleep only when there is no token. *NoLostResched*: an idle
processor that has halted over a request may owe its wake-up to a sender that
has not sent yet, so the invariant says of every sender what it has still to do.
*TickComes*: a second request sends no interrupt, so the invariant must say that
the pending flag implies one. *HandlersSound*: between two statements of a
handler nothing of what it promises is true, so the invariant gives, for every
rest of every program, what is still to come: who is inside the loops over the
interrupts, and whether the watchdog that is to back the protection is yet to be
started. *Served*: a migration thread takes a request off its queue before it
answers, so the invariant follows the request from the stack of the caller
through the queue into the hand of the thread, and says that no other thread has
it. *GraceHolds*: a count of callers read before the mutex may be old, so the
invariant says that nobody's requests are posted without the mutex and that each
open section holds its processor back. *LocksAcyclic*: a processor that waits
for a second lock holds nothing above it, also when `double_lock_balance()` had
to give its own lock up in the middle of `schedule()`, where the invariant must
keep track of `prev` all the same. *LockHoldsTask*: a lock pins a task unless it
is in TASK_WAKING, so the invariant says that a waking task has exactly one
waker (`Waking`), is off every queue and stack, and that only the `unpinned` saw
it so; `RqInv` is the locks for ever, and the rest until `astray`.
*InactiveStaysOff*: a sampled task is off the stacks because the switch is
finished under the lock that the watcher then takes; and a task that leaves the
queue is counted at the next switch, so the invariant says how a task that has
run since, with an equal count, must still be queued or current.
*SwitchCountsReferences*: a dead task is named by the stack, by `prev` and by
the put that follows in turn; the invariant says that these are never on two
processors. *BandwidthAdmitted*: a test says something of all groups only if the
walk meets all of them, which takes the tree; a sum over the children is the
number of units they hold, so a child less, or one more that has nothing, makes
it no larger. *NobodyStarves*: between the check of a task and its move the
group may lose its runtime, so the invariant covers tasks on their way, and the
values that a write of the sysctl files tries out. *TasksInForce*: between the
change of a policy and the check of another caller the old policy is remembered,
so the invariant relates each call in progress to what it has read.

The three that count do so with sums over any finite set of processors, tasks or
groups. A sum is the number of units its members hold, so `UnitsChange` (one
member changes) and `UnitsSplit` (one member apart) are all the arithmetic of
sums there is. *SharesWithinGroup*: tg_shares_up() computes with what it has
read before, so the invariant says that while shares are set only those compute
whom `synchronize_sched()` waits for, that what they took for the group's shares
is no more than it has, and that each weight they have read is within their sum.
*LoadsAreTrue*: `calc_load_tasks` is right only when all have folded; the
invariant says that it is off by exactly what the processors have still to add,
`Drift`, and a task that moves between two processors moves that debt. Of the
real-time average it says that what is accounted and what is not yet are
together within the total and what an overlap has left (`PowerInv`), as an
update that nobody overlaps halves both sides. *TimesAreTrue*: a torn run time
is of two halves neither of which is ahead of the task, so everything that is
computed from it is `Near`; of a usage that is written in two halves neither
half means anything, so the invariant defines what a group has used on a
processor while a half is to come (`Used`), says that a writer's lock covers the
half it has zeroed (`LockHeld`), and that what a reader has and has still to
read is no more than was charged before and since, and no less than was charged
before unless a reset has met it (`ResetsMix`, `ReadSoFar`); that the root group
has every tick needs that a walk up from any group ends at it
(`TreeAssumption`). `PowersAssumption` states the facts about powers of two that
the prover lacks.

*DomainsHold*, until `Corrupt`: repartitioning goes processor by processor while
others walk, and hotplug changes which processors are active between two
repartitions. `DomainsInv` says stage by stage what is left to do: what is
attached belongs to a part that stays or has still to be detached
(`PartsApart`), so a part is built only over processors that nobody is attached
to, also when a build has failed; who walks domains that are detached is one
`synchronize_sched()` waits for (`WalksKnown`); and a root domain without run
queues is the one that is being attached. `PartsReplaced` is the argument about
`partition_sched_domains()`: as the new parts do not overlap, a part that
matches an old one keeps all others off its processors. `RootMoves` is the one
about `rq_attach_root()`, also when a run queue is attached to the root domain
it is on.

*LoopsComplete*: the domains of an attached processor are a function of what it
was attached with, and `BuiltKnown` says that this is a part of the machine with
a topology there is; the rest is about the function. A level is whole for a
processor if its groups, its own first, divide its span and each has the power
of its cores (`DomainSound`). The groups of a level are the classes of the
processor a group is kept at, listed each once from the own one on
(`ListedOnce`); a group's power is a sum over one processor of each group of the
level below, which is a sum over cores again. What the loop of
cpu_attach_domain() drops either has one group or spans what the level below
spans, so that the levels it keeps still nest, each still has two groups, and
the last one spans as much as before. That is the part if nodes agree on the top
level and none is out of reach. For the flush the invariant gives each node of
the tree the accesses and the displaced ways below it: a miss goes to the side a
bit points to and turns it away, a hit may repeat a side but displaces a way
there, so that one side is ahead of the other by no more accesses than ways were
displaced in it (`Turns`). Hence two ways of old data can only be left after at
most eight of the twelve accesses, and one can only be left if there was a hit.

Only model-checked: the liveness properties (Released, Delivered, Returns,
ReturnsWithoutBkl, AlikeConserving, CallReturns), as liveness under fairness and
ENABLED are beyond the prover, and the fairness part of Protected (its safety
part is ImplementsProtection).

## 6. Not modelled

* Which task a scheduling class prefers, and where it puts a woken one: the
  classes are in other files of the kernel; the models leave the choice open.
  Hence also the throttling of a group that has used its runtime: the period
  timer (193) only calls into the real-time class.
* The power-saving balance (CONFIG_SCHED_MC and _SMT, within 3600-3900) and
  `mutex_spin_on_owner()`.
* `kmalloc` in the timer handler (os_ctrl.c 106), which may sleep there or skip
  a flush: allocation in interrupt context is not represented in `OsCtrl`.
* A write between the cancelling of the timers and the removal of the file in
  `Unload` (os_ctrl.c 513): the module loader holds new opens back, but what an
  already open file may do is outside the source.
* The victim of the kill timer when pids are used again (os_ctrl.c 222): pids
  name one process for ever.
* `complete_all()` called twice, with `complete()` twice, wraps `done` to 0
  (5791): `CompleteAll` is only taken once between two resets.
* printk, failures to create /proc files; of the buffering of streams whatever
  is not about when a command reaches the module (libprf.c 115-128). Streams that
  a failure leaves open are not followed to the exit of the process.
* The number of bytes of a write: os_ctrl.c 358 copies `count` bytes into a
  buffer of 13 (`PROCFS_MAX_SIZE`) before it compares `count` with the two
  lengths it knows. The modules have the two commands and, for every other
  length, only the refusal; faults of copy_from_user() are left out, as the
  buffers of libprf are on its stack.
* What follows a decision about a task that had left the locked run queue
  (`RunQueue`), and a second release of the array of node groups (`Domains`).
* The second copy of the scheduler (`sched_orig.c`) and the diff, which
  sched_mod.c repeats; the test workload, a sequential computation; static
  configuration.
