------------------------------ MODULE Schedule ------------------------------
(***************************************************************************)
(* The patched scheduler core (scheduler_mod/sched_mod.c): schedule() with *)
(* the lock set by set_pid_force_run(), and the operations it competes     *)
(* with: wake-ups, ticks, load balancing, fork and exit, and the Big       *)
(* Kernel Lock it releases and takes back.                                 *)
(*                                                                         *)
(* A thread is a process (its pid) or the idle thread of a processor.      *)
(* What runs under a run queue lock is one step.  Which queued task a      *)
(* scheduling class prefers is left open.                                  *)
(***************************************************************************)
EXTENDS Integers

CONSTANTS
  Cpus,      \* the processors
  Pids,      \* the processes; 1 is init, which is never forced
  First,     \* the processes that exist at the start
  BklUsers   \* the processes that take the Big Kernel Lock

ASSUME CpusAssumption == Cpus # {} /\ Cpus \subseteq Nat \ {0}
ASSUME PidsAssumption == Pids \subseteq Nat \ {0} /\ First \subseteq Pids
ASSUME BklAssumption  == BklUsers \subseteq Pids

Swapper(c) == -c
Swappers   == {Swapper(c) : c \in Cpus}
Threads    == Pids \cup Swappers
Pid(x)     == IF x \in Pids THEN x ELSE 0

VARIABLES
  curr,           \* rq->curr of each processor
  cpu,            \* task_cpu() of each process
  on_rq,          \* se.on_rq of each process
  state,          \* task state
  need_resched,   \* TIF_NEED_RESCHED of each thread
  pc,             \* where each thread is inside schedule()
  sched_block,    \* the patch's local variable of schedule()
  preempt_active, \* PREEMPT_ACTIVE in the thread's preempt_count
  bkl_depth,      \* lock_depth >= 0: the process is in a BKL section
  kernel_flag,    \* owner of the BKL spinlock, or 0
  pid_force_run   \* the pid the scheduler is locked to, or 0

lockvars == <<bkl_depth, kernel_flag>>
vars == <<curr, cpu, on_rq, state, need_resched, pc, sched_block,
          preempt_active, lockvars, pid_force_run>>

States == {"NONE", "RUNNING", "SLEEP", "WAKING", "DEAD"}
Labels == {"run",        \* not in schedule()
           "born",       \* forked, not yet woken for the first time
           "enter",      \* at need_resched:
           "nonpreempt", \* at need_resched_nonpreemptible:
           "balance",    \* in idle_balance(), which drops the queue's lock
           "post",       \* behind the context switch
           "recheck"}    \* about to test need_resched()

TypeOK ==
  /\ curr \in [Cpus -> Threads]
  /\ cpu \in [Pids -> Cpus]
  /\ on_rq \in [Pids -> BOOLEAN]
  /\ state \in [Pids -> States]
  /\ need_resched \in [Threads -> BOOLEAN]
  /\ pc \in [Threads -> Labels]
  /\ sched_block \in [Threads -> BOOLEAN]
  /\ preempt_active \in [Threads -> BOOLEAN]
  /\ bkl_depth \in [Pids -> BOOLEAN]
  /\ kernel_flag \in Pids \cup {0}
  /\ pid_force_run \in Pids \cup {0}

(* The processors idle, and the first processes queued somewhere.          *)
Init ==
  /\ curr = [c \in Cpus |-> Swapper(c)]
  /\ cpu \in [Pids -> Cpus]
  /\ on_rq = [p \in Pids |-> p \in First]
  /\ state = [p \in Pids |-> IF p \in First THEN "RUNNING" ELSE "NONE"]
  /\ need_resched = [x \in Threads |-> x \notin Pids]
  /\ pc = [x \in Threads |-> IF x \in Pids THEN "post" ELSE "run"]
  /\ sched_block = [x \in Threads |-> FALSE]
  /\ preempt_active = [x \in Threads |-> FALSE]
  /\ bkl_depth = [p \in Pids |-> FALSE]
  /\ kernel_flag = 0
  /\ pid_force_run = 0

-----------------------------------------------------------------------------
OnCpu(x)       == \E c \in Cpus : curr[c] = x
Queue(c)       == {p \in Pids : on_rq[p] /\ cpu[p] = c}
TaskState(x)   == IF x \in Pids THEN state[x] ELSE "RUNNING"
InBkl(x)       == x \in Pids /\ bkl_depth[x]

(* check_preempt_curr(): the class of the current thread decides; the idle *)
(* class always asks for a reschedule.                                     *)
CheckPreemptCurr(c) ==
  \/ need_resched' = [need_resched EXCEPT ![curr[c]] = TRUE]
  \/ curr[c] \in Pids /\ UNCHANGED need_resched

-----------------------------------------------------------------------------
(* schedule(), by the thread x that is current on c.                       *)

EnterMisplacedRelease(c, x) == \* mutant: the BKL is kept whenever some task is forced
  /\ curr[c] = x /\ pc[x] = "enter"
  /\ sched_block' = [sched_block EXCEPT ![x] = pid_force_run > 1 /\ Pid(x) = pid_force_run]
  /\ kernel_flag' = IF pid_force_run = 0 /\ InBkl(x) THEN 0 ELSE kernel_flag
  /\ pc' = [pc EXCEPT ![x] = "nonpreempt"]
  /\ UNCHANGED <<curr, cpu, on_rq, state, need_resched, preempt_active, bkl_depth,
                 pid_force_run>>

EnterOffByOne(c, x) == \* mutant: the smallest pid that can be forced is 3
  /\ curr[c] = x /\ pc[x] = "enter"
  /\ sched_block' = [sched_block EXCEPT ![x] = pid_force_run > 2 /\ Pid(x) = pid_force_run]
  /\ kernel_flag' = IF ~sched_block'[x] /\ InBkl(x) THEN 0 ELSE kernel_flag
  /\ pc' = [pc EXCEPT ![x] = "nonpreempt"]
  /\ UNCHANGED <<curr, cpu, on_rq, state, need_resched, preempt_active, bkl_depth,
                 pid_force_run>>

(* need_resched: the patch looks at the lock, without any lock, and a      *)
(* blocked thread keeps the BKL.                                           *)
Enter(c, x) ==
  /\ curr[c] = x /\ pc[x] = "enter"
  /\ LET block == pid_force_run > 1 /\ Pid(x) = pid_force_run
     IN  /\ sched_block' = [sched_block EXCEPT ![x] = block]
         /\ kernel_flag' = IF ~block /\ InBkl(x) THEN 0 ELSE kernel_flag
  /\ pc' = [pc EXCEPT ![x] = "nonpreempt"]
  /\ UNCHANGED <<curr, cpu, on_rq, state, need_resched, preempt_active, bkl_depth,
                 pid_force_run>>

PickNobody(c, queue) == \* mutant: the idle class has no task to offer
  IF queue # {} THEN queue ELSE {0}

(* pick_next_task(): one of the queued tasks, else the idle thread.        *)
PickNextTask(c, queue) == IF queue # {} THEN queue ELSE {Swapper(c)}

(* The switch, unless the thread itself is picked again.                   *)
SwitchTo(c, x, queue) ==
  /\ \E next \in PickNextTask(c, queue) : curr' = [curr EXCEPT ![c] = next]
  /\ pc' = [pc EXCEPT ![x] = "post"]

(* A sleeping thread leaves the queue unless a signal is pending or it is  *)
(* only being preempted; a blocked one stays in any case.                  *)
Sleeps(x) == TaskState(x) # "RUNNING" /\ ~preempt_active[x]

LockedKeepsResched(c, x) == \* mutant: TIF_NEED_RESCHED is never cleared
  /\ curr[c] = x /\ pc[x] = "nonpreempt" /\ ~sched_block[x]
  /\ UNCHANGED need_resched
  /\ on_rq' = IF Sleeps(x) THEN [on_rq EXCEPT ![x] = FALSE] ELSE on_rq
  /\ LET queue == {p \in Pids : on_rq'[p] /\ cpu[p] = c}
     IN  \/ queue # {} /\ SwitchTo(c, x, queue)
         \/ queue = {} /\ pc' = [pc EXCEPT ![x] = "balance"] /\ UNCHANGED curr
  /\ UNCHANGED <<cpu, state, sched_block, preempt_active, lockvars, pid_force_run>>

(* need_resched_nonpreemptible, in the normal case: clear the request,     *)
(* dequeue, and pick a thread, or look for one elsewhere first.            *)
Locked(c, x) ==
  /\ curr[c] = x /\ pc[x] = "nonpreempt" /\ ~sched_block[x]
  /\ need_resched' = [need_resched EXCEPT ![x] = FALSE]
  /\ \/ /\ Sleeps(x)
        /\ on_rq' = [on_rq EXCEPT ![x] = FALSE]
        /\ UNCHANGED state
     \/ /\ Sleeps(x) /\ TaskState(x) = "SLEEP"   \* signal_pending_state()
        /\ state' = [state EXCEPT ![x] = "RUNNING"]
        /\ UNCHANGED on_rq
     \/ /\ ~Sleeps(x)
        /\ UNCHANGED <<on_rq, state>>
  /\ LET queue == {p \in Pids : on_rq'[p] /\ cpu[p] = c}
     IN  \/ queue # {} /\ SwitchTo(c, x, queue)
         \/ queue = {} /\ pc' = [pc EXCEPT ![x] = "balance"] /\ UNCHANGED curr
  /\ UNCHANGED <<cpu, sched_block, preempt_active, lockvars, pid_force_run>>

(* The same stretch of a blocked thread: it is its own successor.          *)
LockedBlocked(c, x) ==
  /\ curr[c] = x /\ pc[x] = "nonpreempt" /\ sched_block[x]
  /\ \/ UNCHANGED state
     \/ /\ Sleeps(x) /\ TaskState(x) = "SLEEP"
        /\ state' = [state EXCEPT ![x] = "RUNNING"]
  /\ pc' = [pc EXCEPT ![x] = "post"]
  /\ UNCHANGED <<curr, cpu, on_rq, need_resched, sched_block, preempt_active,
                 lockvars, pid_force_run>>

(* can_migrate_task(), for a queue that holds more than one task.          *)
Movable(p) == on_rq[p] /\ ~OnCpu(p) /\ \E q \in Queue(cpu[p]) : q # p

(* idle_balance() pulls a waiting task of another queue, or none; x may    *)
(* have been woken and other tasks queued while the lock was dropped.      *)
Balance(c, x) ==
  /\ curr[c] = x /\ pc[x] = "balance"
  /\ \/ /\ SwitchTo(c, x, Queue(c))
        /\ UNCHANGED <<cpu, need_resched>>
     \/ \E p \in Pids :
          /\ Movable(p) /\ cpu[p] # c
          /\ cpu' = [cpu EXCEPT ![p] = c]
          /\ CheckPreemptCurr(c)
          /\ SwitchTo(c, x, Queue(c) \cup {p})
  /\ UNCHANGED <<on_rq, state, sched_block, preempt_active, lockvars, pid_force_run>>

(* reacquire_kernel_lock(): try, spin, or give up to reschedule.           *)
Post(c, x) ==
  /\ curr[c] = x /\ pc[x] = "post"
  /\ \/ /\ ~InBkl(x)
        /\ pc' = [pc EXCEPT ![x] = "recheck"]
        /\ UNCHANGED kernel_flag
     \/ /\ InBkl(x) /\ kernel_flag = 0
        /\ kernel_flag' = x
        /\ pc' = [pc EXCEPT ![x] = "recheck"]
     \/ /\ InBkl(x) /\ kernel_flag # 0 /\ need_resched[x]
        /\ pc' = [pc EXCEPT ![x] = "nonpreempt"]
        /\ UNCHANGED kernel_flag
  /\ UNCHANGED <<curr, cpu, on_rq, state, need_resched, sched_block,
                 preempt_active, bkl_depth, pid_force_run>>

(* if (need_resched()) goto need_resched;  otherwise schedule() returns.   *)
Recheck(c, x) ==
  /\ curr[c] = x /\ pc[x] = "recheck"
  /\ \/ /\ need_resched[x]
        /\ pc' = [pc EXCEPT ![x] = "enter"]
        /\ UNCHANGED preempt_active
     \/ /\ ~need_resched[x]
        /\ pc' = [pc EXCEPT ![x] = "run"]
        /\ preempt_active' = [preempt_active EXCEPT ![x] = FALSE]
  /\ UNCHANGED <<curr, cpu, on_rq, state, need_resched, sched_block, lockvars,
                 pid_force_run>>

-----------------------------------------------------------------------------
(* What a thread does outside schedule().                                  *)
Runs(c, x) == curr[c] = x /\ pc[x] = "run" /\ TaskState(x) # "DEAD"

(* A call of schedule(), by a task that wants to block, or on the way out  *)
(* of the kernel; the idle loop calls it when a reschedule is asked for.   *)
Call(c, x) ==
  /\ Runs(c, x)
  /\ need_resched[x] \/ TaskState(x) = "SLEEP"
  /\ pc' = [pc EXCEPT ![x] = "enter"]
  /\ UNCHANGED <<curr, cpu, on_rq, state, need_resched, sched_block,
                 preempt_active, lockvars, pid_force_run>>

(* _cond_resched().                                                        *)
CondResched(c, x) ==
  /\ Runs(c, x) /\ x \in Pids
  /\ need_resched[x]
  /\ preempt_active' = [preempt_active EXCEPT ![x] = TRUE]
  /\ pc' = [pc EXCEPT ![x] = "enter"]
  /\ UNCHANGED <<curr, cpu, on_rq, state, need_resched, sched_block, lockvars,
                 pid_force_run>>

(* sched_yield(): whether or not a reschedule was asked for.               *)
sys_sched_yield(c, x) ==
  /\ Runs(c, x) /\ x \in Pids /\ state[x] = "RUNNING"
  /\ pc' = [pc EXCEPT ![x] = "enter"]
  /\ UNCHANGED <<curr, cpu, on_rq, state, need_resched, sched_block,
                 preempt_active, lockvars, pid_force_run>>

(* set_current_state(): before the sleeper tests its condition.            *)
SetState(c, x) ==
  /\ Runs(c, x) /\ x \in Pids
  /\ \E s \in {"RUNNING", "SLEEP"} : state' = [state EXCEPT ![x] = s]
  /\ UNCHANGED <<curr, cpu, on_rq, need_resched, pc, sched_block, preempt_active,
                 lockvars, pid_force_run>>

(* The last call of a process that ends.                                   *)
Exit(c, x) ==
  /\ Runs(c, x) /\ x \in Pids /\ ~bkl_depth[x]
  /\ state' = [state EXCEPT ![x] = "DEAD"]
  /\ pc' = [pc EXCEPT ![x] = "enter"]
  /\ UNCHANGED <<curr, cpu, on_rq, need_resched, sched_block, preempt_active,
                 lockvars, pid_force_run>>

(* lock_kernel() and unlock_kernel().                                      *)
LockKernel(c, x) ==
  /\ Runs(c, x) /\ x \in BklUsers
  /\ ~bkl_depth[x] /\ kernel_flag = 0
  /\ bkl_depth' = [bkl_depth EXCEPT ![x] = TRUE]
  /\ kernel_flag' = x
  /\ UNCHANGED <<curr, cpu, on_rq, state, need_resched, pc, sched_block,
                 preempt_active, pid_force_run>>

UnlockKernel(c, x) ==
  /\ Runs(c, x) /\ x \in BklUsers
  /\ bkl_depth[x]
  /\ bkl_depth' = [bkl_depth EXCEPT ![x] = FALSE]
  /\ kernel_flag' = 0
  /\ UNCHANGED <<curr, cpu, on_rq, state, need_resched, pc, sched_block,
                 preempt_active, pid_force_run>>

(* sched_fork(): running in name, but not queued, so nobody can wake it.   *)
Fork(c, x, child) ==
  /\ Runs(c, x) /\ x \in Pids
  /\ state[child] = "NONE"
  /\ state' = [state EXCEPT ![child] = "RUNNING"]
  /\ pc' = [pc EXCEPT ![child] = "born"]
  /\ \E d \in Cpus : cpu' = [cpu EXCEPT ![child] = d]
  /\ UNCHANGED <<curr, on_rq, need_resched, sched_block, preempt_active, lockvars,
                 pid_force_run>>

(* wake_up_new_task(): its first switch leads it to schedule_tail().       *)
WakeUpNew(child) ==
  /\ pc[child] = "born"
  /\ pc' = [pc EXCEPT ![child] = "post"]
  /\ on_rq' = [on_rq EXCEPT ![child] = TRUE]
  /\ CheckPreemptCurr(cpu[child])
  /\ UNCHANGED <<curr, cpu, state, sched_block, preempt_active, lockvars,
                 pid_force_run>>

-----------------------------------------------------------------------------
(* try_to_wake_up(): the task is still queued, or still current on its     *)
(* way through idle_balance(); or it is marked and queued in a second step.*)
WakeQueued(p) ==
  /\ state[p] = "SLEEP" /\ on_rq[p]
  /\ state' = [state EXCEPT ![p] = "RUNNING"]
  /\ CheckPreemptCurr(cpu[p])
  /\ UNCHANGED <<curr, cpu, on_rq, pc, sched_block, preempt_active, lockvars,
                 pid_force_run>>

WakeCurrentUnqueued(p) == \* mutant: a task that is current is taken for queued
  /\ state[p] = "SLEEP" /\ ~on_rq[p] /\ OnCpu(p)
  /\ state' = [state EXCEPT ![p] = "RUNNING"]
  /\ CheckPreemptCurr(cpu[p])
  /\ UNCHANGED <<curr, cpu, on_rq, pc, sched_block, preempt_active, lockvars,
                 pid_force_run>>

WakeCurrent(p) ==
  /\ state[p] = "SLEEP" /\ ~on_rq[p] /\ OnCpu(p)
  /\ state' = [state EXCEPT ![p] = "RUNNING"]
  /\ on_rq' = [on_rq EXCEPT ![p] = TRUE]
  /\ CheckPreemptCurr(cpu[p])
  /\ UNCHANGED <<curr, cpu, pc, sched_block, preempt_active, lockvars, pid_force_run>>

WakeMark(p) ==
  /\ state[p] = "SLEEP" /\ ~on_rq[p] /\ ~OnCpu(p)
  /\ state' = [state EXCEPT ![p] = "WAKING"]
  /\ \E d \in Cpus : cpu' = [cpu EXCEPT ![p] = d]
  /\ UNCHANGED <<curr, on_rq, need_resched, pc, sched_block, preempt_active,
                 lockvars, pid_force_run>>

WakeActivate(p) ==
  /\ state[p] = "WAKING"
  /\ state' = [state EXCEPT ![p] = "RUNNING"]
  /\ on_rq' = [on_rq EXCEPT ![p] = TRUE]
  /\ CheckPreemptCurr(cpu[p])
  /\ UNCHANGED <<curr, cpu, pc, sched_block, preempt_active, lockvars, pid_force_run>>

(* scheduler_tick(): a class asks for a reschedule when others wait.       *)
Tick(c) ==
  /\ \E p \in Queue(c) : p # curr[c]
  /\ need_resched' = [need_resched EXCEPT ![curr[c]] = TRUE]
  /\ UNCHANGED <<curr, cpu, on_rq, state, pc, sched_block, preempt_active, lockvars,
                 pid_force_run>>

PullRunning(c, p) == \* mutant: can_migrate_task() forgets task_running()
  /\ on_rq[p] /\ cpu[p] # c
  /\ cpu' = [cpu EXCEPT ![p] = c]
  /\ CheckPreemptCurr(c)
  /\ UNCHANGED <<curr, on_rq, state, pc, sched_block, preempt_active, lockvars,
                 pid_force_run>>

(* load_balance(): pull_task() of a waiting task of another queue.         *)
Pull(c, p) ==
  /\ Movable(p) /\ cpu[p] # c
  /\ cpu' = [cpu EXCEPT ![p] = c]
  /\ CheckPreemptCurr(c)
  /\ UNCHANGED <<curr, on_rq, state, pc, sched_block, preempt_active, lockvars,
                 pid_force_run>>

(* set_pid_force_run(): a process locks the scheduler to itself by the     *)
(* start command of os_ctrl, or to another process; and the reset.         *)
LockTo(p) ==
  /\ pid_force_run = 0
  /\ pid_force_run' = p
  /\ UNCHANGED <<curr, cpu, on_rq, state, need_resched, pc, sched_block,
                 preempt_active, lockvars>>

Reset ==
  /\ pid_force_run # 0
  /\ pid_force_run' = 0
  /\ UNCHANGED <<curr, cpu, on_rq, state, need_resched, pc, sched_block,
                 preempt_active, lockvars>>

-----------------------------------------------------------------------------
InSchedule(c, x) ==
  Enter(c, x) \/ Locked(c, x) \/ LockedBlocked(c, x) \/ Balance(c, x) \/ Post(c, x)
  \/ Recheck(c, x)

Outside(c, x) ==
  \/ Call(c, x) \/ CondResched(c, x) \/ sys_sched_yield(c, x) \/ SetState(c, x) \/ Exit(c, x)
  \/ LockKernel(c, x) \/ UnlockKernel(c, x)
  \/ \E child \in Pids : Fork(c, x, child)

Wake(p) == WakeQueued(p) \/ WakeCurrent(p) \/ WakeMark(p) \/ WakeActivate(p)

(* The library starts a measurement of the process that calls it.          *)
ForceSelf == \E c \in Cpus, p \in Pids : Runs(c, p) /\ state[p] = "RUNNING" /\ LockTo(p)

Next ==
  \/ \E c \in Cpus, x \in Threads : InSchedule(c, x) \/ Outside(c, x)
  \/ \E p \in Pids : Wake(p) \/ WakeUpNew(p)
  \/ \E c \in Cpus : Tick(c) \/ \E p \in Pids : Pull(c, p)
  \/ ForceSelf \/ Reset

(* Every processor goes on, and the watchdog of os_ctrl resets the lock.   *)
Fairness ==
  /\ \A c \in Cpus : WF_vars(\E x \in Threads : InSchedule(c, x))
  /\ WF_vars(Reset)

Spec == Init /\ [][Next]_vars /\ Fairness

-----------------------------------------------------------------------------
(* A process that could run is queued where a processor will find it: no   *)
(* wake-up is lost between set_current_state(), the dequeuing and the      *)
(* stretch in which idle_balance() has dropped the lock.                   *)
RunnableIsQueued ==
  \A p \in Pids : state[p] = "RUNNING" /\ pc[p] # "born" => on_rq[p]

(* No thread runs on two processors, and a process that runs is accounted  *)
(* to the processor it runs on.                                            *)
OneProcessor ==
  \A c \in Cpus :
    /\ \A d \in Cpus : curr[c] = curr[d] => c = d
    /\ curr[c] \in Pids => cpu[curr[c]] = c

(* Nobody who could run is lost, and nobody is run twice.                  *)
QueuedOnce == TypeOK /\ RunnableIsQueued /\ OneProcessor

(* A process that was switched out never holds the BKL spinlock, although  *)
(* a blocked schedule() does not release it.                               *)
BklHeldByRunner == kernel_flag # 0 => OnCpu(kernel_flag)

(* Comment 5441: while the scheduler is locked to the process that runs,   *)
(* nothing else is scheduled on its processor.                             *)
NoSwitchWhileForced ==
  [][\A c \in Cpus : curr[c] = pid_force_run /\ pid_force_run > 1 => curr'[c] = curr[c]]_vars

(* Once reschedules are no longer asked for, a thread that is inside       *)
(* schedule() returns from it or gives its processor up.                   *)
Calm == <>[][\A x \in Threads : need_resched'[x] => need_resched[x]]_vars
Returns ==
  Calm => \A x \in Threads : pc[x] = "enter" ~> pc[x] = "run" \/ ~OnCpu(x)

(* The same of a processor, whoever it goes on with: it comes out of       *)
(* schedule(), unless a holder of the Big Kernel Lock is what it goes on   *)
(* with.                                                                   *)
ReturnsWithoutBkl ==
  Calm => \A c \in Cpus :
            pc[curr[c]] = "enter" ~> pc[curr[c]] = "run" \/ InBkl(curr[c])
=============================================================================
