------------------------------ MODULE RunQueue ------------------------------
(***************************************************************************)
(* The locks of the run queues and the context switch (sched_mod.c         *)
(* 867-1010, 1741-1800, 2175-2270, 2335-2440, 2691-2885, 3066-3110,        *)
(* 3176-3190, 5408-5525, 7150-7182): task_rq_lock and its retry, a wake-up *)
(* that gives the lock up to choose a processor, double_rq_lock, the unfair *)
(* double_lock_balance of a kernel without PREEMPT, idle balancing in the  *)
(* middle of schedule(), and what the next task finishes for the previous  *)
(* one.                                                                    *)
(*                                                                         *)
(* A processor does one thing at a time; a watcher runs                    *)
(* wait_task_inactive() on a further processor.                            *)
(***************************************************************************)
EXTENDS Integers, FiniteSets, Sequences, TLC

CONSTANTS
  CPUs,        \* processors, numbered as their run queues lie in memory
  Tasks,       \* tasks that run, sleep, are moved and die
  Watchers, Watched, \* threads that wait until a task of Watched is inactive
  WithMm,      \* tasks that have an mm of their own; the others are kernel threads
  MaxSwitches, \* bound: how often each task goes to sleep or dies
  None

ASSUME RqAssumption == /\ CPUs \subseteq Nat /\ CPUs # {} /\ IsFiniteSet(CPUs \cup Tasks)
                       /\ WithMm \cup Watched \subseteq Tasks /\ MaxSwitches \in [Tasks -> Nat]
                       /\ None \notin Tasks \cup CPUs \cup Watchers /\ Watchers \cap CPUs = {}

VARIABLES
  lock,      \* rq->lock: the actor that holds it
  curr,      \* rq->curr
  on,        \* the task on whose stack each processor executes
  cpu,       \* task_cpu
  queued,    \* tasks with se.on_rq
  state,     \* task_struct.state
  nvcsw,     \* voluntary switches
  dropped,   \* references that finish_task_switch() has dropped, per task
  mm, active_mm, mm_count, prev_mm,
  act,       \* what each actor is doing
  seen,      \* what each watcher was told last, and whether that task has run since
  unpinned,  \* actors that were given the lock while their task was in TASK_WAKING
  astray     \* somebody decided under the lock of a run queue that the task had left

vars == <<lock, curr, on, cpu, queued, state, nvcsw, dropped, mm, active_mm, mm_count,
          prev_mm, act, seen, unpinned, astray>>
mm_vars   == <<mm, active_mm, mm_count, prev_mm>>
task_vars == <<cpu, queued, state, nvcsw>>
pin_vars  == <<unpinned, astray>>

idle(c)  == <<"idle", c>>
Idles    == {idle(c) : c \in CPUs}
Threads  == Tasks \cup Idles
MMs      == WithMm \cup {"init_mm"}   \* the mm of task t is called t
Actors   == CPUs \cup Watchers
Free     == [at |-> "free"]
Running(t) == curr[cpu[t]] = t
Home(a)    == cpu[act[a].p] = act[a].rq  \* its task is on the run queue that a has locked
OnRq(c)    == {t \in queued : cpu[t] = c}

ASSUME ThreadsAssumption == Tasks \cap Idles = {} /\ None \notin Idles /\ "init_mm" \notin Tasks \cup {None}

TypeOK ==
  /\ lock \in [CPUs -> Actors \cup {None}]
  /\ curr \in [CPUs -> Threads] /\ on \in [CPUs -> Threads]
  /\ cpu \in [Tasks -> CPUs] /\ queued \subseteq Tasks
  /\ state \in [Tasks -> {"running", "sleeping", "waking", "dead"}]
  /\ nvcsw \in [Tasks -> Nat] /\ dropped \in [Tasks -> Nat]
  /\ mm \in [Threads -> MMs \cup {None}] /\ active_mm \in [Threads -> MMs \cup {None}]
  /\ mm_count \in [MMs -> Int] /\ prev_mm \in [CPUs -> MMs \cup {None}]
  /\ unpinned \subseteq Actors /\ astray \in BOOLEAN

Init ==
  /\ lock = [c \in CPUs |-> None]
  /\ curr = [c \in CPUs |-> idle(c)] /\ on = curr
  /\ cpu = [t \in Tasks |-> CHOOSE c \in CPUs : \A d \in CPUs : c <= d]
  /\ queued = Tasks /\ state = [t \in Tasks |-> "running"]
  /\ nvcsw = [t \in Tasks |-> 0] /\ dropped = [t \in Tasks |-> 0]
  /\ mm = [t \in Threads |-> IF t \in WithMm THEN t ELSE None]
  /\ active_mm = [t \in Threads |-> IF t \in WithMm THEN t
                                    ELSE IF t \in Idles THEN "init_mm" ELSE None]
  /\ mm_count = [m \in MMs |-> IF m \in Tasks THEN 1 ELSE 1 + Cardinality(CPUs)]
  /\ prev_mm = [c \in CPUs |-> None]
  /\ act = [a \in Actors |-> Free]
  /\ seen = [w \in Watchers |-> [p |-> None, count |-> 0, ran |-> FALSE]]
  /\ unpinned = {} /\ astray = FALSE

-----------------------------------------------------------------------------
(* task_rq_lock(): read the run queue, lock it, and look again.            *)
TaskRq(a, t, then) == [at |-> "task_rq_lock", p |-> t, rq |-> cpu[t], then |-> then]

Pins(a) == \* a task in TASK_WAKING leaves without this lock
  unpinned' = IF state[act[a].p] = "waking" /\ act[a].then # "activate" THEN unpinned \cup {a} ELSE unpinned

TaskRqLockOnce(a) == \* mutant: the run queue is not looked at again
  /\ act[a].at = "task_rq_lock" /\ lock[act[a].rq] = None
  /\ lock' = [lock EXCEPT ![act[a].rq] = a]
  /\ act' = [act EXCEPT ![a].at = act[a].then]
  /\ Pins(a)
  /\ UNCHANGED <<curr, on, dropped, task_vars, mm_vars, seen, astray>>

TaskRqLock(a) ==
  /\ act[a].at = "task_rq_lock" /\ lock[act[a].rq] = None
  /\ IF Home(a)
     THEN /\ lock' = [lock EXCEPT ![act[a].rq] = a]
          /\ act' = [act EXCEPT ![a].at = act[a].then]
          /\ Pins(a)
     ELSE /\ act' = [act EXCEPT ![a].rq = cpu[act[a].p]]
          /\ UNCHANGED <<lock, unpinned>>
  /\ UNCHANGED <<curr, on, dropped, task_vars, mm_vars, seen, astray>>

(* try_to_wake_up(): a task that is still queued, or still current, stays  *)
(* where it is; what else sleeps is put in TASK_WAKING and the lock given  *)
(* up, and a processor is chosen for it with no lock at all.               *)
WakeCall(c, t) ==
  /\ act[c] = Free
  /\ act' = [act EXCEPT ![c] = TaskRq(c, t, "wake")]
  /\ UNCHANGED <<lock, curr, on, dropped, task_vars, mm_vars, seen, pin_vars>>

StaysHere(c) == act[c].p \in queued \/ curr[act[c].rq] = act[c].p

Wakes(c) == \* under the lock, which is given up
  /\ act[c].at = "wake"
  /\ lock' = [lock EXCEPT ![act[c].rq] = None] /\ unpinned' = unpinned \ {c}
  /\ astray' = (astray \/ (state[act[c].p] = "sleeping" /\ ~Home(c)))
  /\ UNCHANGED <<curr, on, cpu, nvcsw, dropped, mm_vars, seen>>

Wake(c) ==
  /\ Wakes(c)
  /\ LET t == act[c].p IN
       IF state[t] = "sleeping"
       THEN StaysHere(c) /\ state' = [state EXCEPT ![t] = "running"] /\ queued' = queued \cup {t}
       ELSE UNCHANGED <<state, queued>>
  /\ act' = [act EXCEPT ![c] = Free]

BeginWaking(c) ==
  /\ Wakes(c) /\ state[act[c].p] = "sleeping" /\ ~StaysHere(c)
  /\ state' = [state EXCEPT ![act[c].p] = "waking"]
  /\ act' = [act EXCEPT ![c] = [at |-> "select", p |-> act[c].p]]
  /\ UNCHANGED queued

(* select_task_rq() and set_task_cpu().                                    *)
SetTaskCpu(c, d) ==
  /\ act[c].at = "select"
  /\ cpu' = [cpu EXCEPT ![act[c].p] = d]
  /\ act' = [act EXCEPT ![c] = [at |-> "task_rq_lock", p |-> act[c].p, rq |-> d, then |-> "activate"]]
  /\ UNCHANGED <<lock, curr, on, queued, state, nvcsw, dropped, mm_vars, seen, pin_vars>>

Activate(c) ==
  /\ act[c].at = "activate"
  /\ state' = [state EXCEPT ![act[c].p] = "running"] /\ queued' = queued \cup {act[c].p}
  /\ lock' = [lock EXCEPT ![act[c].rq] = None]
  /\ act' = [act EXCEPT ![c] = Free]
  /\ UNCHANGED <<curr, on, cpu, nvcsw, dropped, mm_vars, seen, pin_vars>>

-----------------------------------------------------------------------------
(* wait_task_inactive() with a match_state ("sleeping") or without one.    *)
WatchCall(w, t, match) ==
  /\ act[w] = Free
  /\ act' = [act EXCEPT ![w] = [at |-> "watch", p |-> t, rq |-> cpu[t], match |-> match]]
  /\ UNCHANGED <<lock, curr, on, dropped, task_vars, mm_vars, seen, pin_vars>>

Bails(w) == act[w].match /\ state[act[w].p] # "sleeping"

(* Without a lock: while the task runs on the run queue that was read.     *)
WatchRunning(w) ==
  /\ act[w].at = "watch"
  /\ IF curr[act[w].rq] = act[w].p
     THEN Bails(w) /\ act' = [act EXCEPT ![w] = Free]
     ELSE act' = [act EXCEPT ![w] = [at |-> "task_rq_lock", p |-> act[w].p, rq |-> cpu[act[w].p],
                                     then |-> "sample", match |-> act[w].match]]
  /\ UNCHANGED <<lock, curr, on, dropped, task_vars, mm_vars, seen, pin_vars>>

Samples(w, busy) ==
  /\ act[w].at = "sample"
  /\ LET t == act[w].p IN
       IF Bails(w) THEN act' = [act EXCEPT ![w] = Free] /\ UNCHANGED <<seen, astray>>
       ELSE IF busy
            THEN /\ act' = [act EXCEPT ![w] = [at |-> "watch", p |-> t, rq |-> cpu[t], match |-> act[w].match]]
                 /\ UNCHANGED <<seen, astray>>
            ELSE /\ act' = [act EXCEPT ![w] = Free]
                 /\ seen' = [seen EXCEPT ![w] = [p |-> t, count |-> nvcsw[t], ran |-> FALSE]]
                 /\ astray' = (astray \/ ~Home(w))
  /\ lock' = [lock EXCEPT ![act[w].rq] = None] /\ unpinned' = unpinned \ {w}
  /\ UNCHANGED <<curr, on, dropped, task_vars, mm_vars>>

WatchSampleNoRunning(w) == Samples(w, act[w].p \in queued) \* mutant: off the queue is enough

(* Under the lock: running, queued and the count, then decide.             *)
WatchSample(w) == Samples(w, curr[act[w].rq] = act[w].p \/ act[w].p \in queued)

-----------------------------------------------------------------------------
(* What a running task does to itself before it calls schedule().          *)
GoesToSleep(c) ==
  /\ act[c] = Free /\ on[c] \in Tasks /\ nvcsw[on[c]] < MaxSwitches[on[c]]
  /\ state[on[c]] = "running"
  /\ state' = [state EXCEPT ![on[c]] = "sleeping"]
  /\ UNCHANGED <<lock, curr, on, cpu, queued, nvcsw, dropped, mm_vars, act, seen, pin_vars>>

(* do_exit(): the mm is given up, it stays the active one; then TASK_DEAD. *)
Dies(c) ==
  /\ act[c] = Free /\ on[c] \in Tasks /\ nvcsw[on[c]] < MaxSwitches[on[c]]
  /\ state[on[c]] = "running"
  /\ state' = [state EXCEPT ![on[c]] = "dead"]
  /\ mm' = [mm EXCEPT ![on[c]] = None]
  /\ UNCHANGED <<lock, curr, on, cpu, queued, nvcsw, dropped, active_mm, mm_count, prev_mm, act, seen, pin_vars>>

Schedule(c) ==
  /\ act[c] = Free /\ lock[c] = None
  /\ lock' = [lock EXCEPT ![c] = c]
  /\ act' = [act EXCEPT ![c] = [at |-> "schedule", prev |-> curr[c]]]
  /\ UNCHANGED <<curr, on, dropped, task_vars, mm_vars, seen, pin_vars>>

Deactivate(c) ==
  /\ act[c].at = "schedule"
  /\ LET prev == act[c].prev
         off  == prev \in Tasks /\ state[prev] # "running"
         left == queued \ (IF off THEN {prev} ELSE {})
     IN  /\ queued' = left
         /\ act' = [act EXCEPT ![c] = [at   |-> IF \E t \in left : cpu[t] = c THEN "pick" ELSE "idle",
                                       prev |-> prev, off |-> off]]
  /\ UNCHANGED <<lock, curr, on, cpu, state, nvcsw, dropped, mm_vars, seen, pin_vars>>

(* spin_lock() of one run queue after the other.                           *)
TakeLocks(c) ==
  /\ act[c].at = "locking" /\ lock[Head(act[c].locks)] = None
  /\ lock' = [lock EXCEPT ![Head(act[c].locks)] = c]
  /\ act' = [act EXCEPT ![c].locks = Tail(@), ![c].at = IF Len(act[c].locks) = 1 THEN act[c].then ELSE @]
  /\ UNCHANGED <<curr, on, dropped, task_vars, mm_vars, seen, pin_vars>>

Release(c, S) == lock' = [b \in CPUs |-> IF b \in S /\ lock[b] = c THEN None ELSE lock[b]]

(* idle_balance(): no other processor looks worth it, or double_lock_      *)
(* balance() takes the lock of the busiest one, for which this one may     *)
(* have to be given up.                                                    *)
NoBusiest(c) ==
  /\ act[c].at = "idle"
  /\ act' = [act EXCEPT ![c] = [@ EXCEPT !.at = "pick"]]
  /\ UNCHANGED <<lock, curr, on, dropped, task_vars, mm_vars, seen, pin_vars>>

Balancing(c, b, locks) ==
  [at |-> "locking", locks |-> locks, then |-> "pull", from |-> b, prev |-> act[c].prev, off |-> act[c].off]

DoubleLockBalanceHolds(c, b) == \* mutant: waits for a lower lock while it holds its own
  /\ act[c].at = "idle" /\ b # c /\ Cardinality(OnRq(b)) > 1
  /\ IF lock[b] = None
     THEN /\ lock' = [lock EXCEPT ![b] = c]
          /\ act' = [act EXCEPT ![c] = [Balancing(c, b, <<>>) EXCEPT !.at = "pull"]]
     ELSE act' = [act EXCEPT ![c] = Balancing(c, b, <<b>>)] /\ UNCHANGED lock
  /\ UNCHANGED <<curr, on, dropped, task_vars, mm_vars, seen, pin_vars>>

DoubleLockBalance(c, b) ==
  /\ act[c].at = "idle" /\ b # c /\ Cardinality(OnRq(b)) > 1
  /\ IF lock[b] = None
     THEN /\ lock' = [lock EXCEPT ![b] = c]
          /\ act' = [act EXCEPT ![c] = [Balancing(c, b, <<>>) EXCEPT !.at = "pull"]]
     ELSE IF b < c
     THEN /\ lock' = [lock EXCEPT ![c] = None]
          /\ act' = [act EXCEPT ![c] = Balancing(c, b, <<b, c>>)]
     ELSE /\ act' = [act EXCEPT ![c] = Balancing(c, b, <<b>>)]
          /\ UNCHANGED lock
  /\ UNCHANGED <<curr, on, dropped, task_vars, mm_vars, seen, pin_vars>>

(* pull_task() of a queued task that does not run, and the double unlock.  *)
Pull(c, t) ==
  /\ act[c].at = "pull"
  /\ t \in OnRq(act[c].from) /\ ~Running(t)
  /\ cpu' = [cpu EXCEPT ![t] = c]
  /\ Release(c, {act[c].from})
  /\ act' = [act EXCEPT ![c] = [at |-> "pick", prev |-> act[c].prev, off |-> act[c].off]]
  /\ UNCHANGED <<curr, on, queued, state, nvcsw, dropped, mm_vars, seen, pin_vars>>

PullNothing(c) ==
  /\ act[c].at = "pull" /\ \A t \in OnRq(act[c].from) : Running(t)
  /\ Release(c, {act[c].from})
  /\ act' = [act EXCEPT ![c] = [at |-> "pick", prev |-> act[c].prev, off |-> act[c].off]]
  /\ UNCHANGED <<curr, on, dropped, task_vars, mm_vars, seen, pin_vars>>

(* pick_next_task(); rq->curr changes before the stack does.               *)
Pick(c, next) ==
  /\ act[c].at = "pick"
  /\ next \in IF OnRq(c) = {} THEN {idle(c)} ELSE OnRq(c)
  /\ LET prev == act[c].prev IN
       IF next = prev
       THEN /\ Release(c, {c}) /\ act' = [act EXCEPT ![c] = Free]
            /\ UNCHANGED <<curr, nvcsw>>
       ELSE /\ curr' = [curr EXCEPT ![c] = next]
            /\ nvcsw' = IF act[c].off THEN [nvcsw EXCEPT ![prev] = @ + 1] ELSE nvcsw
            /\ act' = [act EXCEPT ![c] = [at |-> "switch", prev |-> prev]]
            /\ UNCHANGED lock
  /\ seen' = [w \in Watchers |->
                [seen[w] EXCEPT !.ran = @ \/ (seen[w].p # None /\ seen[w].p = next /\ next # act[c].prev)]]
  /\ UNCHANGED <<on, cpu, queued, state, dropped, mm_vars, pin_vars>>

(* context_switch(): a kernel thread borrows the mm of the previous task;  *)
(* a previous borrower hands its loan to rq->prev_mm.                      *)
ContextSwitch(c) ==
  /\ act[c].at = "switch"
  /\ LET prev == act[c].prev
         next == curr[c]
         old  == active_mm[prev]
         lazy == mm[next] = None
     IN  /\ active_mm' = [active_mm EXCEPT ![next] = IF lazy THEN old ELSE mm[next],
                                          ![prev] = IF mm[prev] = None THEN None ELSE @]
         /\ mm_count' = IF lazy THEN [mm_count EXCEPT ![old] = @ + 1] ELSE mm_count
         /\ prev_mm' = IF mm[prev] = None THEN [prev_mm EXCEPT ![c] = old] ELSE prev_mm
  /\ on' = [on EXCEPT ![c] = curr[c]]
  /\ act' = [act EXCEPT ![c].at = "finish"]
  /\ UNCHANGED <<lock, curr, dropped, task_vars, mm, seen, pin_vars>>

FinishKeepsMm(c) == \* mutant: rq->prev_mm is not reset
  /\ act[c].at = "finish"
  /\ Release(c, {c})
  /\ act' = [act EXCEPT ![c] = [at |-> "put", prev |-> act[c].prev, mm |-> prev_mm[c],
                                dead |-> act[c].prev \in Tasks /\ state[act[c].prev] = "dead"]]
  /\ UNCHANGED <<curr, on, dropped, task_vars, mm_vars, seen, pin_vars>>

(* finish_task_switch(), or schedule_tail() of a new task: what prev needs *)
(* is read before the lock is released, and dropped afterwards.            *)
FinishTaskSwitch(c) ==
  /\ act[c].at = "finish"
  /\ Release(c, {c})
  /\ act' = [act EXCEPT ![c] = [at |-> "put", prev |-> act[c].prev, mm |-> prev_mm[c],
                                dead |-> act[c].prev \in Tasks /\ state[act[c].prev] = "dead"]]
  /\ prev_mm' = [prev_mm EXCEPT ![c] = None]
  /\ UNCHANGED <<curr, on, dropped, task_vars, mm, active_mm, mm_count, seen, pin_vars>>

PutLate(c) == \* mutant: the state of prev is read after the unlock
  /\ act[c].at = "put"
  /\ LET prev == act[c].prev
     IN  dropped' = IF prev \in Tasks /\ state[prev] = "dead"
                    THEN [dropped EXCEPT ![prev] = @ + 1] ELSE dropped
  /\ mm_count' = IF act[c].mm = None THEN mm_count ELSE [mm_count EXCEPT ![act[c].mm] = @ - 1]
  /\ act' = [act EXCEPT ![c] = Free]
  /\ UNCHANGED <<lock, curr, on, task_vars, mm, active_mm, prev_mm, seen, pin_vars>>

Put(c) ==
  /\ act[c].at = "put"
  /\ dropped' = IF act[c].dead THEN [dropped EXCEPT ![act[c].prev] = @ + 1] ELSE dropped
  /\ mm_count' = IF act[c].mm = None THEN mm_count ELSE [mm_count EXCEPT ![act[c].mm] = @ - 1]
  /\ act' = [act EXCEPT ![c] = Free]
  /\ UNCHANGED <<lock, curr, on, task_vars, mm, active_mm, prev_mm, seen, pin_vars>>

-----------------------------------------------------------------------------
DoubleRqLockUnordered(c, t, d) == \* mutant: the source is locked first
  /\ act[c] = Free /\ d # c /\ t # curr[c]
  /\ act' = [act EXCEPT ![c] = [at |-> "locking", locks |-> <<c, d>>, then |-> "move", p |-> t, to |-> d]]
  /\ UNCHANGED <<lock, curr, on, dropped, task_vars, mm_vars, seen, pin_vars>>

(* __migrate_task() by the migration thread of c, to d; the lower of the   *)
(* two run queues is locked first.                                         *)
DoubleRqLock(c, t, d) ==
  /\ act[c] = Free /\ d # c /\ t # curr[c]
  /\ act' = [act EXCEPT ![c] = [at |-> "locking", locks |-> IF c < d THEN <<c, d>> ELSE <<d, c>>,
                                then |-> "move", p |-> t, to |-> d]]
  /\ UNCHANGED <<lock, curr, on, dropped, task_vars, mm_vars, seen, pin_vars>>

(* Already moved?  A task in TASK_WAKING may leave while both are locked.   *)
Move(c) ==
  /\ act[c].at = "move"
  /\ IF cpu[act[c].p] = c
     THEN act' = [act EXCEPT ![c].at = "set_task_cpu"] /\ UNCHANGED lock
     ELSE act' = [act EXCEPT ![c] = Free] /\ Release(c, CPUs)
  /\ UNCHANGED <<curr, on, dropped, task_vars, mm_vars, seen, pin_vars>>

Moved(c) ==
  /\ act[c].at = "set_task_cpu"
  /\ cpu' = [cpu EXCEPT ![act[c].p] = act[c].to]
  /\ astray' = (astray \/ cpu[act[c].p] \notin {c, act[c].to})
  /\ Release(c, CPUs)
  /\ act' = [act EXCEPT ![c] = Free]
  /\ UNCHANGED <<curr, on, queued, state, nvcsw, dropped, mm_vars, seen, unpinned>>

Next ==
  \/ \E a \in Actors : TaskRqLock(a)
  \/ \E c \in CPUs : \/ Wake(c) \/ BeginWaking(c) \/ Activate(c) \/ GoesToSleep(c) \/ Dies(c) \/ Schedule(c)
                     \/ Deactivate(c) \/ TakeLocks(c) \/ NoBusiest(c) \/ PullNothing(c)
                     \/ ContextSwitch(c) \/ FinishTaskSwitch(c) \/ Put(c) \/ Move(c) \/ Moved(c)
  \/ \E c \in CPUs, t \in Tasks : WakeCall(c, t) \/ Pull(c, t)
  \/ \E c \in CPUs, t \in Threads : Pick(c, t)
  \/ \E c, d \in CPUs : DoubleLockBalance(c, d) \/ SetTaskCpu(c, d) \/ \E t \in Tasks : DoubleRqLock(c, t, d)
  \/ \E w \in Watchers : \/ WatchRunning(w) \/ WatchSample(w)
                         \/ \E t \in Watched, match \in BOOLEAN : WatchCall(w, t, match)

Spec == Init /\ [][Next]_vars

-----------------------------------------------------------------------------
(* What task_rq_lock() returned is locked until it is given up, and the    *)
(* task stays on it unless it was being woken when the lock was taken; the *)
(* waker itself finds it still in TASK_WAKING, and on the queue it locked  *)
(* (WARN_ON at 2387).                                                      *)
LockedTaskStays ==
  \A a \in Actors : act[a].at \in {"wake", "activate", "sample"} =>
    /\ lock[act[a].rq] = a
    /\ a \notin unpinned => Home(a) /\ (state[act[a].p] = "waking" <=> act[a].at = "activate")

(* 943: what is locked is the run queue the task resides on; false for a   *)
(* task in TASK_WAKING.  Without the run's constraint the task can even end *)
(* on the stacks of two processors, where InactiveSample fails as well.    *)
LockPins == \A a \in Actors : act[a].at \in {"wake", "activate", "sample"} => Home(a)
StacksApart == \A c, d \in CPUs : c # d => on[c] # on[d]

(* No two processors wait for the run queue lock that the other holds.     *)
NoLockCycle ==
  LET Wants(a) == IF act[a].at = "locking" THEN Head(act[a].locks)
                  ELSE IF act[a].at = "task_rq_lock" THEN act[a].rq ELSE None
  IN  \A a, b \in Actors : Wants(a) # None /\ Wants(b) # None
        => ~(lock[Wants(a)] = b /\ lock[Wants(b)] = a)

(* Comments 2160 and 2251: when wait_task_inactive() has sampled a task it *)
(* is off every stack and off the queues; and two equal results mean that  *)
(* it has remained unscheduled in between.                                 *)
InactiveSample ==
  \A w \in Watchers : act[w].at = "sample" /\ act'[w] = Free /\ ~Bails(w) /\ ~astray' =>
    LET t == act[w].p IN
      /\ t \notin queued /\ \A c \in CPUs : on[c] # t
      /\ seen[w].p = t /\ seen[w].count = nvcsw[t] => ~seen[w].ran
InactiveIsOff == [][InactiveSample]_vars

(* Comment 2756: the reference of a dead task is dropped once, and never   *)
(* while a processor is on its stack.                                      *)
DroppedOnce ==
  \A t \in Tasks : dropped[t] <= 1 /\ (dropped[t] = 1 => \A c \in CPUs : on[c] # t)

(* An mm is counted once for its users and once for every borrower, the    *)
(* loans that finish_task_switch() has still to give back included.        *)
MmCounted ==
  \A m \in MMs :
    LET users     == m \notin Tasks \/ mm[m] = m
        borrowers == {t \in Threads : mm[t] = None /\ active_mm[t] = m}
        pending   == {c \in CPUs : prev_mm[c] = m}
        dropping  == {c \in CPUs : act[c].at = "put" /\ act[c].mm = m}
    IN  mm_count[m] = (IF users THEN 1 ELSE 0) + Cardinality(borrowers) + Cardinality(pending)
                      + Cardinality(dropping)
=============================================================================
