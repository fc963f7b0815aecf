----------------------------- MODULE Migration -----------------------------
(***************************************************************************)
(* Affinity and processor hotplug of sched_mod.c: set_cpus_allowed_ptr(),  *)
(* sched_exec(), the migration thread of each processor, wake-ups and load *)
(* balancing that choose a processor, and migration_call(), which empties  *)
(* a processor that goes offline.                                          *)
(*                                                                         *)
(* What runs under a run queue lock is one step.  The kernel is built with *)
(* CONFIG_PREEMPT_NONE: a thread gives its processor up only in schedule(),*)
(* which is one step here (Schedule takes it apart).  Stop_machine() and   *)
(* the phases of cpu_up() and cpu_down() belong to kernel/cpu.c.           *)
(***************************************************************************)
EXTENDS Naturals, Sequences, FiniteSets

CONSTANTS
  Cpus,         \* the processors
  Tasks,        \* the threads other than idle and migration threads
  Offlinable,   \* the processors that may go offline
  Callers,      \* the threads that set an affinity or execute a program
  Forcible,     \* the threads that are measured
  Sleepers,     \* the threads that sleep for something else, too
  None          \* no processor, no request

ASSUME CpusAssumption  == IsFiniteSet(Cpus) /\ Offlinable \subseteq Cpus /\ None \notin Cpus
Idle == "idle"
Mt   == "migration"

ASSUME TasksAssumption ==
  /\ IsFiniteSet(Tasks) /\ Callers \cup Forcible \cup Sleepers \subseteq Tasks
  /\ {Idle, Mt, None} \cap Tasks = {}

VARIABLES
  curr,     \* rq->curr
  cpu,      \* task_cpu() of each task
  on_rq,    \* se.on_rq
  state,    \* task state
  allowed,  \* cpus_allowed
  chosen,   \* the processor a waker has chosen but not yet set, or None
  pc,       \* where a task is in set_cpus_allowed_ptr()
  waits,    \* the processor whose migration thread it has asked
  done,     \* req.done of its request
  queue,    \* rq->migration_queue
  hand,     \* the request a migration thread is serving, or None
  mstate,   \* state of the migration thread, or "absent"
  mqueued,  \* the migration thread is on its run queue
  mpc,      \* where it is
  phase,    \* hotplug phase of each processor
  scan,     \* tasks migrate_live_tasks() has still to look at
  dest,     \* where move_task_off_dead_cpu() is about to move one, or None
  forced,   \* the task the scheduler is locked to, if any
  raced     \* history: the affinity of the task was set in one of the two races

tasks  == <<cpu, on_rq, state, allowed, chosen>>
call   == <<pc, waits, done>>
mt     == <<hand, mstate, mqueued, mpc>>
plug   == <<phase, scan, dest>>
vars   == <<curr, tasks, call, queue, mt, plug, forced, raced>>

Requests == [task : Tasks, to : Cpus, by : Tasks]
ASSUME NoneAssumption ==
  None \notin [req : Requests, moved : BOOLEAN] \cup [task : Tasks, to : Cpus]

Phases   == {"up",        \* online and active
             "inactive",  \* on its way down
             "dying",     \* offline, its tasks are being moved
             "dead",      \* without a migration thread
             "down",
             "prepared"}  \* on its way up

TypeOK ==
  /\ curr \in [Cpus -> Tasks \cup {Idle, Mt}]
  /\ cpu \in [Tasks -> Cpus] /\ on_rq \in [Tasks -> BOOLEAN]
  /\ state \in [Tasks -> {"RUNNING", "SLEEP", "WAKING"}]
  /\ allowed \in [Tasks -> SUBSET Cpus]
  /\ chosen \in [Tasks -> Cpus \cup {None}]
  /\ pc \in [Tasks -> {"run", "wake", "wait"}]
  /\ waits \in [Tasks -> Cpus \cup {None}] /\ done \in [Tasks -> BOOLEAN]
  /\ queue \in [Cpus -> Seq(Requests)]
  /\ hand \in [Cpus -> [req : Requests, moved : BOOLEAN] \cup {None}]
  /\ mstate \in [Cpus -> {"absent", "RUNNING", "SLEEP"}]
  /\ mqueued \in [Cpus -> BOOLEAN] /\ mpc \in [Cpus -> {"top", "schedule", "back"}]
  /\ phase \in [Cpus -> Phases] /\ scan \in SUBSET Tasks
  /\ dest \in [task : Tasks, to : Cpus] \cup {None}
  /\ forced \in SUBSET Tasks
  /\ raced \in [Tasks -> BOOLEAN]

Init ==
  /\ curr = [c \in Cpus |-> Idle]
  /\ cpu \in [Tasks -> Cpus]
  /\ on_rq = [p \in Tasks |-> TRUE]
  /\ state = [p \in Tasks |-> "RUNNING"]
  /\ allowed = [p \in Tasks |-> Cpus]
  /\ chosen = [p \in Tasks |-> None]
  /\ pc = [p \in Tasks |-> "run"]
  /\ waits = [p \in Tasks |-> None] /\ done = [p \in Tasks |-> FALSE]
  /\ queue = [c \in Cpus |-> <<>>]
  /\ hand = [c \in Cpus |-> None]
  /\ mstate = [c \in Cpus |-> "SLEEP"] /\ mqueued = [c \in Cpus |-> FALSE]
  /\ mpc = [c \in Cpus |-> "back"]
  /\ phase = [c \in Cpus |-> "up"] /\ scan = {} /\ dest = None
  /\ forced = {}
  /\ raced = [p \in Tasks |-> FALSE]

-----------------------------------------------------------------------------
Running(p)   == \E c \in Cpus : curr[c] = p
Online       == {c \in Cpus : phase[c] \in {"up", "inactive"}}
Active       == {c \in Cpus : phase[c] = "up"}

(* A stretch of kernel code on c that does not give the processor up.      *)
InKernel(c) ==
  \/ curr[c] \in Tasks /\ (pc[curr[c]] = "wake" \/ curr[c] \in forced)
  \/ curr[c] = Mt /\ mpc[c] # "schedule"

ScheduleUnforced(c) == \* mutant: the lock to the forced task is not looked at
  /\ c \in Online /\ (~InKernel(c) \/ (curr[c] \in forced /\ pc[curr[c]] # "wake"))
  /\ on_rq' = [p \in Tasks |-> on_rq[p] /\ (p = curr[c] => state[p] # "SLEEP")]
  /\ mqueued' = [mqueued EXCEPT ![c] = @ /\ (curr[c] = Mt => mstate[c] # "SLEEP")]
  /\ mpc' = [mpc EXCEPT ![c] = IF curr[c] = Mt THEN "back" ELSE @]
  /\ LET ready == {p \in Tasks : on_rq'[p] /\ cpu[p] = c}
     IN  \E next \in IF mqueued'[c] THEN {Mt} ELSE IF ready # {} THEN ready ELSE {Idle} :
           curr' = [curr EXCEPT ![c] = next]
  /\ UNCHANGED <<cpu, state, allowed, chosen, call, queue, hand, mstate, plug, forced, raced>>

(* A thread that no processor is tied to can run.                          *)
HasCpu == \E d \in Online : ~InKernel(d)

(* schedule(): the migration thread has the highest priority, which task   *)
(* comes next otherwise is left open.  The patch keeps a forced task.      *)
Schedule(c) ==
  /\ c \in Online /\ ~InKernel(c)
  /\ on_rq' = [p \in Tasks |-> on_rq[p] /\ (p = curr[c] => state[p] # "SLEEP")]
  /\ mqueued' = [mqueued EXCEPT ![c] = @ /\ (curr[c] = Mt => mstate[c] # "SLEEP")]
  /\ mpc' = [mpc EXCEPT ![c] = IF curr[c] = Mt THEN "back" ELSE @]
  /\ LET ready == {p \in Tasks : on_rq'[p] /\ cpu[p] = c}
     IN  \E next \in IF mqueued'[c] THEN {Mt} ELSE IF ready # {} THEN ready ELSE {Idle} :
           curr' = [curr EXCEPT ![c] = next]
  /\ UNCHANGED <<cpu, state, allowed, chosen, call, queue, hand, mstate, plug, forced, raced>>

(* try_to_wake_up(): a task that is still queued only changes its state;   *)
(* for another one a processor is chosen, without a lock.  The scheduling  *)
(* class (external) prefers an allowed one that is online, or the present. *)
WakeUp(p) ==
  IF state[p] # "SLEEP" THEN UNCHANGED <<state, chosen>>
  ELSE IF on_rq[p] THEN state' = [state EXCEPT ![p] = "RUNNING"] /\ UNCHANGED chosen
  ELSE /\ state' = [state EXCEPT ![p] = "WAKING"]
       /\ \E c \in {cpu[p]} \cup (allowed[p] \cap Online) :
            chosen' = [chosen EXCEPT ![p] = IF c = cpu[p] THEN None ELSE c]

WakePlace(p) ==
  /\ chosen[p] # None
  /\ cpu' = [cpu EXCEPT ![p] = chosen[p]]
  /\ chosen' = [chosen EXCEPT ![p] = None]
  /\ UNCHANGED <<curr, on_rq, state, allowed, call, queue, mt, plug, forced, raced>>

WakeActivate(p) ==
  /\ state[p] = "WAKING" /\ chosen[p] = None
  /\ state' = [state EXCEPT ![p] = "RUNNING"]
  /\ on_rq' = [on_rq EXCEPT ![p] = TRUE]
  /\ UNCHANGED <<curr, cpu, allowed, chosen, call, queue, mt, plug, forced, raced>>

(* A task sleeps for something else, and something else wakes it.          *)
Sleep(p) ==
  /\ p \in Sleepers /\ Running(p) /\ pc[p] = "run" /\ state[p] = "RUNNING"
  /\ state' = [state EXCEPT ![p] = "SLEEP"]
  /\ UNCHANGED <<curr, cpu, on_rq, allowed, chosen, call, queue, mt, plug, forced, raced>>

Wake(p) ==
  /\ pc[p] = "run" /\ state[p] = "SLEEP"
  /\ WakeUp(p)
  /\ UNCHANGED <<curr, cpu, on_rq, allowed, call, queue, mt, plug, forced, raced>>

PullRunning(c, p) == \* mutant: a running task is taken, too
  /\ c \in Online /\ cpu[p] \in Online \ {c}
  /\ on_rq[p] /\ c \in allowed[p]
  /\ mqueued[cpu[p]] \/ \E q \in Tasks \ {p} : on_rq[q] /\ cpu[q] = cpu[p]
  /\ cpu' = [cpu EXCEPT ![p] = c]
  /\ UNCHANGED <<curr, on_rq, state, allowed, chosen, call, queue, mt, plug, forced, raced>>

(* load_balance(): pull_task() of a task that can_migrate_task() accepts.  *)
Pull(c, p) ==
  /\ c \in Online /\ cpu[p] \in Online \ {c}
  /\ on_rq[p] /\ ~Running(p) /\ c \in allowed[p]
  /\ mqueued[cpu[p]] \/ \E q \in Tasks \ {p} : on_rq[q] /\ cpu[q] = cpu[p]
  /\ cpu' = [cpu EXCEPT ![p] = c]
  /\ UNCHANGED <<curr, on_rq, state, allowed, chosen, call, queue, mt, plug, forced, raced>>

-----------------------------------------------------------------------------
(* migrate_task(): a task that neither runs nor waits for a processor is   *)
(* moved at once, for another one the caller asks the migration thread.    *)
AskFor(caller, p, c) ==
  /\ queue' = [queue EXCEPT ![cpu[p]] = <<[task |-> p, to |-> c, by |-> caller]>> \o @]
  /\ pc' = [pc EXCEPT ![caller] = "wake"]
  /\ waits' = [waits EXCEPT ![caller] = cpu[p]]
  /\ done' = [done EXCEPT ![caller] = FALSE]
  /\ UNCHANGED cpu

MigrateTaskLeavesSleeper(caller, p, c) == \* mutant: what is not queued need not be moved
  \/ /\ ~on_rq[p] /\ ~Running(p)
     /\ UNCHANGED <<cpu, call, queue>>
  \/ /\ on_rq[p] \/ Running(p)
     /\ AskFor(caller, p, c)

MigrateTask(caller, p, c) ==
  \/ /\ ~on_rq[p] /\ ~Running(p)
     /\ cpu' = [cpu EXCEPT ![p] = c]
     /\ UNCHANGED <<call, queue>>
  \/ /\ on_rq[p] \/ Running(p)
     /\ AskFor(caller, p, c)

CanCall(caller) == Running(caller) /\ pc[caller] = "run" /\ state[caller] = "RUNNING"

(* set_cpus_allowed_ptr(); -EINVAL, for a mask that is offline or a bound  *)
(* thread, changes nothing.                                                *)
SetCpusAllowed(caller, p, mask) ==
  /\ CanCall(caller)
  /\ mask \cap Online # {}
  /\ allowed' = [allowed EXCEPT ![p] = mask]
  /\ raced' = [raced EXCEPT ![p] = state[p] = "WAKING"]
  /\ \/ cpu[p] \in mask /\ UNCHANGED <<cpu, call, queue>>
     \/ cpu[p] \notin mask /\ \E c \in mask \cap Online : MigrateTask(caller, p, c)
  /\ UNCHANGED <<curr, on_rq, state, chosen, mt, plug, forced>>

(* sched_exec() and sched_migrate_task() of the caller, which is queued.   *)
SchedExec(caller, c) ==
  /\ CanCall(caller)
  /\ c # cpu[caller] /\ c \in allowed[caller] \cap Active
  /\ AskFor(caller, caller, c)
  /\ UNCHANGED <<curr, on_rq, state, allowed, chosen, mt, plug, forced, raced>>

WakeMtQueues(caller) == \* mutant: the thread is queued, its state stays
  /\ pc[caller] = "wake"
  /\ mqueued' = [mqueued EXCEPT ![waits[caller]] = TRUE]
  /\ pc' = [pc EXCEPT ![caller] = "wait"]
  /\ UNCHANGED <<curr, tasks, waits, done, queue, hand, mstate, mpc, plug, forced, raced>>

(* wake_up_process() of the migration thread.                              *)
WakeMt(caller) ==
  /\ pc[caller] = "wake"
  /\ mstate' = [mstate EXCEPT ![waits[caller]] = "RUNNING"]
  /\ mqueued' = [mqueued EXCEPT ![waits[caller]] = TRUE]
  /\ pc' = [pc EXCEPT ![caller] = "wait"]
  /\ UNCHANGED <<curr, tasks, waits, done, queue, hand, mpc, plug, forced, raced>>

(* wait_for_completion().                                                  *)
WaitForCompletion(caller) ==
  /\ Running(caller) /\ pc[caller] = "wait" /\ state[caller] = "RUNNING"
  /\ \/ /\ done[caller]
        /\ pc' = [pc EXCEPT ![caller] = "run"]
        /\ waits' = [waits EXCEPT ![caller] = None]
        /\ UNCHANGED state
     \/ /\ ~done[caller]
        /\ state' = [state EXCEPT ![caller] = "SLEEP"]
        /\ UNCHANGED <<pc, waits>>
  /\ UNCHANGED <<curr, cpu, on_rq, allowed, chosen, done, queue, mt, plug, forced, raced>>

(* complete().                                                             *)
Complete(req) ==
  /\ done' = [done EXCEPT ![req.by] = TRUE]
  /\ WakeUp(req.by)

-----------------------------------------------------------------------------
(* __migrate_task() does nothing for a processor that is not active, for a *)
(* task that has left, and for one whose affinity has changed again.       *)
Refused(p, to) == to \notin Active \/ to \notin allowed[p]

MigrateTo(p, from, to) ==
  cpu' = IF cpu[p] # from \/ Refused(p, to) THEN cpu ELSE [cpu EXCEPT ![p] = to]

(* migration_thread() on c.                                                *)
MtRuns(c) == curr[c] = Mt /\ mstate[c] # "absent"

MtTop(c) ==
  /\ MtRuns(c) /\ mpc[c] = "back"
  /\ mstate' = [mstate EXCEPT ![c] = "SLEEP"]
  /\ mpc' = [mpc EXCEPT ![c] = "top"]
  /\ UNCHANGED <<curr, tasks, call, queue, hand, mqueued, plug, forced, raced>>

MtTake(c) ==
  /\ MtRuns(c) /\ mpc[c] = "top" /\ hand[c] = None
  /\ IF queue[c] = <<>>
     THEN mpc' = [mpc EXCEPT ![c] = "schedule"] /\ UNCHANGED <<queue, hand>>
     ELSE /\ queue' = [queue EXCEPT ![c] = Tail(@)]
          /\ hand' = [hand EXCEPT ![c] = [req |-> Head(queue[c]), moved |-> FALSE]]
          /\ UNCHANGED mpc
  /\ UNCHANGED <<curr, tasks, call, mstate, mqueued, plug, forced, raced>>

MtMove(c) ==
  /\ MtRuns(c) /\ hand[c] # None /\ ~hand[c].moved
  /\ LET p  == hand[c].req.task
         to == hand[c].req.to
     IN  /\ MigrateTo(p, c, to)
         /\ raced' = [raced EXCEPT ![p] = @ \/ (cpu[p] = c /\ to \notin Active)]
  /\ hand' = [hand EXCEPT ![c].moved = TRUE]
  /\ UNCHANGED <<curr, on_rq, state, allowed, chosen, call, queue, mstate, mqueued,
                 mpc, plug, forced>>

MtComplete(c) ==
  /\ MtRuns(c) /\ hand[c] # None /\ hand[c].moved
  /\ Complete(hand[c].req)
  /\ hand' = [hand EXCEPT ![c] = None]
  /\ UNCHANGED <<curr, cpu, on_rq, allowed, pc, waits, queue, mstate, mqueued, mpc,
                 plug, forced, raced>>

-----------------------------------------------------------------------------
DyingWithoutIdle(c) == \* mutant: sched_idle_next() is left out
  /\ phase[c] = "inactive"
  /\ \A d \in Cpus : ~InKernel(d)
  /\ \A p \in Tasks : state[p] # "WAKING"
  /\ phase' = [phase EXCEPT ![c] = "dying"]
  /\ scan' = Tasks
  /\ curr' = [curr EXCEPT ![c] = None]
  /\ on_rq' = [p \in Tasks |-> on_rq[p] /\ (p = curr[c] => state[p] # "SLEEP")]
  /\ UNCHANGED <<cpu, state, allowed, chosen, call, queue, mt, dest, forced, raced>>

(* cpu_down() of kernel/cpu.c, one processor at a time: the processor is   *)
(* made inactive, and taken offline when all processors are in             *)
(* stop_machine(), that is, in no stretch that does not give them up; a    *)
(* wake-up is such a stretch of the waker, or of an interrupt.             *)
(* sched_idle_next() then lets its idle thread run for good.               *)
Deactivate(c) ==
  /\ c \in Offlinable /\ Active = Cpus /\ Active # {c}
  /\ phase' = [phase EXCEPT ![c] = "inactive"]
  /\ UNCHANGED <<curr, tasks, call, queue, mt, scan, dest, forced, raced>>

Dying(c) ==
  /\ phase[c] = "inactive"
  /\ \A d \in Cpus : ~InKernel(d)
  /\ \A p \in Tasks : state[p] # "WAKING"
  /\ phase' = [phase EXCEPT ![c] = "dying"]
  /\ scan' = Tasks
  /\ curr' = [curr EXCEPT ![c] = Idle]
  /\ on_rq' = [p \in Tasks |-> on_rq[p] /\ (p = curr[c] => state[p] # "SLEEP")]
  /\ UNCHANGED <<cpu, state, allowed, chosen, call, queue, mt, dest, forced, raced>>

ChooseQueued(c, p) == \* mutant: only what is queued is moved
  /\ phase[c] = "dying" /\ HasCpu
  /\ p \in scan /\ dest = None
  /\ \/ /\ cpu[p] # c \/ ~on_rq[p]
        /\ scan' = scan \ {p}
        /\ UNCHANGED <<allowed, dest>>
     \/ /\ cpu[p] = c /\ on_rq[p]
        /\ allowed' = [allowed EXCEPT ![p] = IF @ \cap Online = {} THEN Cpus ELSE @]
        /\ \E d \in allowed'[p] \cap Online : dest' = [task |-> p, to |-> d]
        /\ UNCHANGED scan
  /\ UNCHANGED <<curr, cpu, on_rq, state, chosen, call, queue, mt, phase, forced, raced>>

(* CPU_DEAD: migrate_live_tasks() looks at each task once;                 *)
(* move_task_off_dead_cpu() chooses a processor, if need be beyond the     *)
(* affinity, and chooses again when __migrate_task() refuses it.           *)
(* It needs a processor that is not in a stretch of somebody else.         *)
ChooseDest(c, p) ==
  /\ phase[c] = "dying" /\ HasCpu
  /\ p \in scan /\ dest = None
  /\ \/ /\ cpu[p] # c
        /\ scan' = scan \ {p}
        /\ UNCHANGED <<allowed, dest>>
     \/ /\ cpu[p] = c
        /\ allowed' = [allowed EXCEPT ![p] = IF @ \cap Online = {} THEN Cpus ELSE @]
        /\ \E d \in allowed'[p] \cap Online : dest' = [task |-> p, to |-> d]
        /\ UNCHANGED scan
  /\ UNCHANGED <<curr, cpu, on_rq, state, chosen, call, queue, mt, phase, forced, raced>>

MoveOffDeadCpu(c) ==
  /\ phase[c] = "dying" /\ dest # None
  /\ MigrateTo(dest.task, c, dest.to)
  /\ scan' = IF cpu[dest.task] = c /\ Refused(dest.task, dest.to)
             THEN scan ELSE scan \ {dest.task}
  /\ dest' = None
  /\ UNCHANGED <<curr, on_rq, state, allowed, chosen, call, queue, mt, phase, forced, raced>>

(* kthread_stop() of the migration thread.                                 *)
StopMt(c) ==
  /\ phase[c] = "dying" /\ scan = {} /\ HasCpu
  /\ phase' = [phase EXCEPT ![c] = "dead"]
  /\ mstate' = [mstate EXCEPT ![c] = "absent"]
  /\ mqueued' = [mqueued EXCEPT ![c] = FALSE]
  /\ mpc' = [mpc EXCEPT ![c] = "back"]
  /\ UNCHANGED <<curr, tasks, call, queue, hand, scan, dest, forced, raced>>

WakeRequestorsLinked(c) == \* mutant: the request stays linked while it is completed
  /\ phase[c] = "dead" /\ HasCpu
  /\ IF queue[c] = <<>>
     THEN /\ phase' = [phase EXCEPT ![c] = "down"]
          /\ UNCHANGED <<queue, done, state, chosen>>
     ELSE /\ \/ ~done[Head(queue[c]).by] /\ UNCHANGED queue
             \/ done[Head(queue[c]).by] /\ queue' = [queue EXCEPT ![c] = Tail(@)]
          /\ Complete(Head(queue[c]))
          /\ UNCHANGED phase
  /\ UNCHANGED <<curr, cpu, on_rq, allowed, pc, waits, mt, scan, dest, forced, raced>>

(* The requests that are left are completed.                               *)
WakeRequestors(c) ==
  /\ phase[c] = "dead" /\ HasCpu
  /\ IF queue[c] = <<>>
     THEN /\ phase' = [phase EXCEPT ![c] = "down"]
          /\ UNCHANGED <<queue, done, state, chosen>>
     ELSE /\ Complete(Head(queue[c]))
          /\ queue' = [queue EXCEPT ![c] = Tail(@)]
          /\ UNCHANGED phase
  /\ UNCHANGED <<curr, cpu, on_rq, allowed, pc, waits, mt, scan, dest, forced, raced>>

UpPrepareOnline(c) == \* mutant: the processor is online before its thread exists
  /\ phase[c] = "down"
  /\ phase' = [phase EXCEPT ![c] = "up"]
  /\ UNCHANGED <<mstate, curr, tasks, call, queue, hand, mqueued, mpc, scan, dest, forced, raced>>

(* cpu_up(): CPU_UP_PREPARE, then CPU_ONLINE or CPU_UP_CANCELED.           *)
UpPrepare(c) ==
  /\ phase[c] = "down"
  /\ phase' = [phase EXCEPT ![c] = "prepared"]
  /\ mstate' = [mstate EXCEPT ![c] = "SLEEP"]
  /\ UNCHANGED <<curr, tasks, call, queue, hand, mqueued, mpc, scan, dest, forced, raced>>

UpOnline(c) ==
  /\ phase[c] = "prepared"
  /\ phase' = [phase EXCEPT ![c] = "up"]
  /\ mstate' = [mstate EXCEPT ![c] = "RUNNING"]
  /\ mqueued' = [mqueued EXCEPT ![c] = TRUE]
  /\ UNCHANGED <<curr, tasks, call, queue, hand, mpc, scan, dest, forced, raced>>

UpCanceled(c) ==
  /\ phase[c] = "prepared"
  /\ phase' = [phase EXCEPT ![c] = "down"]
  /\ mstate' = [mstate EXCEPT ![c] = "absent"]
  /\ UNCHANGED <<curr, tasks, call, queue, hand, mqueued, mpc, scan, dest, forced, raced>>

(* set_pid_force_run() of a task that runs, and the reset.                 *)
SetForced(p) ==
  /\ p \in Forcible /\ forced = {} /\ CanCall(p)
  /\ forced' = {p}
  /\ UNCHANGED <<curr, tasks, call, queue, mt, plug, raced>>

Reset ==
  /\ forced # {}
  /\ forced' = {}
  /\ UNCHANGED <<curr, tasks, call, queue, mt, plug, raced>>

-----------------------------------------------------------------------------
Down(c) ==
  \/ Dying(c) \/ MoveOffDeadCpu(c) \/ StopMt(c) \/ WakeRequestors(c)
  \/ \E p \in Tasks : ChooseDest(c, p)

MtStep(c) == MtTop(c) \/ MtTake(c) \/ MtMove(c) \/ MtComplete(c)

Next ==
  \/ \E c \in Cpus : \/ Schedule(c) \/ MtStep(c) \/ Deactivate(c) \/ Down(c)
                     \/ UpPrepare(c) \/ UpOnline(c) \/ UpCanceled(c)
                     \/ \E p \in Tasks : Pull(c, p)
  \/ \E p \in Tasks : WakePlace(p) \/ WakeActivate(p) \/ Sleep(p) \/ Wake(p) \/ SetForced(p)
  \/ \E p \in Callers :
       \/ WakeMt(p) \/ WaitForCompletion(p)
       \/ \E q \in Tasks, mask \in SUBSET Cpus : SetCpusAllowed(p, q, mask)
       \/ \E c \in Cpus : SchedExec(p, c)
  \/ Reset

Spec == Init /\ [][Next]_vars

-----------------------------------------------------------------------------
(* A task is never moved while it runs, and never runs on a processor that *)
(* is offline.                                                             *)
RunsWhereItIs ==
  \A c \in Cpus :
    /\ curr[c] \in Tasks => cpu[curr[c]] = c /\ on_rq[curr[c]] /\ c \in Online
    /\ curr[c] = Mt => c \in Online /\ mqueued[c]

(* The request lies on the stack of its caller: it is linked, or in the    *)
(* hands of a migration thread, exactly while the caller waits for it.     *)
Linked(p) ==
  Cardinality({ci \in Cpus \X (1 .. Cardinality(Tasks)) :
                 ci[2] <= Len(queue[ci[1]]) /\ queue[ci[1]][ci[2]].by = p})
  + Cardinality({c \in Cpus : hand[c] # None /\ hand[c].req.by = p})

RequestsAreAwaited ==
  \A p \in Tasks : Linked(p) = IF pc[p] # "run" /\ ~done[p] THEN 1 ELSE 0

(* The migration thread that is woken exists.                              *)
MtIsThere == \A p \in Tasks : pc[p] = "wake" => mstate[waits[p]] # "absent"

(* Nobody is left behind on a processor that has gone.                     *)
NobodyLeftBehind ==
  \A c \in Cpus :
    /\ phase[c] \in {"dead", "down", "prepared"} => \A p \in Tasks : cpu[p] # c
    /\ phase[c] \in {"down", "prepared"} => queue[c] = <<>>

(* A task that is on a processor it may not use is asked to leave it,      *)
(* unless its affinity was set during a wake-up, or the processor it       *)
(* should go to was on its way down.                                       *)
Asked(p) ==
  \E c \in {cpu[p]} :
    \/ \E i \in 1 .. Len(queue[c]) : queue[c][i].task = p
    \/ hand[c] # None /\ hand[c].req.task = p /\ ~hand[c].moved

ObeysAffinity ==
  \A p \in Tasks : cpu[p] \notin allowed[p] => Asked(p) \/ raced[p]

(* Tasks, runners and migration threads are where they may be.             *)
WellPlaced == TypeOK /\ RunsWhereItIs /\ MtIsThere /\ ObeysAffinity

(* Every request is answered: the migration thread that has to look at it, *)
(* 7209 to 7228, does not go to sleep before it did, or the processor goes *)
(* and migration_call() answers; and the answer reaches a waiting caller.  *)
WillLook(c) == mqueued[c] /\ (mstate[c] = "RUNNING" \/ mpc[c] = "top")

Answered ==
  /\ \A c \in Cpus : queue[c] # <<>> =>
       \/ \E p \in Callers : pc[p] = "wake" /\ waits[p] = c
       \/ WillLook(c)
       \/ phase[c] \in {"dying", "dead"}
  /\ \A p \in Callers : pc[p] = "wait" /\ done[p] => state[p] # "SLEEP"

(* A request is in one place until its caller has the answer it will get.  *)
Served == RequestsAreAwaited /\ Answered

(* A measured process is not moved: neither migration nor hotplug reaches  *)
(* it before the reset.                                                    *)
ForcedStays ==
  [][\A p \in Tasks : p \in forced /\ Running(p) => cpu'[p] = cpu[p] /\ Running(p)']_vars

-----------------------------------------------------------------------------
(* set_cpus_allowed_ptr(), 7081: the thread is migrated to a proper CPU    *)
(* and scheduled away if the CPU it executes on is removed from the mask.  *)
ScheduledAway ==
  \A p \in Tasks : cpu[p] \notin allowed[p] => Asked(p)
=============================================================================
