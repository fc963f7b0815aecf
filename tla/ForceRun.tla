------------------------------ MODULE ForceRun ------------------------------
(***************************************************************************)
(* set_pid_force_run(), the function the kernel patch adds to sched.c.     *)
(* It stores the pid the scheduler is locked to, 0 for normal scheduling.  *)
(* The function keeps the last argument in a static variable, tests and    *)
(* updates that variable OUTSIDE its spinlock, and is called both by the   *)
(* /proc handlers of os_ctrl (task level) and by its timer handlers        *)
(* (hard-interrupt level), so its statements interleave.                   *)
(***************************************************************************)
EXTENDS Naturals

CONSTANTS
  Cpus,     \* the processors
  Pids      \* process ids that may be forced

ASSUME CpusAssumption == Cpus # {}
ASSUME PidsAssumption == Pids # {} /\ Pids \subseteq Nat \ {0}

Levels == {"task", "irq"}

(***************************************************************************)
(* An execution context is a level of a processor.  CONFIG_PREEMPT_NONE:   *)
(* kernel code at task level gives its processor up only by blocking, and  *)
(* the function never blocks, so one context per level is enough.          *)
(***************************************************************************)
Contexts == Cpus \X Levels
NoOwner  == <<>>

VARIABLES
  pid_force_run,  \* the pid the scheduler is locked to
  last_p_id,      \* static: argument of the last call
  lock,           \* static spinlock: its owner, or NoOwner
  pc,             \* where each context is inside the function
  arg             \* the argument p_id of each context's call

vars == <<pid_force_run, last_p_id, lock, pc, arg>>

Labels == {"idle", "test", "lock", "write", "save"}

TypeOK ==
  /\ pid_force_run \in Pids \cup {0}
  /\ last_p_id \in Pids \cup {0}
  /\ lock \in Contexts \cup {NoOwner}
  /\ pc \in [Contexts -> Labels]
  /\ arg \in [Contexts -> Pids \cup {0}]

Init ==
  /\ pid_force_run = 0
  /\ last_p_id = 0
  /\ lock = NoOwner
  /\ pc = [x \in Contexts |-> "idle"]
  /\ arg = [x \in Contexts |-> 0]

-----------------------------------------------------------------------------
Idle(x) == pc[x] = "idle"
Quiet   == \A x \in Contexts : Idle(x)

(* A processor runs its task level only while no interrupt handler runs.   *)
CanRun(x) == x[2] = "irq" \/ Idle(<<x[1], "irq">>)

(* A call with argument p.                                                 *)
Call(x, p) ==
  /\ Idle(x)
  /\ pc' = [pc EXCEPT ![x] = "test"]
  /\ arg' = [arg EXCEPT ![x] = p]
  /\ UNCHANGED <<pid_force_run, last_p_id, lock>>

TestNonZero(x) ==  \* mutant: the test takes 0 for "nothing to do"
  /\ pc[x] = "test"
  /\ pc' = [pc EXCEPT ![x] = IF arg[x] \notin {0, last_p_id} THEN "lock" ELSE "save"]
  /\ UNCHANGED <<pid_force_run, last_p_id, lock, arg>>

(* The unlocked test: a call that repeats the last argument is skipped.    *)
Test(x) ==
  /\ pc[x] = "test"
  /\ pc' = [pc EXCEPT ![x] = IF arg[x] # last_p_id THEN "lock" ELSE "save"]
  /\ UNCHANGED <<pid_force_run, last_p_id, lock, arg>>

(* spin_lock(): interrupts stay enabled while the lock is held.            *)
Lock(x) ==
  /\ pc[x] = "lock"
  /\ lock = NoOwner
  /\ lock' = x
  /\ pc' = [pc EXCEPT ![x] = "write"]
  /\ UNCHANGED <<pid_force_run, last_p_id, arg>>

WriteForgotten(x) ==  \* mutant: a reset unlocks without the store
  /\ pc[x] = "write"
  /\ pid_force_run' = IF arg[x] = 0 THEN pid_force_run ELSE arg[x]
  /\ lock' = NoOwner
  /\ pc' = [pc EXCEPT ![x] = "save"]
  /\ UNCHANGED <<last_p_id, arg>>

(* The store and spin_unlock().                                            *)
Write(x) ==
  /\ pc[x] = "write"
  /\ pid_force_run' = arg[x]
  /\ lock' = NoOwner
  /\ pc' = [pc EXCEPT ![x] = "save"]
  /\ UNCHANGED <<last_p_id, arg>>

(* The unlocked update of the static variable, and the return.             *)
Save(x) ==
  /\ pc[x] = "save"
  /\ last_p_id' = arg[x]
  /\ pc' = [pc EXCEPT ![x] = "idle"]
  /\ UNCHANGED <<pid_force_run, lock, arg>>

Step(x) == Test(x) \/ Lock(x) \/ Write(x) \/ Save(x)

(***************************************************************************)
(* Unrestricted use: any context may call.  Interrupt handlers only ever   *)
(* reset (os_ctrl.c, kill and sched_reset handlers).                       *)
(***************************************************************************)
Next ==
  \E x \in Contexts :
    /\ CanRun(x)
    /\ \/ Step(x)
       \/ Call(x, 0)
       \/ x[2] = "task" /\ \E p \in Pids : Call(x, p)

(* A handler that can go on does; so does the task level, although handlers*)
(* keep interrupting it: they are started by one-shot timers.              *)
Fairness ==
  \A c \in Cpus : LET handler == <<c, "irq">>
                      task    == <<c, "task">>
                  IN  WF_vars(Step(handler)) /\ SF_vars(CanRun(task) /\ Step(task))

Spec == Init /\ [][Next]_vars /\ Fairness

(***************************************************************************)
(* Disciplined use: a call that locks the scheduler overlaps no other call,*)
(* while resets overlap each other freely.                                 *)
(***************************************************************************)
Forcing == \E x \in Contexts : ~Idle(x) /\ arg[x] # 0

DisciplinedNext ==
  \E x \in Contexts :
    /\ CanRun(x)
    /\ \/ Step(x)
       \/ ~Forcing /\ Call(x, 0)
       \/ x[2] = "task" /\ Quiet /\ \E p \in Pids : Call(x, p)

DisciplinedSpec == Init /\ [][DisciplinedNext]_vars

-----------------------------------------------------------------------------
(* With no call in progress the static copy equals the value the scheduler *)
(* reads: otherwise the test would skip the next call that must be made.   *)
Settled == Quiet => pid_force_run = last_p_id

(* With it, an inductive invariant of disciplined use: the spinlock is     *)
(* owned exactly by the context at its store; a call that locks overlaps   *)
(* no other, the two variables agree until its store, and after it the     *)
(* stored value is its argument; while only resets run the scheduler is    *)
(* unlocked or holds the old pid, and is unlocked as soon as one of them   *)
(* has nothing left but the save.                                          *)
LockOwned == \A x \in Contexts : pc[x] = "write" <=> lock = x
ForcingAlone ==
  \A x, y \in Contexts : ~Idle(x) /\ arg[x] # 0 /\ x # y => Idle(y)
ForcingProgress ==
  \A x \in Contexts : ~Idle(x) /\ arg[x] # 0 =>
    pid_force_run = IF pc[x] = "save" THEN arg[x] ELSE last_p_id
ResetsConverge ==
  ~Forcing => /\ pid_force_run \in {0, last_p_id}
              /\ \A x \in Contexts : pc[x] = "save" => pid_force_run = 0
DisciplineInv ==
  TypeOK /\ LockOwned /\ ForcingAlone /\ ForcingProgress /\ ResetsConverge /\ Settled

(* Whatever the test skipped, at the return of a call the scheduler is     *)
(* locked to the pid that was asked for (or to none, after a reset).       *)
DoneAtReturn ==
  \A x \in Contexts : pc[x] = "save" /\ pc'[x] = "idle" => pid_force_run' = arg[x]
TakesEffect == [][DoneAtReturn]_vars

(* Every call returns: no context spins for ever on the lock.              *)
CallReturns == \A x \in Contexts : ~Idle(x) ~> Idle(x)
=============================================================================
