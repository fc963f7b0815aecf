-------------------------- MODULE Schedule_proofs --------------------------
(***************************************************************************)
(* Theorems about Schedule, for any processors and processes.              *)
(*                                                                         *)
(* The inductive invariant says where a thread that is not current can be  *)
(* (Parked), when a process is off the queue although it runs (Queued),    *)
(* where the holder of the Big Kernel Lock is (BklPlace), and that the     *)
(* forced process has computed its local sched_block before it reaches any *)
(* statement that depends on it (ForcedPlace).                             *)
(***************************************************************************)
EXTENDS Schedule, TLAPS

Parked ==
  /\ \A x \in Threads : ~OnCpu(x) => pc[x] \in {"post", "born"}
  /\ \A c \in Cpus : curr[c] \in Pids \/ curr[c] = Swapper(c)

Queued ==
  \A p \in Pids :
    /\ OnCpu(p) => (on_rq[p] \/ pc[p] = "balance") /\ pc[p] # "born"
    /\ pc[p] = "born" \/ state[p] \in {"NONE", "WAKING"} => ~on_rq[p] /\ ~OnCpu(p)
    /\ pc[p] = "born" => state[p] = "RUNNING"

BklPlace ==
  /\ kernel_flag # 0 =>
       /\ OnCpu(kernel_flag) /\ bkl_depth[kernel_flag]
       /\ \/ pc[kernel_flag] \in {"run", "enter", "recheck"}
          \/ sched_block[kernel_flag] /\ pc[kernel_flag] \in {"nonpreempt", "post"}
  /\ \A p \in Pids : bkl_depth[p] /\ pc[p] \in {"run", "enter", "recheck"} => kernel_flag = p

ForcedPlace ==
  pid_force_run > 1 =>
    /\ OnCpu(pid_force_run)
    /\ \/ pc[pid_force_run] \in {"run", "enter"}
       \/ sched_block[pid_force_run] /\ pc[pid_force_run] \in {"nonpreempt", "post", "recheck"}

IInv == /\ TypeOK /\ OneProcessor /\ RunnableIsQueued /\ Parked /\ Queued
        /\ BklPlace /\ ForcedPlace

-----------------------------------------------------------------------------
(* Processes and idle threads are told apart by the sign of the number.    *)
LEMMA ThreadFacts ==
  /\ \A c \in Cpus : Swapper(c) \in Threads /\ Swapper(c) \notin Pids
  /\ \A c, d \in Cpus : Swapper(c) = Swapper(d) => c = d
  /\ \A p \in Pids : p \in Threads /\ p # 0 /\ p \in Nat
  /\ 0 \notin Threads
  /\ \A x \in Threads \ Pids : \E c \in Cpus : x = Swapper(c)
BY CpusAssumption, PidsAssumption DEF Swapper, Swappers, Threads

(* The initial state satisfies the invariant.                              *)
LEMMA InitIInv == Init => IInv
<1>. SUFFICES ASSUME Init PROVE IInv
  OBVIOUS
<1>1. TypeOK
  BY ThreadFacts DEF Init, TypeOK, States, Labels
<1>2. OneProcessor /\ RunnableIsQueued /\ Parked
  <2>1. \A x \in Threads \ Pids : OnCpu(x)
    BY ThreadFacts DEF Init, OnCpu
  <2>2. OneProcessor /\ RunnableIsQueued
    BY ThreadFacts DEF Init, OneProcessor, RunnableIsQueued
  <2>3. \A c \in Cpus : curr[c] = Swapper(c)
    BY DEF Init
  <2>4. \A x \in Threads : x \in Pids => pc[x] = "post"
    BY DEF Init
  <2>. QED BY <2>1, <2>2, <2>3, <2>4 DEF Parked
<1>3. Queued
  <2>1. \A p \in Pids : ~OnCpu(p)
    BY ThreadFacts DEF Init, OnCpu
  <2>2. \A p \in Pids : pc[p] = "post" /\ (on_rq[p] <=> p \in First)
    BY ThreadFacts DEF Init
  <2>. QED BY <2>1, <2>2 DEF Init, Queued
<1>4. BklPlace /\ ForcedPlace
  BY DEF Init, BklPlace, ForcedPlace
<1>. QED BY <1>1, <1>2, <1>3, <1>4 DEF IInv

(* CheckPreemptCurr() touches nothing but the flags of threads.            *)
LEMMA CheckPreemptType ==
  ASSUME TypeOK, NEW c \in Cpus, CheckPreemptCurr(c)
  PROVE  need_resched' \in [Threads -> BOOLEAN]
BY DEF CheckPreemptCurr, TypeOK

-----------------------------------------------------------------------------
(* Steps that move no thread: curr stays.                                  *)
LEMMA EnterStep ==
  ASSUME IInv, NEW c \in Cpus, NEW x \in Threads, Enter(c, x)
  PROVE  IInv'
<1>. DEFINE block == pid_force_run > 1 /\ Pid(x) = pid_force_run
<1>1. /\ curr[c] = x /\ pc[x] = "enter" /\ curr' = curr
      /\ sched_block' = [sched_block EXCEPT ![x] = block]
      /\ kernel_flag' = IF ~block /\ InBkl(x) THEN 0 ELSE kernel_flag
      /\ pc' = [pc EXCEPT ![x] = "nonpreempt"]
      /\ block \in BOOLEAN
      /\ UNCHANGED <<cpu, on_rq, state, need_resched, preempt_active, bkl_depth,
                     pid_force_run>>
  BY DEF Enter
<1>2. TypeOK'
  BY <1>1 DEF IInv, TypeOK, Labels
<1>3. \A y : OnCpu(y)' <=> OnCpu(y)
  BY <1>1 DEF OnCpu
<1>4. OneProcessor' /\ RunnableIsQueued'
  BY <1>1 DEF IInv, TypeOK, OneProcessor, RunnableIsQueued
<1>5. Parked' /\ Queued'
  BY <1>1, <1>3, ThreadFacts DEF IInv, TypeOK, Parked, Queued, OnCpu
<1>6. ForcedPlace'
  <2>. SUFFICES ASSUME pid_force_run > 1
                PROVE  /\ OnCpu(pid_force_run)
                       /\ \/ pc'[pid_force_run] \in {"run", "enter"}
                          \/ /\ sched_block'[pid_force_run]
                             /\ pc'[pid_force_run] \in {"nonpreempt", "post", "recheck"}
    BY <1>1, <1>3 DEF ForcedPlace
  <2>1. pid_force_run \in Pids /\ pid_force_run \in Threads
    BY ThreadFacts DEF IInv, TypeOK
  <2>2. CASE pid_force_run = x
    <3>1. block
      BY <2>1, <2>2 DEF Pid
    <3>2. sched_block'[x] /\ pc'[x] = "nonpreempt"
      BY <1>1, <3>1 DEF IInv, TypeOK
    <3>. QED BY <2>2, <3>2 DEF IInv, ForcedPlace
  <2>3. CASE pid_force_run # x
    <3>1. /\ pc'[pid_force_run] = pc[pid_force_run]
          /\ sched_block'[pid_force_run] = sched_block[pid_force_run]
      BY <1>1, <2>1, <2>3 DEF IInv, TypeOK
    <3>. QED BY <3>1 DEF IInv, ForcedPlace
  <2>. QED BY <2>2, <2>3
<1>7. BklPlace'
  <2>1. \A y \in Threads \ {x} : pc'[y] = pc[y] /\ sched_block'[y] = sched_block[y]
    BY <1>1 DEF IInv, TypeOK
  <2>2. pc'[x] = "nonpreempt" /\ (sched_block'[x] <=> block)
    BY <1>1 DEF IInv, TypeOK
  <2>3. kernel_flag = x => InBkl(x)
    BY <1>1, ThreadFacts DEF IInv, TypeOK, BklPlace, InBkl
  <2>. QED BY <1>1, <1>3, <2>1, <2>2, ThreadFacts DEF IInv, TypeOK, BklPlace, InBkl
<1>. QED BY <1>2, <1>4, <1>5, <1>6, <1>7 DEF IInv

(* A thread moves on inside schedule() without a switch, from a place where*)
(* it is current to another such place.                                    *)
LEMMA MoveOn ==
  ASSUME IInv, NEW x \in Threads, OnCpu(x), pc[x] # "balance",
         NEW to \in {"run", "enter", "nonpreempt", "post", "recheck"},
         pc' = [pc EXCEPT ![x] = to],
         UNCHANGED <<curr, cpu, on_rq, state>>
  PROVE  /\ OneProcessor' /\ RunnableIsQueued' /\ Parked' /\ Queued'
         /\ \A y : OnCpu(y)' <=> OnCpu(y)
         /\ pc'[x] = to /\ \A y \in Threads \ {x} : pc'[y] = pc[y]
<1>1. \A y : OnCpu(y)' <=> OnCpu(y)
  BY DEF OnCpu
<1>2. pc'[x] = to /\ \A y \in Threads \ {x} : pc'[y] = pc[y]
  BY DEF IInv, TypeOK
<1>3. OneProcessor'
  BY DEF IInv, OneProcessor
<1>4. RunnableIsQueued'
  BY <1>2, ThreadFacts DEF IInv, RunnableIsQueued, Queued
<1>5. Parked'
  BY <1>1, <1>2 DEF IInv, Parked
<1>6. Queued'
  BY <1>1, <1>2, ThreadFacts DEF IInv, Queued
<1>. QED BY <1>1, <1>2, <1>3, <1>4, <1>5, <1>6

LEMMA LockedBlockedStep ==
  ASSUME IInv, NEW c \in Cpus, NEW x \in Threads, LockedBlocked(c, x)
  PROVE  IInv'
<1>1. /\ curr[c] = x /\ pc[x] = "nonpreempt" /\ sched_block[x]
      /\ pc' = [pc EXCEPT ![x] = "post"]
      /\ UNCHANGED <<curr, cpu, on_rq, need_resched, sched_block, preempt_active,
                     lockvars, pid_force_run>>
  BY DEF LockedBlocked
<1>2. /\ pc'[x] = "post" /\ \A y \in Threads \ {x} : pc'[y] = pc[y]
      /\ \A y : OnCpu(y)' <=> OnCpu(y)
      /\ OnCpu(x)
  BY <1>1 DEF IInv, TypeOK, OnCpu
<1>3. \/ state' = state
      \/ x \in Pids /\ state[x] = "SLEEP" /\ state' = [state EXCEPT ![x] = "RUNNING"]
  BY DEF LockedBlocked, TaskState
<1>4. TypeOK'
  BY <1>1, <1>3 DEF IInv, TypeOK, States, Labels, lockvars
<1>5. \A p \in Pids : state'[p] = state[p] \/ (p = x /\ state[p] = "SLEEP" /\ state'[p] = "RUNNING")
  BY <1>3 DEF IInv, TypeOK
<1>6. OneProcessor' /\ Parked'
  BY <1>1, <1>2 DEF IInv, OneProcessor, Parked
<1>7. x \in Pids => on_rq[x]
  BY <1>1, <1>2 DEF IInv, Queued
<1>8. RunnableIsQueued' /\ Queued'
  BY <1>1, <1>2, <1>5, <1>7, ThreadFacts DEF IInv, RunnableIsQueued, Queued
<1>9. BklPlace'
  BY <1>1, <1>2, ThreadFacts DEF IInv, TypeOK, BklPlace, lockvars
<1>10. ForcedPlace'
  BY <1>1, <1>2, ThreadFacts DEF IInv, TypeOK, ForcedPlace
<1>. QED BY <1>4, <1>6, <1>8, <1>9, <1>10 DEF IInv

LEMMA PostStep ==
  ASSUME IInv, NEW c \in Cpus, NEW x \in Threads, Post(c, x)
  PROVE  IInv'
<1>1. /\ curr[c] = x /\ pc[x] = "post" /\ OnCpu(x)
      /\ UNCHANGED <<curr, cpu, on_rq, state, need_resched, sched_block,
                     preempt_active, bkl_depth, pid_force_run>>
  BY DEF Post, OnCpu
<1>2. CASE ~InBkl(x) /\ pc' = [pc EXCEPT ![x] = "recheck"] /\ kernel_flag' = kernel_flag
  <2>1. TypeOK'
    BY <1>1, <1>2 DEF IInv, TypeOK, Labels
  <2>2. /\ OneProcessor' /\ RunnableIsQueued' /\ Parked' /\ Queued'
        /\ \A y : OnCpu(y)' <=> OnCpu(y)
        /\ pc'[x] = "recheck" /\ \A y \in Threads \ {x} : pc'[y] = pc[y]
    BY <1>1, <1>2, MoveOn
  <2>3. BklPlace'
    BY <1>1, <1>2, <2>2, ThreadFacts DEF IInv, TypeOK, BklPlace, InBkl
  <2>4. ForcedPlace'
    BY <1>1, <2>2, ThreadFacts DEF IInv, TypeOK, ForcedPlace
  <2>. QED BY <2>1, <2>2, <2>3, <2>4 DEF IInv
<1>3. CASE InBkl(x) /\ kernel_flag = 0 /\ kernel_flag' = x /\ pc' = [pc EXCEPT ![x] = "recheck"]
  <2>1. TypeOK'
    BY <1>1, <1>3 DEF IInv, TypeOK, Labels, InBkl
  <2>2. /\ OneProcessor' /\ RunnableIsQueued' /\ Parked' /\ Queued'
        /\ \A y : OnCpu(y)' <=> OnCpu(y)
        /\ pc'[x] = "recheck" /\ \A y \in Threads \ {x} : pc'[y] = pc[y]
    BY <1>1, <1>3, MoveOn
  <2>3. BklPlace'
    BY <1>1, <1>3, <2>2, ThreadFacts DEF IInv, TypeOK, BklPlace, InBkl
  <2>4. ForcedPlace'
    BY <1>1, <2>2, ThreadFacts DEF IInv, TypeOK, ForcedPlace
  <2>. QED BY <2>1, <2>2, <2>3, <2>4 DEF IInv
<1>4. CASE InBkl(x) /\ kernel_flag # 0 /\ pc' = [pc EXCEPT ![x] = "nonpreempt"]
           /\ kernel_flag' = kernel_flag
  <2>1. TypeOK'
    BY <1>1, <1>4 DEF IInv, TypeOK, Labels
  <2>2. /\ OneProcessor' /\ RunnableIsQueued' /\ Parked' /\ Queued'
        /\ \A y : OnCpu(y)' <=> OnCpu(y)
        /\ pc'[x] = "nonpreempt" /\ \A y \in Threads \ {x} : pc'[y] = pc[y]
    BY <1>1, <1>4, MoveOn
  <2>3. BklPlace'
    BY <1>1, <1>4, <2>2, ThreadFacts DEF IInv, TypeOK, BklPlace, InBkl
  <2>4. ForcedPlace'
    BY <1>1, <2>2, ThreadFacts DEF IInv, TypeOK, ForcedPlace
  <2>. QED BY <2>1, <2>2, <2>3, <2>4 DEF IInv
<1>. QED BY <1>2, <1>3, <1>4 DEF Post

(* Recheck and the four calls of schedule().                               *)
LEMMA RecheckOrCall ==
  ASSUME IInv, NEW c \in Cpus, NEW x \in Threads,
         \/ Recheck(c, x) \/ Call(c, x) \/ CondResched(c, x)
         \/ sys_sched_yield(c, x) \/ Exit(c, x)
  PROVE  IInv'
<1>1. PICK to \in {"run", "enter"} :
        /\ curr[c] = x /\ pc[x] \in {"recheck", "run"}
        /\ pc[x] = "run" => to = "enter"
        /\ pc' = [pc EXCEPT ![x] = to]
        /\ UNCHANGED <<curr, cpu, on_rq, need_resched, sched_block, lockvars, pid_force_run>>
  <2>1. CASE Recheck(c, x)
    <3>1. CASE need_resched[x]
      BY <2>1, <3>1 DEF Recheck
    <3>2. CASE ~need_resched[x]
      BY <2>1, <3>2 DEF Recheck
    <3>. QED BY <3>1, <3>2
  <2>2. CASE Call(c, x)
    BY <2>2 DEF Call, Runs
  <2>3. CASE CondResched(c, x)
    BY <2>3 DEF CondResched, Runs
  <2>4. CASE Exit(c, x)
    BY <2>4 DEF Exit, Runs
  <2>5. CASE sys_sched_yield(c, x)
    BY <2>5 DEF sys_sched_yield, Runs
  <2>. QED BY <2>1, <2>2, <2>3, <2>4, <2>5
<1>2. preempt_active' \in [Threads -> BOOLEAN]
  BY DEF IInv, TypeOK, Recheck, Call, CondResched, sys_sched_yield, Exit
<1>3. state' = state \/ (x \in Pids /\ state' = [state EXCEPT ![x] = "DEAD"])
  BY DEF Recheck, Call, CondResched, sys_sched_yield, Exit
<1>4. TypeOK'
  BY <1>1, <1>2, <1>3 DEF IInv, TypeOK, States, Labels, lockvars
<1>5. /\ OnCpu(x) /\ \A y : OnCpu(y)' <=> OnCpu(y)
      /\ pc'[x] = to /\ \A y \in Threads \ {x} : pc'[y] = pc[y]
  BY <1>1 DEF IInv, TypeOK, OnCpu
<1>6. \A p \in Pids : state'[p] = state[p] \/ (p = x /\ state'[p] = "DEAD")
  BY <1>3 DEF IInv, TypeOK
<1>7. OneProcessor' /\ Parked'
  BY <1>1, <1>5 DEF IInv, OneProcessor, Parked
<1>8. RunnableIsQueued' /\ Queued'
  BY <1>1, <1>5, <1>6, ThreadFacts DEF IInv, RunnableIsQueued, Queued
<1>9. BklPlace'
  BY <1>1, <1>5, ThreadFacts DEF IInv, TypeOK, BklPlace, lockvars
<1>10. ForcedPlace'
  BY <1>1, <1>5, ThreadFacts DEF IInv, TypeOK, ForcedPlace
<1>. QED BY <1>4, <1>7, <1>8, <1>9, <1>10 DEF IInv

-----------------------------------------------------------------------------
(* Steps that leave every thread where it is.                              *)
LEMMA StillPlaced ==
  ASSUME IInv, UNCHANGED <<curr, pc, sched_block, lockvars, pid_force_run>>
  PROVE  /\ Parked' /\ BklPlace' /\ ForcedPlace'
         /\ \A y : OnCpu(y)' <=> OnCpu(y)
<1>1. \A y : OnCpu(y)' <=> OnCpu(y)
  BY DEF OnCpu
<1>. QED BY <1>1 DEF IInv, Parked, BklPlace, ForcedPlace, lockvars

LEMMA SetStateStep ==
  ASSUME IInv, NEW c \in Cpus, NEW x \in Threads, SetState(c, x)
  PROVE  IInv'
<1>1. PICK s \in {"RUNNING", "SLEEP"} : state' = [state EXCEPT ![x] = s]
  BY DEF SetState
<1>2. /\ curr[c] = x /\ pc[x] = "run" /\ x \in Pids /\ OnCpu(x)
      /\ UNCHANGED <<curr, cpu, on_rq, need_resched, pc, sched_block, preempt_active,
                     lockvars, pid_force_run>>
  BY DEF SetState, Runs, OnCpu
<1>3. /\ Parked' /\ BklPlace' /\ ForcedPlace'
      /\ \A y : OnCpu(y)' <=> OnCpu(y)
  BY <1>2, StillPlaced
<1>4. TypeOK'
  BY <1>1, <1>2 DEF IInv, TypeOK, States, lockvars
<1>5. on_rq[x]
  BY <1>2 DEF IInv, Queued
<1>6. OneProcessor'
  BY <1>2 DEF IInv, OneProcessor
<1>7. RunnableIsQueued' /\ Queued'
  BY <1>1, <1>2, <1>3, <1>5 DEF IInv, TypeOK, RunnableIsQueued, Queued
<1>. QED BY <1>3, <1>4, <1>6, <1>7 DEF IInv

LEMMA BklStep ==
  ASSUME IInv, NEW c \in Cpus, NEW x \in Threads,
         LockKernel(c, x) \/ UnlockKernel(c, x)
  PROVE  IInv'
<1>1. /\ curr[c] = x /\ pc[x] = "run" /\ x \in Pids /\ OnCpu(x)
      /\ UNCHANGED <<curr, cpu, on_rq, state, need_resched, pc, sched_block,
                     preempt_active, pid_force_run>>
  BY BklAssumption DEF LockKernel, UnlockKernel, Runs, OnCpu
<1>2. \A y : OnCpu(y)' <=> OnCpu(y)
  BY <1>1 DEF OnCpu
<1>3. TypeOK'
  BY <1>1 DEF IInv, TypeOK, LockKernel, UnlockKernel
<1>4. OneProcessor' /\ RunnableIsQueued' /\ Parked' /\ Queued' /\ ForcedPlace'
  BY <1>1, <1>2 DEF IInv, OneProcessor, RunnableIsQueued, Parked, Queued, ForcedPlace
<1>5. BklPlace'
  <2>1. CASE LockKernel(c, x)
    BY <1>1, <1>2, <2>1, ThreadFacts DEF IInv, TypeOK, BklPlace, LockKernel
  <2>2. CASE UnlockKernel(c, x)
    BY <1>1, <1>2, <2>2, ThreadFacts DEF IInv, TypeOK, BklPlace, UnlockKernel
  <2>. QED BY <2>1, <2>2
<1>. QED BY <1>3, <1>4, <1>5 DEF IInv

LEMMA ForkStep ==
  ASSUME IInv, NEW c \in Cpus, NEW x \in Threads, NEW child \in Pids, Fork(c, x, child)
  PROVE  IInv'
<1>1. /\ state[child] = "NONE" /\ state' = [state EXCEPT ![child] = "RUNNING"]
      /\ pc' = [pc EXCEPT ![child] = "born"]
      /\ UNCHANGED <<curr, on_rq, need_resched, sched_block, preempt_active, lockvars,
                     pid_force_run>>
  BY DEF Fork
<1>2. cpu' \in [Pids -> Cpus] /\ \A p \in Pids \ {child} : cpu'[p] = cpu[p]
  BY DEF Fork, IInv, TypeOK
<1>3. ~on_rq[child] /\ ~OnCpu(child) /\ \A y : OnCpu(y)' <=> OnCpu(y)
  BY <1>1 DEF IInv, Queued, OnCpu
<1>4. TypeOK'
  BY <1>1, <1>2, ThreadFacts DEF IInv, TypeOK, States, Labels, lockvars
<1>5. /\ pc'[child] = "born" /\ state'[child] = "RUNNING"
      /\ \A y \in Threads \ {child} : pc'[y] = pc[y]
      /\ \A p \in Pids \ {child} : state'[p] = state[p]
  BY <1>1, ThreadFacts DEF IInv, TypeOK
<1>6. OneProcessor'
  BY <1>1, <1>2, <1>3 DEF IInv, TypeOK, OneProcessor, OnCpu
<1>7. RunnableIsQueued' /\ Queued' /\ Parked'
  BY <1>1, <1>3, <1>5, ThreadFacts DEF IInv, RunnableIsQueued, Queued, Parked
<1>8. BklPlace'
  BY <1>1, <1>3, <1>5, ThreadFacts DEF IInv, TypeOK, BklPlace, lockvars
<1>9. ForcedPlace'
  BY <1>1, <1>3, <1>5, ThreadFacts DEF IInv, TypeOK, ForcedPlace
<1>. QED BY <1>4, <1>6, <1>7, <1>8, <1>9 DEF IInv

LEMMA WakeStep ==
  ASSUME IInv, NEW p \in Pids, Wake(p)
  PROVE  IInv'
<1>1. UNCHANGED <<curr, pc, sched_block, preempt_active, lockvars, pid_force_run>>
  BY DEF Wake, WakeQueued, WakeCurrent, WakeMark, WakeActivate
<1>2. /\ Parked' /\ BklPlace' /\ ForcedPlace'
      /\ \A y : OnCpu(y)' <=> OnCpu(y)
  BY <1>1, StillPlaced
<1>3. need_resched' \in [Threads -> BOOLEAN]
  BY CheckPreemptType DEF Wake, WakeQueued, WakeCurrent, WakeMark, WakeActivate, IInv, TypeOK
<1>4. /\ cpu' \in [Pids -> Cpus]
      /\ \A q \in Pids : cpu'[q] = cpu[q] \/ ~OnCpu(q)
  BY DEF Wake, WakeQueued, WakeCurrent, WakeMark, WakeActivate, IInv, TypeOK
<1>5. PICK to \in {"RUNNING", "WAKING"} :
        /\ state' = [state EXCEPT ![p] = to]
        /\ to = "RUNNING" => \/ on_rq' = [on_rq EXCEPT ![p] = TRUE]
                             \/ on_rq[p] /\ on_rq' = on_rq
        /\ to = "WAKING" => ~on_rq[p] /\ ~OnCpu(p) /\ on_rq' = on_rq
        /\ state[p] \in {"SLEEP", "WAKING"}
  BY DEF Wake, WakeQueued, WakeCurrent, WakeMark, WakeActivate
<1>6. TypeOK'
  BY <1>1, <1>3, <1>4, <1>5 DEF IInv, TypeOK, States, lockvars
<1>7. OneProcessor'
  BY <1>1, <1>4 DEF IInv, TypeOK, OneProcessor, OnCpu
<1>8. /\ \A q \in Pids \ {p} : state'[q] = state[q] /\ on_rq'[q] = on_rq[q]
      /\ state'[p] = to
      /\ to = "RUNNING" => on_rq'[p]
      /\ to = "WAKING" => ~on_rq'[p]
  BY <1>5 DEF IInv, TypeOK
<1>9. pc[p] # "born"
  BY <1>5 DEF IInv, Queued
<1>10. RunnableIsQueued' /\ Queued'
  BY <1>1, <1>2, <1>5, <1>8, <1>9 DEF IInv, RunnableIsQueued, Queued
<1>. QED BY <1>2, <1>6, <1>7, <1>10 DEF IInv

LEMMA WakeUpNewStep ==
  ASSUME IInv, NEW p \in Pids, WakeUpNew(p)
  PROVE  IInv'
<1>1. /\ pc[p] = "born" /\ pc' = [pc EXCEPT ![p] = "post"]
      /\ on_rq' = [on_rq EXCEPT ![p] = TRUE]
      /\ CheckPreemptCurr(cpu[p])
      /\ UNCHANGED <<curr, cpu, state, sched_block, preempt_active, lockvars,
                     pid_force_run>>
  BY DEF WakeUpNew
<1>2. /\ state[p] = "RUNNING" /\ ~OnCpu(p)
      /\ \A y : OnCpu(y)' <=> OnCpu(y)
  BY <1>1 DEF IInv, Queued, OnCpu
<1>3. need_resched' \in [Threads -> BOOLEAN]
  BY <1>1, CheckPreemptType DEF IInv, TypeOK
<1>4. TypeOK'
  BY <1>1, <1>3, ThreadFacts DEF IInv, TypeOK, Labels, lockvars
<1>5. /\ pc'[p] = "post" /\ \A y \in Threads \ {p} : pc'[y] = pc[y]
      /\ on_rq'[p] /\ \A q \in Pids \ {p} : on_rq'[q] = on_rq[q]
  BY <1>1, ThreadFacts DEF IInv, TypeOK
<1>6. OneProcessor' /\ RunnableIsQueued' /\ Queued' /\ Parked'
  BY <1>1, <1>2, <1>5, ThreadFacts DEF IInv, OneProcessor, RunnableIsQueued, Queued, Parked
<1>7. BklPlace'
  BY <1>1, <1>2, <1>5, ThreadFacts DEF IInv, TypeOK, BklPlace, lockvars
<1>8. ForcedPlace'
  BY <1>1, <1>2, <1>5, ThreadFacts DEF IInv, TypeOK, ForcedPlace
<1>. QED BY <1>4, <1>6, <1>7, <1>8 DEF IInv

(* Tick, load balancing and the lock of the scheduler.                     *)
LEMMA TickPullForceStep ==
  ASSUME IInv,
         \/ \E c \in Cpus : Tick(c) \/ \E p \in Pids : Pull(c, p)
         \/ Reset \/ ForceSelf
  PROVE  IInv'
<1>1. ASSUME NEW c \in Cpus, Tick(c) PROVE IInv'
  <2>1. UNCHANGED <<curr, cpu, on_rq, state, pc, sched_block, preempt_active,
                    lockvars, pid_force_run>>
    BY <1>1 DEF Tick
  <2>2. need_resched' \in [Threads -> BOOLEAN]
    BY <1>1 DEF Tick, IInv, TypeOK
  <2>3. Parked' /\ BklPlace' /\ ForcedPlace' /\ \A y : OnCpu(y)' <=> OnCpu(y)
    BY <2>1, StillPlaced
  <2>. QED
    BY <2>1, <2>2, <2>3 DEF IInv, TypeOK, OneProcessor, RunnableIsQueued, Queued, lockvars
<1>2. ASSUME NEW c \in Cpus, NEW p \in Pids, Pull(c, p) PROVE IInv'
  <2>1. /\ ~OnCpu(p) /\ cpu' = [cpu EXCEPT ![p] = c]
        /\ CheckPreemptCurr(c)
        /\ UNCHANGED <<curr, on_rq, state, pc, sched_block, preempt_active,
                       lockvars, pid_force_run>>
    BY <1>2 DEF Pull, Movable
  <2>2. need_resched' \in [Threads -> BOOLEAN]
    BY <2>1, CheckPreemptType DEF IInv
  <2>3. Parked' /\ BklPlace' /\ ForcedPlace' /\ \A y : OnCpu(y)' <=> OnCpu(y)
    BY <2>1, StillPlaced
  <2>4. OneProcessor'
    BY <2>1 DEF IInv, TypeOK, OneProcessor, OnCpu
  <2>. QED
    BY <2>1, <2>2, <2>3, <2>4 DEF IInv, TypeOK, RunnableIsQueued, Queued, lockvars
<1>3. CASE Reset
  <2>1. UNCHANGED <<curr, cpu, on_rq, state, need_resched, pc, sched_block,
                    preempt_active, lockvars>> /\ pid_force_run' = 0
    BY <1>3 DEF Reset
  <2>2. \A y : OnCpu(y)' <=> OnCpu(y)
    BY <2>1 DEF OnCpu
  <2>. QED
    BY <2>1, <2>2 DEF IInv, TypeOK, OneProcessor, RunnableIsQueued, Parked, Queued,
                      BklPlace, ForcedPlace, lockvars
<1>4. ASSUME NEW c \in Cpus, NEW p \in Pids, Runs(c, p), LockTo(p) PROVE IInv'
  <2>1. UNCHANGED <<curr, cpu, on_rq, state, need_resched, pc, sched_block,
                    preempt_active, lockvars>> /\ pid_force_run' = p
    BY <1>4 DEF LockTo
  <2>2. OnCpu(p) /\ pc[p] = "run" /\ \A y : OnCpu(y)' <=> OnCpu(y)
    BY <1>4, <2>1 DEF OnCpu, Runs
  <2>3. ForcedPlace'
    BY <2>1, <2>2 DEF ForcedPlace
  <2>. QED
    BY <2>1, <2>2, <2>3 DEF IInv, TypeOK, OneProcessor, RunnableIsQueued, Parked,
                            Queued, BklPlace, lockvars
<1>. QED BY <1>1, <1>2, <1>3, <1>4 DEF ForceSelf

-----------------------------------------------------------------------------
(* The stretch under the queue's lock, and the switch.                     *)

(* Thread x gives the processor to next, which waits on c, or to itself.   *)
LEMMA SwitchStep ==
  ASSUME IInv, NEW c \in Cpus, NEW x \in Threads, NEW next \in Threads,
         curr[c] = x,
         curr' = [curr EXCEPT ![c] = next],
         pc' = [pc EXCEPT ![x] = "post"],
         cpu' \in [Pids -> Cpus],
         \A p \in Pids : cpu'[p] = cpu[p] \/ ~OnCpu(p),
         next \in Pids => cpu'[next] = c /\ on_rq'[next],
         next \notin Pids => next = Swapper(c),
         on_rq' \in [Pids -> BOOLEAN],
         \A p \in Pids \ {x} : on_rq'[p] = on_rq[p],
         x \in Pids /\ on_rq'[x] => on_rq[x],
         x \in Pids /\ state'[x] = "RUNNING" => on_rq'[x],
         \A p \in Pids \ {x} : state'[p] = state[p],
         x \in Pids => state'[x] = state[x] \/ (state[x] = "SLEEP" /\ state'[x] = "RUNNING"),
         kernel_flag # x, next # x => pid_force_run # x \/ pid_force_run <= 1,
         pc[x] \in {"nonpreempt", "balance"},
         UNCHANGED <<sched_block, lockvars, pid_force_run>>
  PROVE  OneProcessor' /\ RunnableIsQueued' /\ Parked' /\ Queued' /\ BklPlace' /\ ForcedPlace'
<1>1. /\ curr'[c] = next /\ \A d \in Cpus \ {c} : curr'[d] = curr[d]
      /\ pc'[x] = "post" /\ \A y \in Threads \ {x} : pc'[y] = pc[y]
  BY DEF IInv, TypeOK
<1>2. \A d \in Cpus : curr[d] = x => d = c
  BY DEF IInv, OneProcessor
<1>3. \A d \in Cpus \ {c} : curr[d] # next
  <2>1. CASE next \in Pids
    BY <2>1 DEF IInv, OneProcessor, OnCpu
  <2>2. CASE next \notin Pids
    BY <2>2, ThreadFacts DEF IInv, Parked
  <2>. QED BY <2>1, <2>2
<1>4. OneProcessor'
  <2>1. \A d, e \in Cpus : curr'[d] = curr'[e] => d = e
    BY <1>1, <1>3 DEF IInv, OneProcessor
  <2>2. ASSUME NEW d \in Cpus, curr'[d] \in Pids PROVE cpu'[curr'[d]] = d
    BY <1>1, <2>2 DEF IInv, OneProcessor, OnCpu
  <2>. QED BY <2>1, <2>2 DEF OneProcessor
<1>5. /\ OnCpu(next)'
      /\ \A y : y # x /\ y # next => (OnCpu(y)' <=> OnCpu(y))
      /\ next # x => ~OnCpu(x)'
  BY <1>1, <1>2 DEF OnCpu
<1>6. next # x => ~OnCpu(next)
  BY <1>3 DEF OnCpu
<1>7. next = x => OnCpu(x)'
  BY <1>5
<1>8. OnCpu(x)
  BY DEF OnCpu
<1>9. RunnableIsQueued'
  BY <1>1, <1>8, ThreadFacts DEF IInv, RunnableIsQueued, Queued
<1>10. Parked'
  <2>1. \A y \in Threads : ~OnCpu(y)' => pc'[y] \in {"post", "born"}
    BY <1>1, <1>5 DEF IInv, Parked
  <2>2. \A d \in Cpus : curr'[d] \in Pids \/ curr'[d] = Swapper(d)
    BY <1>1 DEF IInv, Parked
  <2>. QED BY <2>1, <2>2 DEF Parked
<1>11. Queued'
  <2>. SUFFICES ASSUME NEW p \in Pids
                PROVE  /\ OnCpu(p)' => (on_rq'[p] \/ pc'[p] = "balance") /\ pc'[p] # "born"
                       /\ pc'[p] = "born" \/ state'[p] \in {"NONE", "WAKING"}
                            => ~on_rq'[p] /\ ~OnCpu(p)'
                       /\ pc'[p] = "born" => state'[p] = "RUNNING"
    BY DEF Queued
  <2>1. CASE p = x /\ p # next
    BY <1>1, <1>5, <1>8, <2>1 DEF IInv, Queued
  <2>2. CASE p = x /\ p = next
    BY <1>1, <1>5, <1>8, <2>2 DEF IInv, Queued
  <2>3. CASE p # x /\ p = next
    BY <1>1, <1>5, <1>6, <2>3, ThreadFacts DEF IInv, Queued
  <2>4. CASE p # x /\ p # next
    BY <1>1, <1>5, <2>4, ThreadFacts DEF IInv, Queued
  <2>. QED BY <2>1, <2>2, <2>3, <2>4
<1>12. BklPlace'
  BY <1>1, <1>5, <1>6, ThreadFacts DEF IInv, TypeOK, BklPlace, lockvars
<1>13. ForcedPlace'
  BY <1>1, <1>5, <1>6, ThreadFacts DEF IInv, TypeOK, ForcedPlace, lockvars
<1>. QED BY <1>4, <1>9, <1>10, <1>11, <1>12, <1>13

LEMMA LockedStep ==
  ASSUME IInv, NEW c \in Cpus, NEW x \in Threads, Locked(c, x)
  PROVE  IInv'
<1>. DEFINE queue == {p \in Pids : on_rq'[p] /\ cpu[p] = c}
<1>1. /\ curr[c] = x /\ pc[x] = "nonpreempt" /\ ~sched_block[x] /\ OnCpu(x)
      /\ need_resched' = [need_resched EXCEPT ![x] = FALSE]
      /\ UNCHANGED <<cpu, sched_block, preempt_active, lockvars, pid_force_run>>
  BY DEF Locked, OnCpu
<1>2. /\ on_rq' \in [Pids -> BOOLEAN] /\ state' \in [Pids -> States]
      /\ \A p \in Pids \ {x} : on_rq'[p] = on_rq[p] /\ state'[p] = state[p]
      /\ x \in Pids /\ on_rq'[x] => on_rq[x]
      /\ x \in Pids /\ state'[x] = "RUNNING" => on_rq'[x]
      /\ x \in Pids => state'[x] = state[x] \/ (state[x] = "SLEEP" /\ state'[x] = "RUNNING")
  <2>0. x \in Pids => on_rq[x]
    BY <1>1 DEF IInv, Queued
  <2>1. CASE Sleeps(x) /\ on_rq' = [on_rq EXCEPT ![x] = FALSE] /\ state' = state
    BY <2>1 DEF Sleeps, TaskState, IInv, TypeOK
  <2>2. CASE Sleeps(x) /\ TaskState(x) = "SLEEP"
             /\ state' = [state EXCEPT ![x] = "RUNNING"] /\ on_rq' = on_rq
    BY <2>0, <2>2 DEF TaskState, IInv, TypeOK, States
  <2>3. CASE ~Sleeps(x) /\ on_rq' = on_rq /\ state' = state
    BY <2>0, <2>3 DEF IInv, TypeOK
  <2>. QED BY <2>1, <2>2, <2>3 DEF Locked
<1>3. kernel_flag # x /\ (pid_force_run # x \/ pid_force_run <= 1)
  BY <1>1, ThreadFacts DEF IInv, BklPlace, ForcedPlace, TypeOK
<1>4. need_resched' \in [Threads -> BOOLEAN]
  BY <1>1 DEF IInv, TypeOK
<1>5. CASE queue # {} /\ SwitchTo(c, x, queue)
  <2>1. PICK next \in queue : curr' = [curr EXCEPT ![c] = next]
    BY <1>5 DEF SwitchTo, PickNextTask
  <2>2. pc' = [pc EXCEPT ![x] = "post"]
    BY <1>5 DEF SwitchTo
  <2>3. next \in Pids /\ next \in Threads /\ cpu'[next] = c /\ on_rq'[next]
    BY <1>1, <2>1, ThreadFacts
  <2>4. TypeOK'
    BY <1>1, <1>2, <1>4, <2>1, <2>2, <2>3 DEF IInv, TypeOK, Labels, lockvars
  <2>5. /\ cpu' \in [Pids -> Cpus] /\ \A p \in Pids : cpu'[p] = cpu[p] \/ ~OnCpu(p)
        /\ pc[x] \in {"nonpreempt", "balance"}
        /\ UNCHANGED <<sched_block, lockvars, pid_force_run>>
    BY <1>1 DEF IInv, TypeOK
  <2>6. OneProcessor' /\ RunnableIsQueued' /\ Parked' /\ Queued' /\ BklPlace' /\ ForcedPlace'
    <3>1. on_rq' \in [Pids -> BOOLEAN] /\ \A p \in Pids \ {x} : on_rq'[p] = on_rq[p]
      BY <1>2
    <3>2. curr[c] = x
      BY <1>1
    <3>. HIDE DEF queue
    <3>. QED BY <1>2, <1>3, <2>1, <2>2, <2>3, <2>5, <3>1, <3>2, SwitchStep, ZenonT(30)
  <2>. QED BY <2>4, <2>6 DEF IInv
<1>6. CASE queue = {} /\ pc' = [pc EXCEPT ![x] = "balance"] /\ curr' = curr
  <2>1. TypeOK'
    BY <1>1, <1>2, <1>4, <1>6 DEF IInv, TypeOK, Labels, lockvars
  <2>2. /\ pc'[x] = "balance" /\ \A y \in Threads \ {x} : pc'[y] = pc[y]
        /\ \A y : OnCpu(y)' <=> OnCpu(y)
    BY <1>6 DEF IInv, TypeOK, OnCpu
  <2>3. OneProcessor' /\ Parked'
    BY <1>1, <1>6, <2>2 DEF IInv, OneProcessor, Parked
  <2>4. RunnableIsQueued' /\ Queued'
    BY <1>1, <1>2, <2>2, ThreadFacts DEF IInv, RunnableIsQueued, Queued
  <2>5. BklPlace'
    BY <1>1, <1>3, <2>2, ThreadFacts DEF IInv, TypeOK, BklPlace, lockvars
  <2>6. ForcedPlace'
    BY <1>1, <1>3, <2>2, ThreadFacts DEF IInv, TypeOK, ForcedPlace
  <2>. QED BY <2>1, <2>3, <2>4, <2>5, <2>6 DEF IInv
<1>. QED BY <1>5, <1>6 DEF Locked

LEMMA BalanceStep ==
  ASSUME IInv, NEW c \in Cpus, NEW x \in Threads, Balance(c, x)
  PROVE  IInv'
<1>1. /\ curr[c] = x /\ pc[x] = "balance" /\ OnCpu(x)
      /\ UNCHANGED <<on_rq, state, sched_block, preempt_active, lockvars, pid_force_run>>
  BY DEF Balance, OnCpu
<1>2. kernel_flag # x /\ (pid_force_run # x \/ pid_force_run <= 1)
  BY <1>1, ThreadFacts DEF IInv, BklPlace, ForcedPlace, TypeOK
<1>. DEFINE waiting == {q \in Pids : on_rq[q] /\ cpu'[q] = c}
<1>3. /\ cpu' \in [Pids -> Cpus] /\ \A q \in Pids : cpu'[q] = cpu[q] \/ ~OnCpu(q)
      /\ need_resched' \in [Threads -> BOOLEAN]
      /\ \E queue \in SUBSET waiting : SwitchTo(c, x, queue)
  <2>1. CASE SwitchTo(c, x, Queue(c)) /\ UNCHANGED <<cpu, need_resched>>
    <3>1. Queue(c) \in SUBSET waiting
      BY <2>1 DEF Queue
    <3>. QED BY <2>1, <3>1 DEF IInv, TypeOK
  <2>2. CASE \E p \in Pids :
               /\ Movable(p) /\ cpu[p] # c
               /\ cpu' = [cpu EXCEPT ![p] = c]
               /\ CheckPreemptCurr(c)
               /\ SwitchTo(c, x, Queue(c) \cup {p})
    <3>1. PICK p \in Pids :
            /\ ~OnCpu(p) /\ on_rq[p]
            /\ cpu' = [cpu EXCEPT ![p] = c]
            /\ CheckPreemptCurr(c)
            /\ SwitchTo(c, x, Queue(c) \cup {p})
      BY <2>2 DEF Movable
    <3>2. Queue(c) \cup {p} \in SUBSET waiting
      BY <3>1 DEF Queue, IInv, TypeOK
    <3>3. need_resched' \in [Threads -> BOOLEAN]
      BY <3>1, CheckPreemptType DEF IInv
    <3>4. cpu' \in [Pids -> Cpus] /\ \A q \in Pids : cpu'[q] = cpu[q] \/ ~OnCpu(q)
      BY <3>1 DEF IInv, TypeOK
    <3>. QED BY <3>1, <3>2, <3>3, <3>4
  <2>. QED BY <2>1, <2>2 DEF Balance
<1>4. PICK queue \in SUBSET waiting : SwitchTo(c, x, queue)
  BY <1>3
<1>5. PICK next \in Threads :
        /\ curr' = [curr EXCEPT ![c] = next]
        /\ next \in Pids => cpu'[next] = c /\ on_rq'[next]
        /\ next \notin Pids => next = Swapper(c)
  <2>1. CASE queue # {} /\ \E next \in queue : curr' = [curr EXCEPT ![c] = next]
    BY <1>1, <2>1, ThreadFacts
  <2>2. CASE curr' = [curr EXCEPT ![c] = Swapper(c)]
    BY <2>2, ThreadFacts
  <2>. QED BY <1>4, <2>1, <2>2 DEF SwitchTo, PickNextTask
<1>6. pc' = [pc EXCEPT ![x] = "post"]
  BY <1>4 DEF SwitchTo
<1>7. TypeOK'
  BY <1>1, <1>3, <1>5, <1>6 DEF IInv, TypeOK, Labels, lockvars
<1>8. /\ on_rq' \in [Pids -> BOOLEAN]
      /\ \A p \in Pids : on_rq'[p] = on_rq[p] /\ state'[p] = state[p]
      /\ x \in Pids /\ state'[x] = "RUNNING" => on_rq'[x]
  BY <1>1 DEF IInv, TypeOK, RunnableIsQueued
<1>9. OneProcessor' /\ RunnableIsQueued' /\ Parked' /\ Queued' /\ BklPlace' /\ ForcedPlace'
  BY <1>1, <1>2, <1>3, <1>5, <1>6, <1>8, SwitchStep
<1>. QED BY <1>7, <1>9 DEF IInv

-----------------------------------------------------------------------------
(* Every step preserves the invariant.                                     *)
LEMMA NextIInv ==
  ASSUME IInv, [Next]_vars
  PROVE  IInv'
<1>1. CASE UNCHANGED vars
  <2>1. \A y : OnCpu(y)' <=> OnCpu(y)
    BY <1>1 DEF vars, OnCpu
  <2>. QED
    BY <1>1, <2>1 DEF vars, lockvars, IInv, TypeOK, OneProcessor, RunnableIsQueued,
                      Parked, Queued, BklPlace, ForcedPlace
<1>2. ASSUME NEW c \in Cpus, NEW x \in Threads, InSchedule(c, x) PROVE IInv'
  BY <1>2, EnterStep, LockedStep, LockedBlockedStep, BalanceStep, PostStep,
     RecheckOrCall DEF InSchedule
<1>3. ASSUME NEW c \in Cpus, NEW x \in Threads, Outside(c, x) PROVE IInv'
  BY <1>3, RecheckOrCall, SetStateStep, BklStep, ForkStep DEF Outside
<1>4. ASSUME NEW p \in Pids, Wake(p) \/ WakeUpNew(p) PROVE IInv'
  BY <1>4, WakeStep, WakeUpNewStep
<1>5. CASE (\E c \in Cpus : Tick(c) \/ \E p \in Pids : Pull(c, p)) \/ Reset \/ ForceSelf
  BY <1>5, TickPullForceStep
<1>. QED BY <1>1, <1>2, <1>3, <1>4, <1>5 DEF Next

LEMMA Invariance == Spec => []IInv
<1>. QED BY InitIInv, NextIInv, PTL DEF Spec

(* The state stays well typed.                                             *)
THEOREM TypeCorrect == Spec => []TypeOK
<1>1. IInv => TypeOK
  BY DEF IInv
<1>. QED BY <1>1, Invariance, PTL

(* No wake-up is lost: whoever could run is queued.                        *)
THEOREM RunnableIsQueuedHolds == Spec => []RunnableIsQueued
<1>1. IInv => RunnableIsQueued
  BY DEF IInv
<1>. QED BY <1>1, Invariance, PTL

(* No thread is current on two processors, and none away from its queue.   *)
THEOREM OneProcessorHolds == Spec => []OneProcessor
<1>1. IInv => OneProcessor
  BY DEF IInv
<1>. QED BY <1>1, Invariance, PTL

(* Both of them, with the types (schedule(), wake-ups, idle_balance()).    *)
THEOREM QueuedOnceHolds == Spec => []QueuedOnce
BY TypeCorrect, RunnableIsQueuedHolds, OneProcessorHolds, PTL DEF QueuedOnce

(* The Big Kernel Lock belongs to a process that runs.                     *)
THEOREM BklHeldByRunnerHolds == Spec => []BklHeldByRunner
<1>1. IInv => BklHeldByRunner
  BY DEF IInv, BklPlace, BklHeldByRunner
<1>. QED BY <1>1, Invariance, PTL

(* While the scheduler is locked to the process that runs, it stays: the   *)
(* switch is reached only by a thread the scheduler is not locked to.      *)
LEMMA ForcedStays ==
  ASSUME IInv, Next, NEW d \in Cpus, curr[d] = pid_force_run, pid_force_run > 1
  PROVE  curr'[d] = curr[d]
<1>1. ASSUME NEW c \in Cpus, NEW x \in Threads, Locked(c, x) \/ Balance(c, x)
      PROVE  curr'[d] = curr[d]
  <2>1. curr[c] = x /\ x # pid_force_run
    BY <1>1, ThreadFacts DEF Locked, Balance, IInv, TypeOK, ForcedPlace
  <2>2. curr' = curr \/ \E y \in Threads : curr' = [curr EXCEPT ![c] = y]
    BY <1>1, ThreadFacts DEF Locked, Balance, SwitchTo, PickNextTask, Queue
  <2>3. c # d
    BY <2>1
  <2>. QED BY <2>2, <2>3 DEF IInv, TypeOK
<1>2. ASSUME NEW c \in Cpus, NEW x \in Threads, InSchedule(c, x) PROVE curr'[d] = curr[d]
  BY <1>1, <1>2 DEF InSchedule, Enter, LockedBlocked, Post, Recheck
<1>3. ASSUME NEW c \in Cpus, NEW x \in Threads, Outside(c, x) PROVE curr'[d] = curr[d]
  BY <1>3 DEF Outside, Call, CondResched, sys_sched_yield, SetState, Exit, LockKernel, UnlockKernel, Fork
<1>4. ASSUME NEW p \in Pids, Wake(p) \/ WakeUpNew(p) PROVE curr'[d] = curr[d]
  BY <1>4 DEF Wake, WakeQueued, WakeCurrent, WakeMark, WakeActivate, WakeUpNew
<1>5. CASE (\E c \in Cpus : Tick(c) \/ \E p \in Pids : Pull(c, p)) \/ Reset \/ ForceSelf
  BY <1>5 DEF Tick, Pull, Reset, ForceSelf, LockTo
<1>. QED BY <1>2, <1>3, <1>4, <1>5 DEF Next

(* Comment 5441 holds of a process that starts its own measurement.        *)
THEOREM NoSwitchWhileForcedHolds == Spec => NoSwitchWhileForced
<1>1. ASSUME IInv, [Next]_vars
      PROVE  [\A c \in Cpus : curr[c] = pid_force_run /\ pid_force_run > 1
                                => curr'[c] = curr[c]]_vars
  BY <1>1, ForcedStays
<1>. QED BY <1>1, Invariance, PTL DEF Spec, NoSwitchWhileForced
=============================================================================
