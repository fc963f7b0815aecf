-------------------------- MODULE Migration_proofs -------------------------
(***************************************************************************)
(* Theorems about Migration, for any processors and tasks.                 *)
(*                                                                         *)
(* The inductive invariant IInv adds to the safety properties that a waker *)
(* only chooses a processor for a task that is nowhere queued (Waking),    *)
(* and that it chooses one that is online; that one processor at a time    *)
(* goes up or down (OneAtATime); and that migrate_live_tasks() has still   *)
(* to come to every task of the processor that dies (Scanned).             *)
(*                                                                         *)
(* RInv adds what the callers of set_cpus_allowed_ptr() rely on: that the  *)
(* request for a task outside its affinity would still be served (Affine), *)
(* that who wakes a migration thread runs and finds one (Calls, and with   *)
(* two processors Reached), and that a request is linked in one place, for *)
(* as long as its caller waits for it (LinkedOnce).                        *)
(***************************************************************************)
EXTENDS Migration, FiniteSetTheorems, TLAPS

Waking ==
  \A p \in Tasks :
    /\ state[p] = "WAKING" => ~on_rq[p]
    /\ chosen[p] # None => state[p] = "WAKING" /\ chosen[p] \in Online

OneAtATime == \A c, d \in Cpus : phase[c] # "up" /\ phase[d] # "up" => c = d

Scanned ==
  \A c \in Cpus : phase[c] = "dying" => \A p \in Tasks : cpu[p] = c => p \in scan

Places == RunsWhereItIs /\ Waking
Leaves == OneAtATime /\ Scanned /\ NobodyLeftBehind
IInv   == TypeOK /\ Places /\ Leaves

-----------------------------------------------------------------------------
(* A task runs on one processor, the one it is assigned to.                *)
LEMMA RunningPlace ==
  ASSUME TypeOK, RunsWhereItIs
  PROVE  \A p \in Tasks : Running(p) => curr[cpu[p]] = p /\ on_rq[p] /\ cpu[p] \in Online
BY DEF TypeOK, RunsWhereItIs, Running

LEMMA OnlineIsCpu == Active \subseteq Online /\ Online \subseteq Cpus
BY DEF Online, Active

LEMMA InitIInv == Init => IInv
<1>. SUFFICES ASSUME Init PROVE IInv
  OBVIOUS
<1>1. TypeOK
  BY DEF Init, TypeOK, Phases
<1>2. Places
  BY TasksAssumption, Zenon DEF Init, Places, RunsWhereItIs, Waking, Idle, Mt
<1>3. Leaves
  BY DEF Init, Leaves, OneAtATime, Scanned, NobodyLeftBehind
<1>. QED
  BY <1>1, <1>2, <1>3 DEF IInv

-----------------------------------------------------------------------------
(* A wake-up keeps the types of what it changes.                           *)
LEMMA WakeUpType ==
  ASSUME TypeOK, NEW p \in Tasks, WakeUp(p)
  PROVE  /\ state' \in [Tasks -> {"RUNNING", "SLEEP", "WAKING"}]
         /\ chosen' \in [Tasks -> Cpus \cup {None}]
<1>1. CASE state[p] # "SLEEP" \/ on_rq[p]
  BY <1>1 DEF WakeUp, TypeOK
<1>2. CASE state[p] = "SLEEP" /\ ~on_rq[p]
  <2>1. PICK c \in {cpu[p]} \cup (allowed[p] \cap Online) :
          chosen' = [chosen EXCEPT ![p] = IF c = cpu[p] THEN None ELSE c]
    BY <1>2 DEF WakeUp
  <2>2. (IF c = cpu[p] THEN None ELSE c) \in Cpus \cup {None}
    BY <2>1, OnlineIsCpu
  <2>. QED
    BY <1>2, <2>1, <2>2 DEF WakeUp, TypeOK
<1>. QED
  BY <1>1, <1>2

(* So does what set_cpus_allowed_ptr() and sched_exec() ask for.           *)
LEMMA AskForType ==
  ASSUME TypeOK, NEW caller \in Tasks, NEW p \in Tasks, NEW c \in Cpus, AskFor(caller, p, c)
  PROVE  /\ queue' \in [Cpus -> Seq(Requests)]
         /\ pc' \in [Tasks -> {"run", "wake", "wait"}]
         /\ waits' \in [Tasks -> Cpus \cup {None}] /\ done' \in [Tasks -> BOOLEAN]
<1>. DEFINE req == [task |-> p, to |-> c, by |-> caller]
<1>1. cpu[p] \in Cpus /\ queue[cpu[p]] \in Seq(Requests)
  BY DEF TypeOK
<1>2. <<req>> \in Seq(Requests)
  BY DEF Requests
<1>3. <<req>> \o queue[cpu[p]] \in Seq(Requests)
  BY <1>1, <1>2
<1>. QED
  BY <1>1, <1>3 DEF AskFor, TypeOK

LEMMA TypeStep == TypeOK /\ [Next]_vars => TypeOK'
<1>. SUFFICES ASSUME TypeOK, [Next]_vars PROVE TypeOK'
  OBVIOUS
<1>. USE DEF TypeOK, tasks, call, mt, plug
<1>1. ASSUME NEW c \in Cpus, Schedule(c) PROVE TypeOK'
  <2>1. PICK next : curr' = [curr EXCEPT ![c] = next] /\ next \in Tasks \cup {Idle, Mt}
    BY <1>1 DEF Schedule
  <2>2. /\ on_rq' \in [Tasks -> BOOLEAN] /\ mqueued' \in [Cpus -> BOOLEAN]
        /\ mpc' \in [Cpus -> {"top", "schedule", "back"}]
    BY <1>1 DEF Schedule
  <2>. QED
    BY <1>1, <2>1, <2>2 DEF Schedule
<1>2. ASSUME NEW c \in Cpus, MtTop(c) PROVE TypeOK'
  BY <1>2 DEF MtTop
<1>3. ASSUME NEW c \in Cpus, MtTake(c) PROVE TypeOK'
  <2>1. CASE queue[c] = <<>>
    BY <1>3, <2>1 DEF MtTake
  <2>2. CASE queue[c] # <<>>
    <3>1. Head(queue[c]) \in Requests /\ Tail(queue[c]) \in Seq(Requests)
      BY <2>2
    <3>2. PICK h \in [req : Requests, moved : BOOLEAN] : hand' = [hand EXCEPT ![c] = h]
      BY <1>3, <2>2, <3>1 DEF MtTake
    <3>3. queue' = [queue EXCEPT ![c] = Tail(queue[c])] /\ UNCHANGED mpc
      BY <1>3, <2>2 DEF MtTake
    <3>. QED
      BY <1>3, <3>1, <3>2, <3>3 DEF MtTake
  <2>. QED
    BY <2>1, <2>2
<1>4. ASSUME NEW c \in Cpus, MtMove(c) PROVE TypeOK'
  <2>1. hand[c].req.task \in Tasks /\ hand[c].req.to \in Cpus
    BY <1>4 DEF MtMove, Requests
  <2>. QED
    BY <1>4, <2>1, ZenonT(30) DEF MtMove, MigrateTo
<1>5. ASSUME NEW c \in Cpus, MtComplete(c) PROVE TypeOK'
  <2>1. hand[c].req.by \in Tasks
    BY <1>5 DEF MtComplete, Requests
  <2>. QED
    BY <1>5, <2>1, WakeUpType DEF MtComplete, Complete
<1>6. ASSUME NEW c \in Cpus, Deactivate(c) PROVE TypeOK'
  BY <1>6 DEF Deactivate, Phases
<1>7. ASSUME NEW c \in Cpus, Dying(c) PROVE TypeOK'
  BY <1>7 DEF Dying, Phases
<1>8. ASSUME NEW c \in Cpus, MoveOffDeadCpu(c) PROVE TypeOK'
  BY <1>8 DEF MoveOffDeadCpu, MigrateTo, Refused, Active
<1>9. ASSUME NEW c \in Cpus, StopMt(c) PROVE TypeOK'
  BY <1>9 DEF StopMt, Phases
<1>10. ASSUME NEW c \in Cpus, WakeRequestors(c) PROVE TypeOK'
  <2>1. CASE queue[c] = <<>>
    BY <1>10, <2>1 DEF WakeRequestors, Phases
  <2>2. CASE queue[c] # <<>>
    <3>1. Head(queue[c]) \in Requests /\ Tail(queue[c]) \in Seq(Requests)
      BY <2>2
    <3>2. Head(queue[c]).by \in Tasks
      BY <3>1 DEF Requests
    <3>3. /\ WakeUp(Head(queue[c]).by) /\ done' = [done EXCEPT ![Head(queue[c]).by] = TRUE]
          /\ queue' = [queue EXCEPT ![c] = Tail(@)]
          /\ UNCHANGED <<curr, cpu, on_rq, allowed, pc, waits, hand, mt, plug>>
          /\ UNCHANGED <<forced, raced>>
      BY <1>10, <2>2 DEF WakeRequestors, Complete
    <3>4. /\ state' \in [Tasks -> {"RUNNING", "SLEEP", "WAKING"}]
          /\ chosen' \in [Tasks -> Cpus \cup {None}]
      BY <3>2, <3>3, WakeUpType
    <3>5. done' \in [Tasks -> BOOLEAN] /\ queue' \in [Cpus -> Seq(Requests)]
      BY <3>1, <3>3
    <3>. QED BY <3>3, <3>4, <3>5
  <2>. QED
    BY <2>1, <2>2
<1>11. ASSUME NEW c \in Cpus, UpPrepare(c) PROVE TypeOK'
  BY <1>11 DEF UpPrepare, Phases
<1>12. ASSUME NEW c \in Cpus, UpOnline(c) PROVE TypeOK'
  BY <1>12 DEF UpOnline, Phases
<1>13. ASSUME NEW c \in Cpus, UpCanceled(c) PROVE TypeOK'
  BY <1>13 DEF UpCanceled, Phases
<1>14. ASSUME NEW c \in Cpus, NEW p \in Tasks, ChooseDest(c, p) PROVE TypeOK'
  <2>1. CASE cpu[p] # c
    BY <1>14, <2>1 DEF ChooseDest
  <2>2. CASE cpu[p] = c
    <3>. DEFINE mask == IF allowed[p] \cap Online = {} THEN Cpus ELSE allowed[p]
    <3>1. allowed' = [allowed EXCEPT ![p] = mask] /\ mask \in SUBSET Cpus
      BY <1>14, <2>2 DEF ChooseDest
    <3>2. PICK d \in allowed'[p] \cap Online : dest' = [task |-> p, to |-> d]
      BY <1>14, <2>2 DEF ChooseDest
    <3>. QED
      BY <1>14, <2>2, <3>1, <3>2, OnlineIsCpu DEF ChooseDest
  <2>. QED
    BY <2>1, <2>2
<1>15. ASSUME NEW c \in Cpus, NEW p \in Tasks, Pull(c, p) PROVE TypeOK'
  BY <1>15 DEF Pull
<1>16. ASSUME NEW p \in Tasks, WakePlace(p) PROVE TypeOK'
  BY <1>16 DEF WakePlace
<1>17. ASSUME NEW p \in Tasks, WakeActivate(p) PROVE TypeOK'
  BY <1>17 DEF WakeActivate
<1>18. ASSUME NEW p \in Tasks, Sleep(p) PROVE TypeOK'
  BY <1>18 DEF Sleep
<1>19. ASSUME NEW p \in Tasks, Wake(p) PROVE TypeOK'
  BY <1>19, WakeUpType DEF Wake
<1>20. ASSUME NEW p \in Tasks, SetForced(p) PROVE TypeOK'
  BY <1>20 DEF SetForced
<1>21. ASSUME NEW p \in Callers, WakeMt(p) PROVE TypeOK'
  BY <1>21, TasksAssumption DEF WakeMt
<1>22. ASSUME NEW p \in Callers, WaitForCompletion(p) PROVE TypeOK'
  BY <1>22, TasksAssumption DEF WaitForCompletion
<1>23. ASSUME NEW p \in Callers, NEW q \in Tasks, NEW mask \in SUBSET Cpus,
            SetCpusAllowed(p, q, mask)
     PROVE TypeOK'
  <2>1. CASE cpu[q] \in mask /\ UNCHANGED <<cpu, call, queue>>
    BY <1>23, <2>1 DEF SetCpusAllowed
  <2>2. ASSUME NEW c \in mask \cap Online, MigrateTask(p, q, c) PROVE TypeOK'
    <3>1. CASE cpu' = [cpu EXCEPT ![q] = c] /\ UNCHANGED <<call, queue>>
      BY <1>23, <3>1 DEF SetCpusAllowed
    <3>2. CASE AskFor(p, q, c)
      BY <1>23, <3>2, AskForType, TasksAssumption DEF SetCpusAllowed, AskFor
    <3>. QED
      BY <2>2, <3>1, <3>2 DEF MigrateTask
  <2>. QED
    BY <1>23, <2>1, <2>2 DEF SetCpusAllowed
<1>24. ASSUME NEW p \in Callers, NEW c \in Cpus, SchedExec(p, c) PROVE TypeOK'
  BY <1>24, AskForType, TasksAssumption DEF SchedExec, AskFor
<1>25. CASE Reset
  BY <1>25 DEF Reset
<1>26. CASE UNCHANGED vars
  BY <1>26 DEF vars
<1>. HIDE DEF TypeOK, tasks, call, mt, plug
<1>27. ASSUME NEW c \in Cpus, MtStep(c) \/ Down(c) PROVE TypeOK'
  BY <1>27, <1>2, <1>3, <1>4, <1>5, <1>7, <1>8, <1>9, <1>10, <1>14 DEF MtStep, Down
<1>28. CASE \E c \in Cpus : \/ Schedule(c) \/ MtStep(c) \/ Deactivate(c) \/ Down(c)
                            \/ UpPrepare(c) \/ UpOnline(c) \/ UpCanceled(c)
                            \/ \E p \in Tasks : Pull(c, p)
  BY <1>28, <1>1, <1>6, <1>11, <1>12, <1>13, <1>15, <1>27
<1>29. CASE \E p \in Tasks : WakePlace(p) \/ WakeActivate(p) \/ Sleep(p) \/ Wake(p) \/ SetForced(p)
  BY <1>29, <1>16, <1>17, <1>18, <1>19, <1>20
<1>30. CASE \E p \in Callers :
              \/ WakeMt(p) \/ WaitForCompletion(p)
              \/ \E q \in Tasks, mask \in SUBSET Cpus : SetCpusAllowed(p, q, mask)
              \/ \E c \in Cpus : SchedExec(p, c)
  BY <1>30, <1>21, <1>22, <1>23, <1>24
<1>. QED
  BY <1>25, <1>26, <1>28, <1>29, <1>30 DEF Next

-----------------------------------------------------------------------------
(* What only moves tasks that do not run leaves the others in their place. *)
LEMMA MoveKeepsPlace ==
  ASSUME TypeOK, RunsWhereItIs, UNCHANGED <<curr, on_rq, phase, mqueued>>,
         \A p \in Tasks : Running(p) => cpu'[p] = cpu[p]
  PROVE  RunsWhereItIs'
BY DEF RunsWhereItIs, Running, Online, TypeOK

(* A waker chooses for what is not queued, and only what is online.        *)
LEMMA WakeUpWaking ==
  ASSUME TypeOK, Waking, NEW p \in Tasks, WakeUp(p), UNCHANGED on_rq, Online' = Online
  PROVE  Waking'
<1>1. CASE state[p] # "SLEEP" \/ on_rq[p]
  BY <1>1 DEF WakeUp, TypeOK, Waking
<1>2. CASE state[p] = "SLEEP" /\ ~on_rq[p]
  <2>1. PICK c \in {cpu[p]} \cup (allowed[p] \cap Online) :
          chosen' = [chosen EXCEPT ![p] = IF c = cpu[p] THEN None ELSE c]
    BY <1>2 DEF WakeUp
  <2>2. chosen'[p] # None => chosen'[p] \in Online
    BY <2>1 DEF TypeOK
  <2>. QED
    BY <1>2, <2>1, <2>2 DEF WakeUp, TypeOK, Waking
<1>. QED
  BY <1>1, <1>2

(* __migrate_task() is called for a processor on which no task runs, or    *)
(* only one of another migration: a running task is not moved.             *)
LEMMA MigrateToKeepsRunning ==
  ASSUME TypeOK, RunsWhereItIs, NEW q \in Tasks, NEW c \in Cpus, NEW d \in Cpus,
         MigrateTo(q, c, d), curr[c] \notin Tasks \/ c \notin Online
  PROVE  \A p \in Tasks : Running(p) => cpu'[p] = cpu[p]
BY RunningPlace DEF MigrateTo, TypeOK

LEMMA PlacesStep == TypeOK /\ Places /\ [Next]_vars => Places'
<1>. SUFFICES ASSUME TypeOK, RunsWhereItIs, Waking, [Next]_vars PROVE Places'
  BY DEF Places
<1>. USE DEF Places, tasks, call, mt, plug
<1>1. ASSUME NEW c \in Cpus, Schedule(c) PROVE Places'
  <2>1. PICK next : /\ curr' = [curr EXCEPT ![c] = next]
                    /\ \/ next = Mt /\ mqueued'[c]
                       \/ next \in Tasks /\ on_rq'[next] /\ cpu[next] = c
                       \/ next = Idle
    BY <1>1 DEF Schedule
  <2>2. c \in Online /\ Online' = Online
    BY <1>1 DEF Schedule, Online
  <2>3. \A p \in Tasks : (on_rq'[p] => on_rq[p]) /\ (p # curr[c] /\ on_rq[p] => on_rq'[p])
    BY <1>1 DEF Schedule
  <2>4. \A d \in Cpus : d # c => curr'[d] = curr[d] /\ mqueued'[d] = mqueued[d]
    BY <1>1, <2>1 DEF Schedule, TypeOK
  <2>5. \A d \in Cpus : d # c /\ curr[d] \in Tasks => curr[d] # curr[c]
    BY DEF RunsWhereItIs
  <2>6. curr'[c] = next /\ Idle \notin Tasks /\ Mt \notin Tasks /\ Idle # Mt /\ cpu' = cpu
    BY <1>1, <2>1, TasksAssumption DEF Schedule, TypeOK, Idle, Mt
  <2>7. RunsWhereItIs'
    <3>1. curr'[c] \in Tasks => cpu'[curr'[c]] = c /\ on_rq'[curr'[c]]
      BY <2>1, <2>6
    <3>2. curr'[c] = Mt => mqueued'[c]
      BY <2>1, <2>6
    <3>3. ASSUME NEW d \in Cpus, d # c
          PROVE  /\ curr'[d] \in Tasks => cpu'[curr'[d]] = d /\ on_rq'[curr'[d]] /\ d \in Online
                 /\ curr'[d] = Mt => d \in Online /\ mqueued'[d]
      BY <2>3, <2>4, <2>5, <2>6, <3>3 DEF RunsWhereItIs
    <3>. QED
      BY <2>2, <3>1, <3>2, <3>3 DEF RunsWhereItIs
  <2>8. Waking'
    BY <1>1, <2>2, <2>3 DEF Waking, Schedule
  <2>. QED
    BY <2>7, <2>8
<1>2. ASSUME NEW p \in Tasks, Wake(p) PROVE Places'
  <2>1. Online' = Online
    BY <1>2 DEF Wake, Online
  <2>. QED
    BY <1>2, <2>1, WakeUpWaking, MoveKeepsPlace DEF Wake
<1>3. ASSUME NEW c \in Cpus, MtComplete(c) PROVE Places'
  <2>1. hand[c].req.by \in Tasks /\ Online' = Online
    BY <1>3 DEF MtComplete, Requests, TypeOK, Online
  <2>. QED
    BY <1>3, <2>1, WakeUpWaking, MoveKeepsPlace DEF MtComplete, Complete
<1>4. ASSUME NEW c \in Cpus, WakeRequestors(c) PROVE Places'
  <2>1. Online' = Online
    BY <1>4 DEF WakeRequestors, Online, TypeOK
  <2>2. RunsWhereItIs'
    BY <1>4, <2>1 DEF WakeRequestors, RunsWhereItIs
  <2>3. CASE queue[c] = <<>>
    BY <1>4, <2>1, <2>2, <2>3 DEF WakeRequestors, Waking
  <2>4. CASE queue[c] # <<>>
    <3>1. Head(queue[c]) \in Requests
      BY <2>4 DEF TypeOK
    <3>2. Head(queue[c]).by \in Tasks
      BY <3>1 DEF Requests
    <3>. QED
      BY <1>4, <2>1, <2>2, <2>4, <3>2, WakeUpWaking DEF WakeRequestors, Complete
  <2>. QED
    BY <2>3, <2>4
<1>5. ASSUME NEW p \in Tasks, WakePlace(p) PROVE Places'
  <2>1. ~Running(p)
    BY <1>5, RunningPlace DEF WakePlace, Waking
  <2>2. RunsWhereItIs'
    BY <1>5, <2>1, MoveKeepsPlace DEF WakePlace, TypeOK
  <2>. QED
    BY <1>5, <2>2 DEF WakePlace, Waking, Online, TypeOK
<1>6. ASSUME NEW c \in Cpus, NEW p \in Tasks, Pull(c, p) PROVE Places'
  BY <1>6, MoveKeepsPlace DEF Pull, Waking, Online, TypeOK
<1>7. ASSUME NEW p \in Callers, NEW q \in Tasks, NEW mask \in SUBSET Cpus,
            SetCpusAllowed(p, q, mask)
      PROVE Places'
  <2>1. \A r \in Tasks : Running(r) => cpu'[r] = cpu[r]
    BY <1>7 DEF SetCpusAllowed, MigrateTask, AskFor, TypeOK
  <2>. QED
    BY <1>7, <2>1, MoveKeepsPlace DEF SetCpusAllowed, Waking, Online
<1>8. ASSUME NEW c \in Cpus, MtMove(c) PROVE Places'
  <2>1. /\ hand[c].req.task \in Tasks /\ hand[c].req.to \in Cpus
        /\ MigrateTo(hand[c].req.task, c, hand[c].req.to)
    BY <1>8 DEF MtMove, Requests, TypeOK
  <2>2. curr[c] \notin Tasks
    BY <1>8, TasksAssumption DEF MtMove, MtRuns
  <2>. QED
    BY <1>8, <2>1, <2>2, MigrateToKeepsRunning, MoveKeepsPlace DEF MtMove, Waking, Online
<1>9. ASSUME NEW c \in Cpus, MoveOffDeadCpu(c) PROVE Places'
  <2>1. dest.task \in Tasks /\ dest.to \in Cpus /\ MigrateTo(dest.task, c, dest.to)
    BY <1>9 DEF MoveOffDeadCpu, TypeOK
  <2>2. c \notin Online
    BY <1>9 DEF MoveOffDeadCpu, Online
  <2>. QED
    BY <1>9, <2>1, <2>2, MigrateToKeepsRunning, MoveKeepsPlace DEF MoveOffDeadCpu, Waking, Online
<1>10. ASSUME NEW p \in Tasks, WakeActivate(p) \/ Sleep(p) PROVE Places'
  <2>1. CASE WakeActivate(p)
    <3>1. RunsWhereItIs'
      BY <2>1 DEF WakeActivate, RunsWhereItIs, Online, TypeOK
    <3>2. Waking'
      BY <2>1 DEF WakeActivate, Waking, Online, TypeOK
    <3>. QED
      BY <3>1, <3>2
  <2>2. CASE Sleep(p)
    <3>1. RunsWhereItIs'
      BY <2>2 DEF Sleep, RunsWhereItIs, Online
    <3>2. Waking'
      BY <2>2 DEF Sleep, Waking, Online, TypeOK
    <3>. QED
      BY <3>1, <3>2
  <2>. QED
    BY <1>10, <2>1, <2>2
<1>11. ASSUME NEW p \in Callers, WaitForCompletion(p) PROVE Places'
  BY <1>11, TasksAssumption DEF WaitForCompletion, RunsWhereItIs, Waking, Online, TypeOK
<1>12. ASSUME NEW c \in Cpus, Dying(c) PROVE Places'
  <2>1. Waking'
    BY <1>12 DEF Dying, Waking
  <2>2. curr'[c] = Idle /\ Idle \notin Tasks /\ Idle # Mt
    BY <1>12, TasksAssumption DEF Dying, TypeOK, Idle, Mt
  <2>3. ASSUME NEW d \in Cpus, d # c
        PROVE  /\ curr'[d] = curr[d] /\ mqueued'[d] = mqueued[d] /\ (d \in Online => d \in Online')
               /\ curr[d] \in Tasks => curr[d] # curr[c]
    BY <1>12, <2>3 DEF Dying, RunsWhereItIs, TypeOK, Online
  <2>4. \A p \in Tasks : p # curr[c] => on_rq'[p] = on_rq[p]
    BY <1>12 DEF Dying, TypeOK
  <2>5. cpu' = cpu
    BY <1>12 DEF Dying
  <2>. QED
    BY <2>1, <2>2, <2>3, <2>4, <2>5 DEF RunsWhereItIs
<1>13. ASSUME NEW c \in Cpus,
              Deactivate(c) \/ StopMt(c) \/ UpPrepare(c) \/ UpOnline(c) \/ UpCanceled(c)
       PROVE Places'
  <2>1. Online \subseteq Online' /\ UNCHANGED <<curr, cpu, on_rq, state, chosen>>
    BY <1>13 DEF Deactivate, StopMt, UpPrepare, UpOnline, UpCanceled, Online, Active, TypeOK
  <2>2. ASSUME NEW d \in Cpus, mqueued[d], d \in Online PROVE mqueued'[d]
    <3>1. CASE StopMt(c)
      BY <2>2, <3>1 DEF StopMt, TypeOK, Online
    <3>2. CASE UpOnline(c)
      BY <2>2, <3>2 DEF UpOnline, TypeOK
    <3>3. CASE Deactivate(c) \/ UpPrepare(c) \/ UpCanceled(c)
      BY <2>2, <3>3 DEF Deactivate, UpPrepare, UpCanceled
    <3>. QED
      BY <1>13, <3>1, <3>2, <3>3
  <2>3. RunsWhereItIs'
    BY <2>1, <2>2 DEF RunsWhereItIs
  <2>4. Waking'
    BY <2>1 DEF Waking
  <2>. QED
    BY <2>3, <2>4
<1>14. ASSUME NEW p \in Callers, WakeMt(p) PROVE Places'
  <2>1. \A d \in Cpus : mqueued[d] => mqueued'[d]
    BY <1>14 DEF WakeMt, TypeOK
  <2>. QED
    BY <1>14, <2>1 DEF WakeMt, RunsWhereItIs, Waking, Online
<1>15. ASSUME UNCHANGED <<curr, cpu, on_rq, state, chosen, phase, mqueued>> PROVE Places'
  BY <1>15 DEF RunsWhereItIs, Waking, Online
<1>16. ASSUME NEW c \in Cpus, MtTop(c) \/ MtTake(c) \/ \E p \in Tasks : ChooseDest(c, p) PROVE Places'
  BY <1>15, <1>16 DEF MtTop, MtTake, ChooseDest
<1>17. ASSUME NEW p \in Callers, NEW c \in Cpus, SchedExec(p, c) PROVE Places'
  BY <1>15, <1>17 DEF SchedExec, AskFor
<1>18. CASE Reset \/ (\E p \in Tasks : SetForced(p)) \/ UNCHANGED vars
  BY <1>15, <1>18 DEF Reset, SetForced, vars
<1>. HIDE DEF Places, tasks, call, mt, plug
<1>19. ASSUME NEW c \in Cpus, MtStep(c) \/ Down(c) PROVE Places'
  BY <1>19, <1>3, <1>4, <1>8, <1>9, <1>12, <1>13, <1>16 DEF MtStep, Down
<1>20. CASE \E c \in Cpus : \/ Schedule(c) \/ MtStep(c) \/ Deactivate(c) \/ Down(c)
                            \/ UpPrepare(c) \/ UpOnline(c) \/ UpCanceled(c)
                            \/ \E p \in Tasks : Pull(c, p)
  BY <1>20, <1>1, <1>6, <1>13, <1>19
<1>21. CASE \E p \in Tasks : WakePlace(p) \/ WakeActivate(p) \/ Sleep(p) \/ Wake(p) \/ SetForced(p)
  BY <1>21, <1>2, <1>5, <1>10, <1>18
<1>22. CASE \E p \in Callers :
              \/ WakeMt(p) \/ WaitForCompletion(p)
              \/ \E q \in Tasks, mask \in SUBSET Cpus : SetCpusAllowed(p, q, mask)
              \/ \E c \in Cpus : SchedExec(p, c)
  BY <1>22, <1>7, <1>11, <1>14, <1>17
<1>. QED
  BY <1>18, <1>20, <1>21, <1>22 DEF Next

-----------------------------------------------------------------------------
(* Nobody is left behind by steps after which tasks have only arrived on   *)
(* processors that are online, and requests only where tasks are.          *)
LEMMA ArriveOnline ==
  ASSUME TypeOK, Leaves, UNCHANGED <<phase, scan>>,
         \A p \in Tasks : cpu'[p] = cpu[p] \/ cpu'[p] \in Online,
         \A c \in Cpus : queue'[c] = queue[c] \/ queue[c] # <<>> \/ \E p \in Tasks : cpu[p] = c
  PROVE  Leaves'
<1>1. \A c \in Online : phase[c] \in {"up", "inactive"}
  BY DEF Online
<1>2. OneAtATime' /\ Scanned'
  BY <1>1 DEF Leaves, OneAtATime, Scanned
<1>3. NobodyLeftBehind'
  BY <1>1 DEF Leaves, NobodyLeftBehind
<1>. QED
  BY <1>2, <1>3 DEF Leaves

(* A request goes to the processor where its task is.                      *)
LEMMA AskForPlace ==
  ASSUME TypeOK, NEW caller \in Tasks, NEW q \in Tasks, NEW d \in Cpus, AskFor(caller, q, d)
  PROVE  \A c \in Cpus : queue'[c] = queue[c] \/ \E p \in Tasks : cpu[p] = c
BY DEF AskFor, TypeOK

(* Tail of a queue that is not empty.                                      *)
LEMMA TakePlace ==
  ASSUME TypeOK, NEW c \in Cpus,
         UNCHANGED queue \/ (queue[c] # <<>> /\ queue' = [queue EXCEPT ![c] = Tail(@)])
  PROVE  \A d \in Cpus : queue'[d] = queue[d] \/ queue[d] # <<>>
BY DEF TypeOK

(* A processor that is empty goes on to be empty, or comes up.             *)
LEMMA EmptyProcessor ==
  ASSUME TypeOK, Leaves, NEW c \in Cpus, NEW x \in {"down", "prepared", "up"},
         phase[c] \in {"dead", "down", "prepared"}, queue[c] = <<>>,
         phase' = [phase EXCEPT ![c] = x], UNCHANGED <<cpu, queue, scan>>
  PROVE  Leaves'
<1>1. phase'[c] = x /\ \A d \in Cpus : d # c => phase'[d] = phase[d]
  BY DEF TypeOK
<1>2. OneAtATime'
  BY <1>1 DEF Leaves, OneAtATime
<1>3. Scanned'
  BY <1>1 DEF Leaves, Scanned
<1>4. NobodyLeftBehind'
  BY <1>1 DEF Leaves, NobodyLeftBehind
<1>. QED
  BY <1>2, <1>3, <1>4 DEF Leaves

LEMMA LeavesStep == TypeOK /\ Waking /\ Leaves /\ [Next]_vars => Leaves'
<1>. SUFFICES ASSUME TypeOK, Waking, Leaves, [Next]_vars PROVE Leaves'
  OBVIOUS
<1>. USE DEF tasks, call, mt, plug
<1>1. ASSUME UNCHANGED <<phase, scan, cpu, queue>> PROVE Leaves'
  BY <1>1, ArriveOnline
<1>2. ASSUME NEW c \in Cpus, Schedule(c) \/ MtTop(c) \/ MtComplete(c) PROVE Leaves'
  BY <1>1, <1>2 DEF Schedule, MtTop, MtComplete
<1>3. ASSUME NEW c \in Cpus, MtTake(c) PROVE Leaves'
  <2>1. UNCHANGED queue \/ (queue[c] # <<>> /\ queue' = [queue EXCEPT ![c] = Tail(@)])
    BY <1>3 DEF MtTake
  <2>. QED
    BY <1>3, <2>1, TakePlace, ArriveOnline DEF MtTake
<1>4. ASSUME NEW c \in Cpus, MtMove(c) PROVE Leaves'
  <2>1. \A p \in Tasks : cpu'[p] = cpu[p] \/ cpu'[p] \in Online
    BY <1>4, OnlineIsCpu DEF MtMove, MigrateTo, Refused, TypeOK
  <2>. QED
    BY <1>4, <2>1, ArriveOnline DEF MtMove
<1>5. ASSUME NEW c \in Cpus, NEW p \in Tasks, Pull(c, p) PROVE Leaves'
  <2>1. \A q \in Tasks : cpu'[q] = cpu[q] \/ cpu'[q] \in Online
    BY <1>5 DEF Pull, TypeOK
  <2>. QED
    BY <1>5, <2>1, ArriveOnline DEF Pull
<1>6. ASSUME NEW p \in Tasks, WakePlace(p) PROVE Leaves'
  <2>1. \A q \in Tasks : cpu'[q] = cpu[q] \/ cpu'[q] \in Online
    BY <1>6 DEF WakePlace, TypeOK, Waking
  <2>. QED
    BY <1>6, <2>1, ArriveOnline DEF WakePlace
<1>7. ASSUME NEW p \in Tasks, WakeActivate(p) \/ Sleep(p) \/ Wake(p) \/ SetForced(p) PROVE Leaves'
  BY <1>1, <1>7 DEF WakeActivate, Sleep, Wake, SetForced
<1>8. ASSUME NEW p \in Callers, WakeMt(p) \/ WaitForCompletion(p) PROVE Leaves'
  BY <1>1, <1>8 DEF WakeMt, WaitForCompletion
<1>9. ASSUME NEW p \in Callers, NEW q \in Tasks, NEW mask \in SUBSET Cpus,
             SetCpusAllowed(p, q, mask)
      PROVE Leaves'
  <2>1. CASE UNCHANGED <<cpu, queue>>
    BY <1>1, <1>9, <2>1 DEF SetCpusAllowed
  <2>2. ASSUME NEW d \in mask \cap Online, MigrateTask(p, q, d) PROVE Leaves'
    <3>1. CASE cpu' = [cpu EXCEPT ![q] = d] /\ UNCHANGED queue
      <4>1. \A r \in Tasks : cpu'[r] = cpu[r] \/ cpu'[r] \in Online
        BY <3>1 DEF TypeOK
      <4>. QED
        BY <1>9, <3>1, <4>1, ArriveOnline DEF SetCpusAllowed
    <3>2. CASE AskFor(p, q, d)
      <4>1. \A c \in Cpus : queue'[c] = queue[c] \/ \E r \in Tasks : cpu[r] = c
        BY <3>2, AskForPlace, TasksAssumption
      <4>. QED
        BY <1>9, <3>2, <4>1, ArriveOnline DEF SetCpusAllowed, AskFor
    <3>. QED
      BY <2>2, <3>1, <3>2 DEF MigrateTask
  <2>. QED
    BY <1>9, <2>1, <2>2 DEF SetCpusAllowed
<1>10. ASSUME NEW p \in Callers, NEW d \in Cpus, SchedExec(p, d) PROVE Leaves'
  <2>1. AskFor(p, p, d) /\ p \in Tasks /\ UNCHANGED <<phase, scan>>
    BY <1>10, TasksAssumption DEF SchedExec
  <2>2. \A c \in Cpus : queue'[c] = queue[c] \/ \E r \in Tasks : cpu[r] = c
    BY <2>1, AskForPlace
  <2>. QED
    BY <2>1, <2>2, ArriveOnline DEF AskFor
<1>11. ASSUME NEW c \in Cpus, NEW p \in Tasks, ChooseDest(c, p) PROVE Leaves'
  <2>1. /\ UNCHANGED <<phase, cpu, queue>> /\ phase[c] = "dying"
        /\ scan' = scan \/ (scan' = scan \ {p} /\ cpu[p] # c)
    BY <1>11 DEF ChooseDest
  <2>. QED
    BY <2>1 DEF Leaves, OneAtATime, Scanned, NobodyLeftBehind
<1>12. ASSUME NEW c \in Cpus, MoveOffDeadCpu(c) PROVE Leaves'
  <2>. DEFINE p == dest.task
  <2>1. UNCHANGED <<phase, queue>> /\ phase[c] = "dying" /\ p \in Tasks
    BY <1>12 DEF MoveOffDeadCpu, TypeOK
  <2>2. \A q \in Tasks : cpu'[q] = cpu[q] \/ cpu'[q] \in Online
    BY <1>12, OnlineIsCpu DEF MoveOffDeadCpu, MigrateTo, Refused, TypeOK
  <2>3. \A q \in Tasks : q \in scan /\ q \notin scan' => cpu'[q] # c
    BY <1>12, <2>1 DEF MoveOffDeadCpu, MigrateTo, Refused, Active, TypeOK
  <2>4. \A d \in Online : phase[d] \in {"up", "inactive"}
    BY DEF Online
  <2>5. OneAtATime' /\ NobodyLeftBehind'
    BY <2>1, <2>2, <2>4 DEF Leaves, OneAtATime, NobodyLeftBehind
  <2>6. Scanned'
    BY <2>1, <2>2, <2>3, <2>4 DEF Leaves, Scanned, OneAtATime
  <2>. QED
    BY <2>5, <2>6 DEF Leaves
<1>13. ASSUME NEW c \in Cpus, Dying(c) PROVE Leaves'
  BY <1>13 DEF Dying, Leaves, OneAtATime, Scanned, NobodyLeftBehind, TypeOK
<1>14. ASSUME NEW c \in Cpus, StopMt(c) PROVE Leaves'
  <2>1. \A p \in Tasks : cpu[p] # c
    BY <1>14 DEF StopMt, Leaves, Scanned
  <2>. QED
    BY <1>14, <2>1 DEF StopMt, Leaves, OneAtATime, Scanned, NobodyLeftBehind, TypeOK
<1>15. ASSUME NEW c \in Cpus, WakeRequestors(c) PROVE Leaves'
  <2>1. CASE queue[c] = <<>>
    BY <1>15, <2>1, EmptyProcessor DEF WakeRequestors
  <2>2. CASE queue[c] # <<>>
    BY <1>15, <2>2, TakePlace, ArriveOnline DEF WakeRequestors
  <2>. QED
    BY <2>1, <2>2
<1>16. ASSUME NEW c \in Cpus, Deactivate(c) PROVE Leaves'
  <2>1. \A d \in Cpus : phase[d] = "up"
    BY <1>16 DEF Deactivate, Active
  <2>. QED
    BY <1>16, <2>1 DEF Deactivate, Leaves, OneAtATime, Scanned, NobodyLeftBehind, TypeOK
<1>17. ASSUME NEW c \in Cpus, UpPrepare(c) \/ UpOnline(c) \/ UpCanceled(c) PROVE Leaves'
  <2>1. phase[c] \in {"down", "prepared"} /\ UNCHANGED <<cpu, queue, scan>>
    BY <1>17 DEF UpPrepare, UpOnline, UpCanceled
  <2>2. queue[c] = <<>>
    BY <2>1 DEF Leaves, NobodyLeftBehind
  <2>3. PICK x \in {"down", "prepared", "up"} : phase' = [phase EXCEPT ![c] = x]
    BY <1>17 DEF UpPrepare, UpOnline, UpCanceled
  <2>. QED
    BY <2>1, <2>2, <2>3, EmptyProcessor
<1>18. CASE Reset \/ UNCHANGED vars
  BY <1>1, <1>18 DEF Reset, vars
<1>. HIDE DEF tasks, call, mt, plug
<1>19. ASSUME NEW c \in Cpus, MtStep(c) \/ Down(c) PROVE Leaves'
  BY <1>19, <1>2, <1>3, <1>4, <1>11, <1>12, <1>13, <1>14, <1>15 DEF MtStep, Down
<1>20. CASE \E c \in Cpus : \/ Schedule(c) \/ MtStep(c) \/ Deactivate(c) \/ Down(c)
                            \/ UpPrepare(c) \/ UpOnline(c) \/ UpCanceled(c)
                            \/ \E p \in Tasks : Pull(c, p)
  BY <1>20, <1>2, <1>5, <1>16, <1>17, <1>19
<1>21. CASE \E p \in Tasks : WakePlace(p) \/ WakeActivate(p) \/ Sleep(p) \/ Wake(p) \/ SetForced(p)
  BY <1>21, <1>6, <1>7
<1>22. CASE \E p \in Callers :
              \/ WakeMt(p) \/ WaitForCompletion(p)
              \/ \E q \in Tasks, mask \in SUBSET Cpus : SetCpusAllowed(p, q, mask)
              \/ \E c \in Cpus : SchedExec(p, c)
  BY <1>22, <1>8, <1>9, <1>10
<1>. QED
  BY <1>18, <1>20, <1>21, <1>22 DEF Next

-----------------------------------------------------------------------------
(* The invariant holds in every reachable state.                           *)
LEMMA Invariant == Spec => []IInv
<1>1. IInv /\ [Next]_vars => IInv'
  BY TypeStep, PlacesStep, LeavesStep DEF IInv, Places
<1>. QED
  BY <1>1, InitIInv, PTL DEF Spec

(* The state of affinity and hotplug stays well typed, for any number of   *)
(* processors, tasks and callers.                                          *)
THEOREM TypeCorrect == Spec => []TypeOK
<1>1. IInv => TypeOK
  BY DEF IInv
<1>. QED
  BY <1>1, Invariant, PTL

(* A running task is never moved by set_cpus_allowed_ptr(), balancing, a   *)
(* migration thread or hotplug, and none runs on an offline processor.     *)
THEOREM RunsWhereItIsHolds == Spec => []RunsWhereItIs
<1>1. IInv => RunsWhereItIs
  BY DEF IInv, Places
<1>. QED
  BY <1>1, Invariant, PTL

(* migration_call() leaves no task and no request on a dead processor.     *)
THEOREM NobodyLeftBehindHolds == Spec => []NobodyLeftBehind
<1>1. IInv => NobodyLeftBehind
  BY DEF IInv, Leaves
<1>. QED
  BY <1>1, Invariant, PTL

(* No step of another processor, of a migration thread or of hotplug moves *)
(* a task that runs while the scheduler is locked to it.                   *)
THEOREM ForcedStaysHolds == Spec => ForcedStays
<1>. DEFINE Stays(p) == p \in forced /\ Running(p) => cpu'[p] = cpu[p] /\ Running(p)'
<1>1. ASSUME IInv, [Next]_vars, NEW p \in Tasks PROVE Stays(p)
  <2>. SUFFICES ASSUME p \in forced, Running(p) PROVE cpu'[p] = cpu[p] /\ Running(p)'
    OBVIOUS
  <2>. USE DEF tasks, call, mt, plug
  <2>1. TypeOK /\ RunsWhereItIs /\ Waking
    BY <1>1 DEF IInv, Places
  <2>2. PICK h \in Cpus : curr[h] = p /\ cpu[p] = h /\ h \in Online
    BY <2>1, RunningPlace DEF Running, TypeOK, Online
  <2>3. ~(~InKernel(h))
    BY <2>2 DEF InKernel
  <2>4. curr' = curr => Running(p)'
    BY <2>2 DEF Running
  <2>5. ASSUME NEW c \in Cpus, Schedule(c) PROVE cpu'[p] = cpu[p] /\ Running(p)'
    <3>1. c # h /\ cpu' = cpu
      BY <2>3, <2>5 DEF Schedule
    <3>2. curr'[h] = curr[h]
      BY <2>1, <2>5, <3>1 DEF Schedule, TypeOK
    <3>. QED
      BY <2>2, <3>1, <3>2 DEF Running
  <2>6. ASSUME NEW c \in Cpus, Dying(c) PROVE FALSE
    BY <2>3, <2>6 DEF Dying
  <2>7. ASSUME NEW c \in Cpus, MtMove(c) PROVE cpu'[p] = cpu[p]
    <3>1. /\ hand[c].req.task \in Tasks /\ hand[c].req.to \in Cpus
          /\ MigrateTo(hand[c].req.task, c, hand[c].req.to)
      BY <2>1, <2>7 DEF MtMove, Requests, TypeOK
    <3>2. curr[c] \notin Tasks
      BY <2>7, TasksAssumption DEF MtMove, MtRuns
    <3>. QED
      BY <2>1, <3>1, <3>2, MigrateToKeepsRunning
  <2>8. ASSUME NEW c \in Cpus, MoveOffDeadCpu(c) PROVE cpu'[p] = cpu[p]
    <3>1. dest.task \in Tasks /\ dest.to \in Cpus /\ MigrateTo(dest.task, c, dest.to)
      BY <2>1, <2>8 DEF MoveOffDeadCpu, TypeOK
    <3>2. c \notin Online
      BY <2>8 DEF MoveOffDeadCpu, Online
    <3>. QED
      BY <2>1, <3>1, <3>2, MigrateToKeepsRunning
  <2>9. ASSUME NEW c \in Cpus, NEW q \in Tasks, Pull(c, q) PROVE cpu'[p] = cpu[p]
    BY <2>1, <2>9 DEF Pull, TypeOK
  <2>10. ASSUME NEW q \in Tasks, WakePlace(q) PROVE cpu'[p] = cpu[p]
    <3>1. ~Running(q)
      BY <2>1, <2>10, RunningPlace DEF WakePlace, Waking
    <3>. QED
      BY <2>1, <2>10, <3>1 DEF WakePlace, TypeOK
  <2>11. ASSUME NEW caller \in Callers, NEW q \in Tasks, NEW mask \in SUBSET Cpus,
                SetCpusAllowed(caller, q, mask)
         PROVE cpu'[p] = cpu[p]
    BY <2>1, <2>11 DEF SetCpusAllowed, MigrateTask, AskFor, TypeOK
  <2>12. ASSUME NEW c \in Cpus,
                \/ Schedule(c) \/ MtStep(c) \/ Deactivate(c) \/ Down(c)
                \/ UpPrepare(c) \/ UpOnline(c) \/ UpCanceled(c)
                \/ \E q \in Tasks : Pull(c, q)
         PROVE cpu'[p] = cpu[p] /\ Running(p)'
    <3>1. CASE MtTop(c) \/ MtTake(c) \/ MtComplete(c)
      BY <2>4, <3>1 DEF MtTop, MtTake, MtComplete
    <3>2. CASE MtMove(c)
      BY <2>4, <2>7, <3>2 DEF MtMove
    <3>3. CASE MoveOffDeadCpu(c)
      BY <2>4, <2>8, <3>3 DEF MoveOffDeadCpu
    <3>4. CASE StopMt(c) \/ WakeRequestors(c) \/ \E q \in Tasks : ChooseDest(c, q)
      BY <2>4, <3>4 DEF StopMt, WakeRequestors, ChooseDest
    <3>5. CASE Deactivate(c) \/ UpPrepare(c) \/ UpOnline(c) \/ UpCanceled(c)
      BY <2>4, <3>5 DEF Deactivate, UpPrepare, UpOnline, UpCanceled
    <3>6. CASE \E q \in Tasks : Pull(c, q)
      BY <2>4, <2>9, <3>6 DEF Pull
    <3>. QED
      BY <2>5, <2>6, <2>12, <3>1, <3>2, <3>3, <3>4, <3>5, <3>6 DEF MtStep, Down
  <2>13. ASSUME NEW q \in Tasks,
                WakePlace(q) \/ WakeActivate(q) \/ Sleep(q) \/ Wake(q) \/ SetForced(q)
         PROVE cpu'[p] = cpu[p] /\ Running(p)'
    <3>1. CASE WakePlace(q)
      BY <2>4, <2>10, <3>1 DEF WakePlace
    <3>2. CASE WakeActivate(q) \/ Sleep(q) \/ Wake(q) \/ SetForced(q)
      BY <2>4, <3>2 DEF WakeActivate, Sleep, Wake, SetForced
    <3>. QED
      BY <2>13, <3>1, <3>2
  <2>14. ASSUME NEW caller \in Callers,
                \/ WakeMt(caller) \/ WaitForCompletion(caller)
                \/ \E q \in Tasks, mask \in SUBSET Cpus : SetCpusAllowed(caller, q, mask)
                \/ \E c \in Cpus : SchedExec(caller, c)
         PROVE cpu'[p] = cpu[p] /\ Running(p)'
    <3>1. CASE WakeMt(caller) \/ WaitForCompletion(caller) \/ \E c \in Cpus : SchedExec(caller, c)
      BY <2>4, <3>1 DEF WakeMt, WaitForCompletion, SchedExec, AskFor
    <3>2. CASE \E q \in Tasks, mask \in SUBSET Cpus : SetCpusAllowed(caller, q, mask)
      BY <2>4, <2>11, <3>2 DEF SetCpusAllowed
    <3>. QED
      BY <2>14, <3>1, <3>2
  <2>15. CASE Reset \/ UNCHANGED vars
    BY <2>4, <2>15 DEF Reset, vars
  <2>. HIDE DEF tasks, call, mt, plug
  <2>. QED
    BY <1>1, <2>12, <2>13, <2>14, <2>15 DEF Next
<1>2. IInv /\ [Next]_vars => [\A p \in Tasks : Stays(p)]_vars
  BY <1>1
<1>. QED
  BY <1>2, Invariant, PTL DEF Spec, ForcedStays

-----------------------------------------------------------------------------
(* What a thread that sets an affinity may rely on.  A request r is        *)
(* pending at c while the migration thread of c has still to act on it.    *)
Pending(c, r) ==
  \/ \E i \in 1 .. Len(queue[c]) : queue[c][i] = r
  \/ hand[c] # None /\ hand[c].req = r /\ ~hand[c].moved

(* A task is where it may be, or one pending request would still be served *)
(* now: it has a destination its present affinity allows.                  *)
Obeys(p) ==
  /\ cpu[p] \notin allowed[p] =>
       raced[p] \/ \E r \in Requests : r.task = p /\ r.to \in allowed[p] /\ Pending(cpu[p], r)
  /\ chosen[p] # None => chosen[p] \in allowed[p] \/ raced[p]

Affine == \A p \in Tasks : Obeys(p)

(* Putting a request first, and taking the first one.                      *)
LEMMA Prepended ==
  ASSUME NEW r \in Requests, NEW q \in Seq(Requests)
  PROVE  /\ <<r>> \o q \in Seq(Requests) /\ Len(<<r>> \o q) = Len(q) + 1 /\ Len(q) \in Nat
         /\ (<<r>> \o q)[1] = r
         /\ \A i \in 1 .. Len(q) : (<<r>> \o q)[i + 1] = q[i]
OBVIOUS

LEMMA Taken ==
  ASSUME NEW q \in Seq(Requests), q # <<>>
  PROVE  /\ Tail(q) \in Seq(Requests) /\ Len(Tail(q)) = Len(q) - 1 /\ Len(q) \in Nat \ {0}
         /\ Head(q) = q[1] /\ Head(q) \in Requests
         /\ \A i \in 1 .. Len(q) - 1 : Tail(q)[i] = q[i + 1]
OBVIOUS

LEMMA ObeysKept ==
  ASSUME NEW p \in Tasks, Obeys(p), cpu'[p] = cpu[p], allowed[p] \subseteq allowed'[p],
         raced[p] => raced'[p], chosen'[p] \in {chosen[p], None} \cup allowed'[p],
         \A r \in Requests : r.task = p /\ r.to \in allowed[p] /\ Pending(cpu[p], r) =>
           Pending(cpu[p], r)' \/ raced'[p]
  PROVE  Obeys(p)'
BY DEF Obeys

(* A request that is not touched stays pending.                            *)
LEMMA PendingKept ==
  ASSUME NEW c \in Cpus, NEW r, Pending(c, r), hand'[c] = hand[c],
         queue'[c] = queue[c]
  PROVE  Pending(c, r)'
BY DEF Pending

(* A wake-up chooses a processor the task may use, or none.                *)
LEMMA WakeUpChooses ==
  ASSUME TypeOK, NEW p \in Tasks, WakeUp(p), NEW q \in Tasks
  PROVE  chosen'[q] \in {chosen[q], None} \cup allowed[q]
<1>1. CASE state[p] # "SLEEP" \/ on_rq[p]
  BY <1>1 DEF WakeUp
<1>2. CASE state[p] = "SLEEP" /\ ~on_rq[p]
  <2>1. PICK c \in {cpu[p]} \cup (allowed[p] \cap Online) :
          chosen' = [chosen EXCEPT ![p] = IF c = cpu[p] THEN None ELSE c]
    BY <1>2 DEF WakeUp
  <2>. QED BY <2>1 DEF TypeOK
<1>. QED BY <1>1, <1>2

(* Steps that move a task only to where it may be, and leave the requests. *)
LEMMA MovesWhereAllowed ==
  ASSUME TypeOK, Affine, UNCHANGED <<allowed, queue, hand>>,
         \A q \in Tasks : \/ cpu'[q] = cpu[q] \/ cpu'[q] \in allowed[q]
                          \/ cpu'[q] = chosen[q] /\ chosen[q] # None,
         \A q \in Tasks : chosen'[q] \in {chosen[q], None} \cup allowed[q],
         \A q \in Tasks : raced[q] => raced'[q]
  PROVE  Affine'
<1>. SUFFICES ASSUME NEW p \in Tasks PROVE Obeys(p)'
  BY DEF Affine
<1>1. Obeys(p)
  BY DEF Affine
<1>2. CASE cpu'[p] = cpu[p]
  BY <1>1, <1>2, ObeysKept, PendingKept DEF TypeOK
<1>3. CASE cpu'[p] \in allowed[p] \/ (cpu'[p] = chosen[p] /\ chosen[p] # None)
  BY <1>1, <1>3 DEF Obeys
<1>. QED BY <1>2, <1>3

LEMMA AffineStep == TypeOK /\ Waking /\ Leaves /\ Affine /\ [Next]_vars => Affine'
<1>. SUFFICES ASSUME TypeOK, Waking, Leaves, Affine, [Next]_vars PROVE Affine'
  OBVIOUS
<1>. USE DEF tasks, call, mt, plug
<1>0. \A p \in Tasks : Obeys(p) /\ cpu[p] \in Cpus
  BY DEF Affine, TypeOK
<1>1. ASSUME UNCHANGED <<cpu, allowed, chosen, queue, hand, raced>> PROVE Affine'
  BY <1>1, MovesWhereAllowed
<1>2. ASSUME NEW c \in Cpus, Schedule(c) \/ MtTop(c) \/ Deactivate(c) \/ Dying(c) \/ StopMt(c)
             \/ UpPrepare(c) \/ UpOnline(c) \/ UpCanceled(c)
      PROVE Affine'
  BY <1>1, <1>2 DEF Schedule, MtTop, Deactivate, Dying, StopMt, UpPrepare, UpOnline, UpCanceled
<1>3. ASSUME NEW c \in Cpus, MtTake(c) PROVE Affine'
  <2>1. CASE UNCHANGED <<queue, hand>>
    BY <1>1, <1>3, <2>1 DEF MtTake
  <2>2. CASE queue[c] # <<>>
    <3>1. /\ hand[c] = None /\ UNCHANGED <<cpu, allowed, chosen, raced>>
          /\ queue'[c] = Tail(queue[c]) /\ hand'[c] = [req |-> Head(queue[c]), moved |-> FALSE]
          /\ \A d \in Cpus : d # c => queue'[d] = queue[d] /\ hand'[d] = hand[d]
      BY <1>3, <2>2 DEF MtTake, TypeOK
    <3>2. hand'[c] # None /\ hand'[c].req = Head(queue[c]) /\ ~hand'[c].moved
      <4>1. PICK h \in [req : Requests, moved : BOOLEAN] : h = [req |-> Head(queue[c]), moved |-> FALSE]
        BY <2>2, Taken DEF TypeOK
      <4>2. h # None
        BY NoneAssumption
      <4>. QED BY <3>1, <4>1, <4>2
    <3>3. ASSUME NEW r, Pending(c, r) PROVE Pending(c, r)'
      <4>1. PICK i \in 1 .. Len(queue[c]) : queue[c][i] = r
        BY <3>1, <3>3 DEF Pending
      <4>2. CASE i = 1
        BY <2>2, <3>2, <4>1, <4>2, Taken DEF Pending, TypeOK
      <4>3. CASE i # 1
        <5>1. i - 1 \in 1 .. Len(Tail(queue[c])) /\ Tail(queue[c])[i - 1] = r
          BY <2>2, <4>1, <4>3, Taken DEF TypeOK
        <5>. QED BY <3>1, <5>1 DEF Pending
      <4>. QED BY <4>2, <4>3
    <3>. QED BY <1>0, <3>1, <3>3, ObeysKept, PendingKept DEF Affine
  <2>. QED BY <1>3, <2>1, <2>2 DEF MtTake
<1>4. ASSUME NEW c \in Cpus, MtMove(c) PROVE Affine'
  <2>1. PICK r \in Requests : r = hand[c].req
    BY <1>4 DEF MtMove, TypeOK
  <2>2. r.task \in Tasks /\ r.to \in Cpus
    BY DEF Requests
  <2>3. /\ UNCHANGED <<allowed, chosen, queue>> /\ \A d \in Cpus : d # c => hand'[d] = hand[d]
        /\ raced' = [raced EXCEPT ![r.task] = raced[r.task] \/ (cpu[r.task] = c /\ r.to \notin Active)]
        /\ MigrateTo(r.task, c, r.to)
    BY <1>4, <2>1 DEF MtMove, TypeOK
  <2>. SUFFICES ASSUME NEW p \in Tasks PROVE Obeys(p)'
    BY DEF Affine
  <2>4. ASSUME NEW s, s # r, NEW d \in Cpus, Pending(d, s) PROVE Pending(d, s)'
    BY <2>1, <2>3, <2>4 DEF Pending
  <2>5. raced[p] => raced'[p]
    BY <2>2, <2>3 DEF TypeOK
  <2>6. CASE cpu'[p] # cpu[p]
    <3>1. cpu'[p] \in allowed[p]
      BY <2>2, <2>3, <2>6 DEF MigrateTo, Refused, TypeOK
    <3>. QED BY <1>0, <2>3, <2>5, <3>1 DEF Obeys
  <2>7. CASE cpu'[p] = cpu[p]
    <3>1. ASSUME r.task = p, r.to \in allowed[p], Pending(cpu[p], r) 
          PROVE  cpu[p] \in allowed[p] \/ raced'[p] \/ cpu[p] # c
      BY <2>2, <2>3, <2>7, <3>1 DEF MigrateTo, Refused, TypeOK
    <3>2. ASSUME cpu[p] # c, NEW s \in Requests, Pending(cpu[p], s) PROVE Pending(cpu[p], s)'
      BY <1>0, <2>3, <2>7, <3>2, PendingKept
    <3>3. CASE cpu[p] \in allowed[p]
      BY <1>0, <2>3, <2>5, <2>7, <3>3 DEF Obeys
    <3>4. CASE cpu[p] \notin allowed[p]
      BY <1>0, <2>3, <2>4, <2>5, <2>7, <3>1, <3>2, <3>4, ObeysKept
    <3>. QED BY <3>3, <3>4
  <2>. QED BY <2>6, <2>7
<1>5. ASSUME NEW c \in Cpus, MtComplete(c) PROVE Affine'
  <2>1. PICK p \in Tasks : WakeUp(p)
    BY <1>5 DEF MtComplete, Complete, Requests, TypeOK
  <2>2. /\ UNCHANGED <<cpu, allowed, queue, raced>> /\ hand[c] # None /\ hand[c].moved
        /\ \A d \in Cpus : d # c => hand'[d] = hand[d]
    BY <1>5 DEF MtComplete, TypeOK
  <2>3. ASSUME NEW d \in Cpus, NEW r, Pending(d, r) PROVE Pending(d, r)'
    BY <2>2, <2>3 DEF Pending
  <2>. QED BY <1>0, <2>1, <2>2, <2>3, WakeUpChooses, ObeysKept DEF Affine
<1>6. ASSUME NEW p \in Tasks, Wake(p) PROVE Affine'
  BY <1>6, WakeUpChooses, MovesWhereAllowed DEF Wake
<1>7. ASSUME NEW p \in Tasks, WakePlace(p) PROVE Affine'
  <2>1. /\ \A q \in Tasks : cpu'[q] = cpu[q] \/ (cpu'[q] = chosen[q] /\ chosen[q] # None)
        /\ \A q \in Tasks : chosen'[q] \in {chosen[q], None}
    BY <1>7 DEF WakePlace, TypeOK
  <2>. QED BY <1>7, <2>1, MovesWhereAllowed DEF WakePlace
<1>8. ASSUME NEW p \in Tasks, WakeActivate(p) \/ Sleep(p) \/ SetForced(p) PROVE Affine'
  BY <1>1, <1>8 DEF WakeActivate, Sleep, SetForced
<1>9. ASSUME NEW c \in Cpus, NEW p \in Tasks, Pull(c, p) PROVE Affine'
  <2>1. \A q \in Tasks : cpu'[q] = cpu[q] \/ cpu'[q] \in allowed[q]
    BY <1>9 DEF Pull, TypeOK
  <2>. QED BY <1>9, <2>1, MovesWhereAllowed DEF Pull
<1>10. ASSUME NEW p \in Callers, WakeMt(p) \/ WaitForCompletion(p) PROVE Affine'
  BY <1>1, <1>10 DEF WakeMt, WaitForCompletion
<1>11. ASSUME NEW caller \in Tasks, NEW p \in Tasks, NEW d \in Cpus, AskFor(caller, p, d),
              NEW q \in Tasks, NEW r
       PROVE  /\ Pending(cpu[p], [task |-> p, to |-> d, by |-> caller])' \/ hand' # hand
              /\ Pending(cpu[q], r) => Pending(cpu[q], r)' \/ hand' # hand
  <2>1. PICK n \in Requests : n = [task |-> p, to |-> d, by |-> caller]
    BY DEF Requests
  <2>2. /\ cpu[p] \in Cpus /\ queue[cpu[p]] \in Seq(Requests)
        /\ queue'[cpu[p]] = <<n>> \o queue[cpu[p]]
        /\ \A e \in Cpus : e # cpu[p] => queue'[e] = queue[e]
    BY <1>11, <2>1 DEF AskFor, TypeOK
  <2>3. Pending(cpu[p], n)'
    <3>1. 1 \in 1 .. Len(queue'[cpu[p]]) /\ queue'[cpu[p]][1] = n
      BY <2>2, Prepended
    <3>2. cpu' = cpu
      BY <1>11 DEF AskFor
    <3>. QED BY <3>1, <3>2 DEF Pending
  <2>4. ASSUME Pending(cpu[q], r), hand' = hand PROVE Pending(cpu[q], r)'
    <3>1. cpu' = cpu
      BY <1>11 DEF AskFor
    <3>2. CASE \E i \in 1 .. Len(queue[cpu[q]]) : queue[cpu[q]][i] = r
      <4>1. PICK i \in 1 .. Len(queue[cpu[q]]) : queue[cpu[q]][i] = r
        BY <3>2
      <4>2. CASE cpu[q] = cpu[p]
        <5>1. i + 1 \in 1 .. Len(queue'[cpu[p]]) /\ queue'[cpu[p]][i + 1] = r
          BY <2>2, <4>1, <4>2, Prepended
        <5>. QED BY <3>1, <4>2, <5>1 DEF Pending
      <4>3. CASE cpu[q] # cpu[p]
        BY <1>0, <2>2, <3>1, <4>1, <4>3 DEF Pending
      <4>. QED BY <4>2, <4>3
    <3>3. CASE hand[cpu[q]] # None /\ hand[cpu[q]].req = r /\ ~hand[cpu[q]].moved
      BY <2>4, <3>1, <3>3 DEF Pending
    <3>. QED BY <2>4, <3>2, <3>3 DEF Pending
  <2>. QED BY <2>1, <2>3, <2>4
<1>12. ASSUME NEW p \in Callers, NEW d \in Cpus, SchedExec(p, d) PROVE Affine'
  <2>1. /\ AskFor(p, p, d) /\ p \in Tasks
        /\ UNCHANGED <<cpu, allowed, chosen, raced, hand>>
    BY <1>12, TasksAssumption DEF SchedExec, AskFor
  <2>2. \A q \in Tasks, r \in Requests : Pending(cpu[q], r) => Pending(cpu[q], r)'
    BY <1>11, <2>1
  <2>. QED BY <1>0, <2>1, <2>2, ObeysKept DEF Affine
<1>13. ASSUME NEW caller \in Callers, NEW p \in Tasks, NEW mask \in SUBSET Cpus,
              SetCpusAllowed(caller, p, mask)
       PROVE Affine'
  <2>1. /\ caller \in Tasks /\ UNCHANGED <<chosen, hand>>
        /\ allowed'[p] = mask /\ (state[p] = "WAKING" => raced'[p])
        /\ \A q \in Tasks : q # p => allowed'[q] = allowed[q] /\ raced'[q] = raced[q]
    BY <1>13, TasksAssumption DEF SetCpusAllowed, TypeOK
  <2>2. chosen'[p] # None => raced'[p]
    BY <2>1 DEF Waking
  <2>3. CASE UNCHANGED <<cpu, queue>> /\ cpu[p] \in mask
    <3>1. \A q \in Tasks \ {p} : Obeys(q)'
      BY <1>0, <2>1, <2>3, ObeysKept, PendingKept
    <3>. QED BY <2>1, <2>2, <2>3, <3>1 DEF Affine, Obeys
  <2>4. ASSUME NEW d \in mask \cap Online, cpu' = [cpu EXCEPT ![p] = d], UNCHANGED queue
        PROVE  Affine'
    <3>1. cpu'[p] \in mask /\ \A q \in Tasks : q # p => cpu'[q] = cpu[q]
      BY <2>4 DEF TypeOK
    <3>2. \A q \in Tasks \ {p} : Obeys(q)'
      BY <1>0, <2>1, <2>4, <3>1, ObeysKept, PendingKept
    <3>. QED BY <2>1, <2>2, <3>1, <3>2 DEF Affine, Obeys
  <2>5. ASSUME NEW d \in mask \cap Online, AskFor(caller, p, d) PROVE Affine'
    <3>1. PICK n \in Requests : n = [task |-> p, to |-> d, by |-> caller]
      BY <2>1 DEF Requests
    <3>2. cpu' = cpu /\ Pending(cpu[p], n)' /\ n.task = p /\ n.to \in mask
      BY <1>11, <2>1, <2>5, <3>1 DEF AskFor
    <3>3. \A q \in Tasks, r \in Requests : Pending(cpu[q], r) => Pending(cpu[q], r)'
      BY <1>11, <2>1, <2>5
    <3>4. \A q \in Tasks \ {p} : Obeys(q)'
      BY <1>0, <2>1, <3>2, <3>3, ObeysKept
    <3>. QED BY <2>1, <2>2, <3>2, <3>4 DEF Affine, Obeys, Pending
  <2>. QED BY <1>13, <2>3, <2>4, <2>5 DEF SetCpusAllowed, MigrateTask
<1>14. ASSUME NEW c \in Cpus, NEW p \in Tasks, ChooseDest(c, p) PROVE Affine'
  <2>1. /\ UNCHANGED <<cpu, chosen, queue, hand, raced>>
        /\ \A q \in Tasks : allowed[q] \subseteq allowed'[q]
    BY <1>14, ZenonT(30) DEF ChooseDest, TypeOK
  <2>. QED BY <1>0, <2>1, ObeysKept, PendingKept DEF Affine
<1>15. ASSUME NEW c \in Cpus, MoveOffDeadCpu(c) PROVE Affine'
  <2>1. \A q \in Tasks : cpu'[q] = cpu[q] \/ cpu'[q] \in allowed[q]
    BY <1>15 DEF MoveOffDeadCpu, MigrateTo, Refused, TypeOK
  <2>. QED BY <1>15, <2>1, MovesWhereAllowed DEF MoveOffDeadCpu
<1>16. ASSUME NEW c \in Cpus, WakeRequestors(c) PROVE Affine'
  <2>1. CASE UNCHANGED queue
    <3>1. \A q \in Tasks : chosen'[q] \in {chosen[q], None} \cup allowed[q]
      BY <1>16, <2>1, WakeUpChooses, Taken DEF WakeRequestors, Complete, TypeOK, Requests
    <3>. QED BY <1>16, <2>1, <3>1, MovesWhereAllowed DEF WakeRequestors
  <2>2. CASE queue[c] # <<>>
    <3>1. PICK p \in Tasks : WakeUp(p)
      BY <1>16, <2>2, Taken DEF WakeRequestors, Complete, TypeOK, Requests
    <3>2. UNCHANGED <<cpu, allowed, raced, hand>> /\ phase[c] = "dead"
          /\ \A d \in Cpus : d # c => queue'[d] = queue[d]
      BY <1>16, <2>2 DEF WakeRequestors, TypeOK
    <3>3. \A q \in Tasks : cpu[q] # c
      BY <3>2 DEF Leaves, NobodyLeftBehind
    <3>. QED BY <1>0, <3>1, <3>2, <3>3, WakeUpChooses, ObeysKept, PendingKept DEF Affine
  <2>. QED BY <1>16, <2>1, <2>2 DEF WakeRequestors
<1>17. CASE Reset \/ UNCHANGED vars
  BY <1>1, <1>17 DEF Reset, vars
<1>. HIDE DEF tasks, call, mt, plug
<1>18. CASE \E c \in Cpus : \/ Schedule(c) \/ MtStep(c) \/ Deactivate(c) \/ Down(c)
                            \/ UpPrepare(c) \/ UpOnline(c) \/ UpCanceled(c)
                            \/ \E p \in Tasks : Pull(c, p)
  BY <1>18, <1>2, <1>3, <1>4, <1>5, <1>9, <1>14, <1>15, <1>16 DEF MtStep, Down
<1>19. CASE \E p \in Tasks : WakePlace(p) \/ WakeActivate(p) \/ Sleep(p) \/ Wake(p) \/ SetForced(p)
  BY <1>19, <1>6, <1>7, <1>8
<1>20. CASE \E p \in Callers :
              \/ WakeMt(p) \/ WaitForCompletion(p)
              \/ \E q \in Tasks, mask \in SUBSET Cpus : SetCpusAllowed(p, q, mask)
              \/ \E c \in Cpus : SchedExec(p, c)
  BY <1>20, <1>10, <1>12, <1>13
<1>. QED BY <1>17, <1>18, <1>19, <1>20 DEF Next

-----------------------------------------------------------------------------
(* A caller that has queued its request goes on to wake the migration      *)
(* thread without giving up its processor.                                 *)
AwakeCalls ==
  \A p \in Tasks : pc[p] = "wake" => Running(p) /\ state[p] = "RUNNING"

(* A migration thread is only absent while its processor is gone.          *)
Threads == \A c \in Cpus : mstate[c] = "absent" => phase[c] \in {"dead", "down"}

Calls == AwakeCalls /\ Threads /\ Answered

LEMMA WakeUpState ==
  ASSUME TypeOK, NEW p \in Tasks, WakeUp(p)
  PROVE  /\ state'[p] # "SLEEP"
         /\ \A q \in Tasks : state[q] # "SLEEP" => state'[q] = state[q]
BY DEF WakeUp, TypeOK

LEMMA AwakeStep == TypeOK /\ AwakeCalls /\ [Next]_vars => AwakeCalls'
<1>. SUFFICES ASSUME TypeOK, AwakeCalls, [Next]_vars PROVE AwakeCalls'
  OBVIOUS
<1>. USE DEF tasks, call, mt, plug
<1>1. ASSUME UNCHANGED curr,
             \A p \in Tasks : pc'[p] = "wake" =>
               \/ pc[p] = "wake" /\ (state[p] = "RUNNING" => state'[p] = "RUNNING")
               \/ Running(p) /\ state'[p] = "RUNNING"
      PROVE  AwakeCalls'
  BY <1>1 DEF AwakeCalls, Running
<1>2. ASSUME UNCHANGED <<curr, pc>>, NEW q \in Tasks, WakeUp(q) PROVE AwakeCalls'
  BY <1>1, <1>2, WakeUpState
<1>3. ASSUME NEW c \in Cpus, Schedule(c) PROVE AwakeCalls'
  <2>1. \A p \in Tasks : pc[p] = "wake" => curr[c] # p
    BY <1>3 DEF Schedule, InKernel
  <2>2. UNCHANGED <<pc, state>> /\ \A d \in Cpus : d # c => curr'[d] = curr[d]
    BY <1>3 DEF Schedule, TypeOK
  <2>. QED BY <2>1, <2>2 DEF AwakeCalls, Running
<1>4. ASSUME NEW c \in Cpus, Dying(c) PROVE AwakeCalls'
  <2>1. \A p \in Tasks : pc[p] # "wake"
    BY <1>4 DEF Dying, InKernel, AwakeCalls, Running
  <2>. QED BY <1>4, <2>1 DEF Dying, AwakeCalls
<1>5. ASSUME NEW c \in Cpus,
             \/ MtTop(c) \/ MtTake(c) \/ MtMove(c) \/ Deactivate(c) \/ MoveOffDeadCpu(c) \/ StopMt(c)
             \/ UpPrepare(c) \/ UpOnline(c) \/ UpCanceled(c)
             \/ (\E p \in Tasks : ChooseDest(c, p) \/ Pull(c, p))
      PROVE  AwakeCalls'
  <2>1. UNCHANGED <<curr, pc, state>>
    BY <1>5 DEF MtTop, MtTake, MtMove, Deactivate, MoveOffDeadCpu, StopMt, UpPrepare, UpOnline, UpCanceled,
                ChooseDest, Pull
  <2>. QED BY <1>1, <2>1
<1>6. ASSUME NEW c \in Cpus, MtComplete(c) PROVE AwakeCalls'
  BY <1>2, <1>6 DEF MtComplete, Complete, Requests, TypeOK
<1>7. ASSUME NEW c \in Cpus, WakeRequestors(c) PROVE AwakeCalls'
  <2>1. CASE UNCHANGED state
    BY <1>1, <1>7, <2>1 DEF WakeRequestors
  <2>2. CASE queue[c] # <<>>
    <3>1. Head(queue[c]).by \in Tasks
      BY <2>2, Taken DEF Requests, TypeOK
    <3>. QED BY <1>2, <1>7, <2>2, <3>1 DEF WakeRequestors, Complete
  <2>. QED BY <1>7, <2>1, <2>2 DEF WakeRequestors
<1>8. ASSUME NEW p \in Tasks, WakePlace(p) \/ SetForced(p) PROVE AwakeCalls'
  BY <1>1, <1>8 DEF WakePlace, SetForced
<1>9. ASSUME NEW p \in Tasks, WakeActivate(p) \/ Sleep(p) PROVE AwakeCalls'
  BY <1>1, <1>9 DEF WakeActivate, Sleep, TypeOK
<1>10. ASSUME NEW p \in Tasks, Wake(p) PROVE AwakeCalls'
  BY <1>2, <1>10 DEF Wake
<1>11. ASSUME NEW p \in Callers, WakeMt(p) \/ WaitForCompletion(p) PROVE AwakeCalls'
  BY <1>1, <1>11, TasksAssumption DEF WakeMt, WaitForCompletion, TypeOK
<1>12. ASSUME NEW p \in Tasks, CanCall(p), UNCHANGED <<curr, state>>,
              UNCHANGED pc \/ pc' = [pc EXCEPT ![p] = "wake"]
       PROVE  AwakeCalls'
  BY <1>1, <1>12 DEF CanCall, TypeOK
<1>13. ASSUME NEW p \in Callers, NEW d \in Cpus, SchedExec(p, d) PROVE AwakeCalls'
  BY <1>12, <1>13, TasksAssumption DEF SchedExec, AskFor
<1>14. ASSUME NEW p \in Callers, NEW q \in Tasks, NEW mask \in SUBSET Cpus, SetCpusAllowed(p, q, mask)
       PROVE  AwakeCalls'
  BY <1>12, <1>14, TasksAssumption DEF SetCpusAllowed, MigrateTask, AskFor
<1>15. CASE Reset \/ UNCHANGED vars
  BY <1>1, <1>15 DEF Reset, vars
<1>. HIDE DEF tasks, call, mt, plug
<1>16. CASE \E c \in Cpus : \/ Schedule(c) \/ MtStep(c) \/ Deactivate(c) \/ Down(c)
                           \/ UpPrepare(c) \/ UpOnline(c) \/ UpCanceled(c)
                           \/ \E p \in Tasks : Pull(c, p)
  BY <1>16, <1>3, <1>4, <1>5, <1>6, <1>7 DEF MtStep, Down
<1>17. CASE \E p \in Tasks : WakePlace(p) \/ WakeActivate(p) \/ Sleep(p) \/ Wake(p) \/ SetForced(p)
  BY <1>17, <1>8, <1>9, <1>10
<1>18. CASE \E p \in Callers :
              \/ WakeMt(p) \/ WaitForCompletion(p)
              \/ \E q \in Tasks, mask \in SUBSET Cpus : SetCpusAllowed(p, q, mask)
              \/ \E c \in Cpus : SchedExec(p, c)
  BY <1>18, <1>11, <1>13, <1>14
<1>. QED BY <1>15, <1>16, <1>17, <1>18 DEF Next

(* The two halves of Answered.                                             *)
Seen(c) ==
  queue[c] # <<>> => \/ \E p \in Callers : pc[p] = "wake" /\ waits[p] = c
                     \/ WillLook(c)
                     \/ phase[c] \in {"dying", "dead"}
Woken == \A p \in Callers : pc[p] = "wait" /\ done[p] => state[p] # "SLEEP"

(* Steps that change neither requests nor migration threads, and do not    *)
(* bring a processor up.                                                   *)
LEMMA SeenKept ==
  ASSUME NEW c \in Cpus, Seen(c), queue'[c] = queue[c],
         mqueued'[c] = mqueued[c], mstate'[c] = mstate[c], mpc'[c] = mpc[c],
         phase'[c] = phase[c],
         \A p \in Callers : pc[p] = "wake" => pc'[p] = pc[p] /\ waits'[p] = waits[p]
  PROVE  Seen(c)'
BY DEF Seen, WillLook

LEMMA CallsStep == TypeOK /\ Places /\ Leaves /\ Calls /\ [Next]_vars => Calls'
<1>. SUFFICES ASSUME TypeOK, Places, Leaves, Calls, [Next]_vars PROVE Threads' /\ (\A c \in Cpus : Seen(c)') /\ Woken'
  BY AwakeStep DEF Calls, Answered, Seen, Woken
<1>. USE DEF tasks, call, mt, plug
<1>0. /\ Threads /\ (\A c \in Cpus : Seen(c)) /\ Woken /\ Callers \subseteq Tasks
      /\ \A p \in Callers : pc[p] = "wake" => state[p] = "RUNNING"
  BY TasksAssumption DEF Calls, Answered, Seen, Woken, AwakeCalls
<1>. DEFINE Goal == Threads' /\ (\A c \in Cpus : Seen(c)') /\ Woken'
<1>. SUFFICES Goal
  OBVIOUS
<1>1. ASSUME UNCHANGED <<queue, mqueued, mstate, mpc, phase, pc, waits, done, state>> PROVE Goal
  BY <1>0, <1>1 DEF Threads, Seen, WillLook, Woken
<1>2. ASSUME NEW c \in Cpus, Schedule(c) PROVE Goal
  <2>1. UNCHANGED <<queue, mstate, phase, pc, waits, done, state>>
    BY <1>2 DEF Schedule
  <2>2. \A d \in Cpus : d # c => mqueued'[d] = mqueued[d] /\ mpc'[d] = mpc[d]
    BY <1>2 DEF Schedule, TypeOK
  <2>3. WillLook(c) => WillLook(c)'
    <3>1. curr[c] = Mt => mpc[c] = "schedule"
      BY <1>2 DEF Schedule, InKernel
    <3>2. /\ mqueued'[c] = (mqueued[c] /\ (curr[c] = Mt => mstate[c] # "SLEEP"))
          /\ mpc'[c] = IF curr[c] = Mt THEN "back" ELSE mpc[c]
      BY <1>2 DEF Schedule, TypeOK
    <3>3. CASE curr[c] = Mt
      BY <2>1, <3>1, <3>2, <3>3, Zenon DEF WillLook
    <3>4. CASE curr[c] # Mt
      BY <2>1, <3>2, <3>4, Zenon DEF WillLook
    <3>. QED BY <3>3, <3>4
  <2>4. \A d \in Cpus : Seen(d)'
    BY <1>0, <2>1, <2>2, <2>3, SeenKept DEF Seen
  <2>. QED BY <1>0, <2>1, <2>4 DEF Threads, Woken
<1>3. ASSUME NEW c \in Cpus, MtTop(c) PROVE Goal
  <2>1. /\ UNCHANGED <<queue, mqueued, phase, pc, waits, done, state>> /\ mqueued[c]
        /\ mstate'[c] = "SLEEP" /\ mpc'[c] = "top"
        /\ \A d \in Cpus : d # c => mstate'[d] = mstate[d] /\ mpc'[d] = mpc[d]
    BY <1>3 DEF MtTop, MtRuns, Places, RunsWhereItIs, TypeOK
  <2>2. \A d \in Cpus : Seen(d)'
    BY <1>0, <2>1, SeenKept DEF Seen, WillLook
  <2>. QED BY <1>0, <2>1, <2>2 DEF Threads, Woken
<1>4. ASSUME NEW c \in Cpus, MtTake(c) PROVE Goal
  <2>1. /\ UNCHANGED <<mqueued, mstate, phase, pc, waits, done, state>>
        /\ mpc[c] = "top" /\ mqueued[c]
        /\ queue[c] # <<>> => mpc' = mpc
        /\ queue[c] = <<>> => queue' = queue
        /\ \A d \in Cpus : d # c => queue'[d] = queue[d] /\ mpc'[d] = mpc[d]
    BY <1>4 DEF MtTake, MtRuns, Places, RunsWhereItIs, TypeOK
  <2>2. Seen(c)'
    BY <2>1 DEF Seen, WillLook
  <2>3. \A d \in Cpus : Seen(d)'
    BY <1>0, <2>1, <2>2, SeenKept
  <2>. QED BY <1>0, <2>1, <2>3 DEF Threads, Woken
<1>5. ASSUME NEW c \in Cpus, NEW q \in Tasks, WakeUp(q), done' = [done EXCEPT ![q] = TRUE],
             UNCHANGED <<mqueued, mstate, mpc, pc, waits>>,
             \A d \in Cpus : phase'[d] = phase[d],
             \A d \in Cpus : d # c => queue'[d] = queue[d],
             queue'[c] = queue[c] \/ phase[c] = "dead"
      PROVE  Goal
  <2>1. \A d \in Cpus : Seen(d)'
    BY <1>0, <1>5, SeenKept DEF Seen
  <2>2. Woken'
    <3>. SUFFICES ASSUME NEW p \in Callers, pc[p] = "wait", done'[p] PROVE state'[p] # "SLEEP"
      BY <1>5 DEF Woken
    <3>1. CASE p = q
      BY <1>5, <3>1, WakeUpState
    <3>2. CASE p # q
      <4>1. done[p] /\ p \in Tasks
        BY <1>0, <1>5, <3>2 DEF TypeOK
      <4>. QED BY <1>0, <1>5, <4>1, WakeUpState DEF Woken
    <3>. QED BY <3>1, <3>2
  <2>3. Threads'
    BY <1>0, <1>5 DEF Threads
  <2>. QED BY <2>1, <2>2, <2>3
<1>6. ASSUME NEW c \in Cpus, MtComplete(c) PROVE Goal
  <2>1. PICK q \in Tasks : q = hand[c].req.by
    BY <1>6 DEF MtComplete, Requests, TypeOK
  <2>. QED BY <1>5, <1>6, <2>1 DEF MtComplete, Complete
<1>7. ASSUME NEW c \in Cpus, WakeRequestors(c) PROVE Goal
  <2>1. CASE queue[c] # <<>>
    <3>1. PICK q \in Tasks : q = Head(queue[c]).by
      BY <2>1, Taken DEF Requests, TypeOK
    <3>2. /\ WakeUp(q) /\ done' = [done EXCEPT ![q] = TRUE]
          /\ UNCHANGED <<mqueued, mstate, mpc, pc, waits, phase>> /\ phase[c] = "dead"
          /\ \A d \in Cpus : d # c => queue'[d] = queue[d]
      BY <1>7, <2>1, <3>1 DEF WakeRequestors, Complete, TypeOK
    <3>. QED BY <1>5, <3>2
  <2>2. CASE queue[c] = <<>>
    <3>1. /\ UNCHANGED <<queue, done, state, pc, waits, mqueued, mstate, mpc>>
          /\ phase'[c] = "down" /\ \A d \in Cpus : d # c => phase'[d] = phase[d]
      BY <1>7, <2>2 DEF WakeRequestors, TypeOK
    <3>2. \A d \in Cpus : Seen(d)'
      BY <1>0, <2>2, <3>1, SeenKept DEF Seen
    <3>. QED BY <1>0, <3>1, <3>2 DEF Threads, Woken
  <2>. QED BY <2>1, <2>2
<1>8. ASSUME NEW c \in Cpus,
             \/ MtMove(c) \/ MoveOffDeadCpu(c) \/ (\E p \in Tasks : ChooseDest(c, p) \/ Pull(c, p))
      PROVE  Goal
  <2>1. UNCHANGED <<queue, mqueued, mstate, mpc, phase, pc, waits, done, state>>
    BY <1>8 DEF MtMove, MoveOffDeadCpu, ChooseDest, Pull
  <2>. QED BY <1>1, <2>1
<1>9. ASSUME NEW c \in Cpus, NEW x \in Phases, phase' = [phase EXCEPT ![c] = x],
             UNCHANGED <<queue, pc, waits, done, state>>,
             \A d \in Cpus : d # c => mqueued'[d] = mqueued[d] /\ mstate'[d] = mstate[d] /\ mpc'[d] = mpc[d],
             mstate'[c] = "absent" => x \in {"dead", "down"},
             Seen(c)'
      PROVE  Goal
  <2>1. phase'[c] = x /\ \A d \in Cpus : d # c => phase'[d] = phase[d]
    BY <1>9 DEF TypeOK
  <2>2. \A d \in Cpus : Seen(d)'
    BY <1>0, <1>9, <2>1, SeenKept
  <2>. QED BY <1>0, <1>9, <2>1, <2>2 DEF Threads, Woken
<1>10. ASSUME NEW c \in Cpus, Deactivate(c) PROVE Goal
  <2>1. phase[c] = "up" /\ phase' = [phase EXCEPT ![c] = "inactive"]
    BY <1>10 DEF Deactivate, Active
  <2>2. Seen(c)'
    BY <1>0, <1>10, <2>1 DEF Deactivate, Seen, WillLook, TypeOK
  <2>. QED BY <1>0, <1>9, <1>10, <2>1, <2>2 DEF Deactivate, Threads, Phases
<1>11. ASSUME NEW c \in Cpus, Dying(c) PROVE Goal
  <2>1. phase[c] = "inactive" /\ phase' = [phase EXCEPT ![c] = "dying"] /\ phase'[c] = "dying"
    BY <1>11 DEF Dying, TypeOK
  <2>. QED BY <1>0, <1>9, <1>11, <2>1 DEF Dying, Threads, Phases, Seen
<1>12. ASSUME NEW c \in Cpus, StopMt(c) PROVE Goal
  <2>1. phase' = [phase EXCEPT ![c] = "dead"] /\ phase'[c] = "dead"
    BY <1>12 DEF StopMt, TypeOK
  <2>. QED BY <1>9, <1>12, <2>1 DEF StopMt, Phases, Seen, TypeOK
<1>13. ASSUME NEW c \in Cpus, UpPrepare(c) \/ UpOnline(c) \/ UpCanceled(c) PROVE Goal
  <2>1. phase[c] \in {"down", "prepared"} /\ queue' = queue
    BY <1>13 DEF UpPrepare, UpOnline, UpCanceled
  <2>2. Seen(c)'
    BY <2>1 DEF Seen, Leaves, NobodyLeftBehind
  <2>3. CASE UpPrepare(c)
    BY <1>9, <2>2, <2>3 DEF UpPrepare, Phases, TypeOK
  <2>4. CASE UpOnline(c)
    BY <1>9, <2>2, <2>4 DEF UpOnline, Phases, TypeOK
  <2>5. CASE UpCanceled(c)
    BY <1>9, <2>2, <2>5 DEF UpCanceled, Phases, TypeOK
  <2>. QED BY <1>13, <2>3, <2>4, <2>5
<1>14. ASSUME NEW p \in Tasks, WakePlace(p) \/ SetForced(p) PROVE Goal
  BY <1>1, <1>14 DEF WakePlace, SetForced
<1>15. ASSUME NEW p \in Tasks, WakeActivate(p) \/ Sleep(p) \/ Wake(p) PROVE Goal
  <2>1. UNCHANGED <<queue, mqueued, mstate, mpc, phase, pc, waits, done>>
    BY <1>15 DEF WakeActivate, Sleep, Wake
  <2>2. \A q \in Tasks : state'[q] = "SLEEP" => state[q] = "SLEEP" \/ pc[q] = "run"
    BY <1>15, WakeUpState DEF WakeActivate, Sleep, Wake, TypeOK
  <2>. QED BY <1>0, <2>1, <2>2, SeenKept DEF Threads, Woken
<1>16. ASSUME NEW p \in Callers, WakeMt(p) PROVE Goal
  <2>1. /\ UNCHANGED <<queue, mpc, phase, waits, done, state>>
        /\ mstate' = [mstate EXCEPT ![waits[p]] = "RUNNING"] /\ mqueued' = [mqueued EXCEPT ![waits[p]] = TRUE]
        /\ pc' = [pc EXCEPT ![p] = "wait"] /\ pc[p] = "wake"
    BY <1>16 DEF WakeMt
  <2>2. ASSUME NEW d \in Cpus PROVE Seen(d)'
    <3>1. CASE d = waits[p]
      BY <2>1, <3>1 DEF Seen, WillLook, TypeOK
    <3>2. CASE d # waits[p]
      <4>1. mstate'[d] = mstate[d] /\ mqueued'[d] = mqueued[d]
        BY <2>1, <3>2 DEF TypeOK
      <4>2. \A q \in Callers : pc[q] = "wake" /\ waits[q] = d => pc'[q] = "wake" /\ waits'[q] = d
        BY <1>0, <2>1, <3>2 DEF TypeOK
      <4>. QED BY <1>0, <2>1, <4>1, <4>2 DEF Seen, WillLook
    <3>. QED BY <3>1, <3>2
  <2>3. Threads'
    BY <1>0, <2>1 DEF Threads, TypeOK
  <2>4. Woken'
    BY <1>0, <2>1 DEF Woken, TypeOK
  <2>. QED BY <2>2, <2>3, <2>4
<1>17. ASSUME NEW p \in Callers, WaitForCompletion(p) PROVE Goal
  <2>1. /\ UNCHANGED <<queue, mqueued, mstate, mpc, phase, done>> /\ pc[p] = "wait"
        /\ \A q \in Tasks : q # p => pc'[q] = pc[q] /\ waits'[q] = waits[q] /\ state'[q] = state[q]
        /\ pc'[p] = "run" \/ ~done[p]
    BY <1>0, <1>17 DEF WaitForCompletion, TypeOK
  <2>2. \A d \in Cpus : Seen(d)'
    BY <1>0, <2>1, SeenKept
  <2>. QED BY <1>0, <2>1, <2>2 DEF Threads, Woken
<1>18. ASSUME NEW p \in Callers, NEW q \in Tasks, NEW d \in Cpus, AskFor(p, q, d),
              UNCHANGED <<mqueued, mstate, mpc, phase, state>>, CanCall(p)
       PROVE  Goal
  <2>0. PICK w \in Cpus : w = cpu[q]
    BY DEF TypeOK
  <2>1. /\ pc' = [pc EXCEPT ![p] = "wake"] /\ waits' = [waits EXCEPT ![p] = w]
        /\ done' = [done EXCEPT ![p] = FALSE] /\ pc[p] = "run"
        /\ \A c \in Cpus : c # w => queue'[c] = queue[c]
    BY <1>18, <2>0 DEF AskFor, CanCall, TypeOK
  <2>2. pc'[p] = "wake" /\ waits'[p] = w
    BY <1>0, <2>1 DEF TypeOK
  <2>3. \A r \in Callers : pc[r] = "wake" => pc'[r] = pc[r] /\ waits'[r] = waits[r]
    BY <1>0, <2>1 DEF TypeOK
  <2>4. \A c \in Cpus : Seen(c)'
    BY <1>0, <1>18, <2>1, <2>2, <2>3, SeenKept DEF Seen
  <2>5. Woken'
    BY <1>0, <1>18, <2>1 DEF Woken, TypeOK
  <2>. QED BY <1>0, <1>18, <2>4, <2>5 DEF Threads
<1>19. ASSUME NEW p \in Callers, NEW d \in Cpus, SchedExec(p, d) PROVE Goal
  BY <1>0, <1>18, <1>19 DEF SchedExec
<1>20. ASSUME NEW p \in Callers, NEW q \in Tasks, NEW mask \in SUBSET Cpus, SetCpusAllowed(p, q, mask)
       PROVE  Goal
  <2>1. CASE UNCHANGED <<call, queue>>
    BY <1>1, <1>20, <2>1 DEF SetCpusAllowed
  <2>2. ASSUME NEW d \in mask, AskFor(p, q, d) PROVE Goal
    BY <1>18, <1>20, <2>2 DEF SetCpusAllowed
  <2>. QED BY <1>20, <2>1, <2>2 DEF SetCpusAllowed, MigrateTask
<1>21. CASE Reset \/ UNCHANGED vars
  BY <1>1, <1>21 DEF Reset, vars
<1>. HIDE DEF tasks, call, mt, plug, Goal
<1>22. CASE \E c \in Cpus : \/ Schedule(c) \/ MtStep(c) \/ Deactivate(c) \/ Down(c)
                            \/ UpPrepare(c) \/ UpOnline(c) \/ UpCanceled(c)
                            \/ \E p \in Tasks : Pull(c, p)
  BY <1>22, <1>2, <1>3, <1>4, <1>6, <1>7, <1>8, <1>10, <1>11, <1>12, <1>13 DEF MtStep, Down
<1>23. CASE \E p \in Tasks : WakePlace(p) \/ WakeActivate(p) \/ Sleep(p) \/ Wake(p) \/ SetForced(p)
  BY <1>23, <1>14, <1>15
<1>24. CASE \E p \in Callers :
              \/ WakeMt(p) \/ WaitForCompletion(p)
              \/ \E q \in Tasks, mask \in SUBSET Cpus : SetCpusAllowed(p, q, mask)
              \/ \E c \in Cpus : SchedExec(p, c)
  BY <1>24, <1>16, <1>17, <1>19, <1>20
<1>. QED BY <1>21, <1>22, <1>23, <1>24 DEF Next

-----------------------------------------------------------------------------
(* The request of p is at place i of the queue of c, or in hand: place 0.  *)
Link(c, i, p) ==
  IF i = 0 THEN hand[c] # None /\ hand[c].req.by = p
  ELSE i \in 1 .. Len(queue[c]) /\ queue[c][i].by = p
Awaiting(p) == pc[p] # "run" /\ ~done[p]

(* It is in one place while p waits, and in none otherwise.                *)
InPlace(p) ==
  /\ \A c, d \in Cpus, i, j \in Nat : Link(c, i, p) /\ Link(d, j, p) => c = d /\ i = j
  /\ Awaiting(p) <=> \E c \in Cpus, i \in Nat : Link(c, i, p)
LinkedOnce == \A p \in Tasks : InPlace(p)

LEMMA InPlaceKept ==
  ASSUME NEW p \in Tasks, InPlace(p), Awaiting(p)' <=> Awaiting(p),
         \A c \in Cpus, i \in Nat : Link(c, i, p)' <=> Link(c, i, p)
  PROVE  InPlace(p)'
BY DEF InPlace

LEMMA InNoPlace ==
  ASSUME NEW p \in Tasks, ~Awaiting(p)', \A c \in Cpus, i \in Nat : ~Link(c, i, p)'
  PROVE  InPlace(p)'
BY DEF InPlace

LEMMA LinkSame ==
  ASSUME NEW c \in Cpus, queue'[c] = queue[c],
         hand'[c] # None <=> hand[c] # None,
         hand[c] # None => hand'[c].req = hand[c].req
  PROVE  \A i \in Nat, p \in Tasks : Link(c, i, p)' <=> Link(c, i, p)
BY DEF Link

(* Requests: one is asked for, taken, answered.                            *)
LEMMA AskForLinks ==
  ASSUME TypeOK, LinkedOnce, NEW caller \in Tasks, NEW q \in Tasks, NEW to \in Cpus,
         AskFor(caller, q, to), UNCHANGED hand, pc[caller] = "run"
  PROVE  LinkedOnce'
<1>0. PICK w \in Cpus : w = cpu[q]
  BY DEF TypeOK
<1>1. PICK r \in Requests : r = [task |-> q, to |-> to, by |-> caller]
  BY DEF Requests
<1>2. /\ queue'[w] = <<r>> \o queue[w] /\ queue[w] \in Seq(Requests)
      /\ \A d \in Cpus : d # w => queue'[d] = queue[d]
  BY <1>0, <1>1 DEF AskFor, TypeOK
<1>3. /\ Len(queue'[w]) = Len(queue[w]) + 1 /\ Len(queue[w]) \in Nat
      /\ queue'[w][1] = r /\ \A i \in 1 .. Len(queue[w]) : queue'[w][i + 1] = queue[w][i]
  BY <1>2, Prepended
<1>4. ASSUME NEW p \in Tasks
      PROVE  /\ \A d \in Cpus, i \in Nat : d # w => (Link(d, i, p)' <=> Link(d, i, p))
             /\ Link(w, 0, p)' <=> Link(w, 0, p)
             /\ Link(w, 1, p)' <=> p = caller
             /\ \A i \in Nat \ {0} : Link(w, i + 1, p)' <=> Link(w, i, p)
  <2>1. \A i \in Nat \ {0} : Link(w, i + 1, p)' <=> Link(w, i, p)
    <3>. SUFFICES ASSUME NEW i \in Nat \ {0} PROVE Link(w, i + 1, p)' <=> Link(w, i, p)
      OBVIOUS
    <3>1. i + 1 \in 1 .. Len(queue'[w]) <=> i \in 1 .. Len(queue[w])
      BY <1>3
    <3>. QED BY <1>3, <3>1 DEF Link
  <2>2. Link(w, 1, p)' <=> p = caller
    BY <1>1, <1>3 DEF Link
  <2>. QED BY <1>2, <2>1, <2>2, LinkSame DEF Link
<1>5. Awaiting(caller)' /\ ~Awaiting(caller)
  BY DEF AskFor, Awaiting, TypeOK
<1>6. InPlace(caller)'
  <2>1. \A d \in Cpus, i \in Nat : ~Link(d, i, caller)
    BY <1>5 DEF LinkedOnce, InPlace
  <2>2. ASSUME NEW d \in Cpus, NEW i \in Nat, Link(d, i, caller)' PROVE d = w /\ i = 1
    <3>1. d = w
      BY <1>4, <2>1, <2>2
    <3>2. i \in {0, 1} \/ (i - 1 \in Nat \ {0} /\ i = (i - 1) + 1)
      OBVIOUS
    <3>3. CASE i \in {0, 1}
      BY <1>4, <2>1, <2>2, <3>1, <3>3
    <3>4. CASE i - 1 \in Nat \ {0} /\ i = (i - 1) + 1
      BY <1>4, <2>1, <2>2, <3>1, <3>4
    <3>. QED BY <3>1, <3>2, <3>3, <3>4
  <2>3. Link(w, 1, caller)'
    BY <1>4
  <2>. QED BY <1>5, <2>2, <2>3 DEF InPlace
<1>7. ASSUME NEW p \in Tasks, p # caller PROVE InPlace(p)'
  <2>1. InPlace(p) /\ (Awaiting(p)' <=> Awaiting(p))
    BY <1>7 DEF LinkedOnce, AskFor, Awaiting, TypeOK
  <2>2. ASSUME NEW d \in Cpus, NEW i \in Nat, Link(d, i, p)'
        PROVE  \E j \in Nat : Link(d, j, p) /\ i = IF d = w /\ j # 0 THEN j + 1 ELSE j
    <3>1. CASE d # w \/ i = 0
      BY <1>4, <2>2, <3>1
    <3>2. CASE d = w /\ i # 0
      <4>1. i # 1
        BY <1>4, <1>7, <2>2, <3>2
      <4>2. i - 1 \in Nat \ {0} /\ i = (i - 1) + 1
        BY <3>2, <4>1
      <4>3. Link(w, i - 1, p)
        BY <1>4, <2>2, <3>2, <4>2
      <4>. QED BY <3>2, <4>2, <4>3
    <3>. QED BY <3>1, <3>2
  <2>3. ASSUME NEW d \in Cpus, NEW j \in Nat, Link(d, j, p)
        PROVE  \E i \in Nat : Link(d, i, p)'
    <3>1. CASE d # w \/ j = 0
      BY <1>4, <2>3, <3>1
    <3>2. CASE d = w /\ j # 0
      <4>1. Link(w, j + 1, p)' /\ j + 1 \in Nat
        BY <1>4, <2>3, <3>2
      <4>. QED BY <3>2, <4>1
    <3>. QED BY <3>1, <3>2
  <2>4. ASSUME NEW d \in Cpus, NEW e \in Cpus, NEW i \in Nat, NEW k \in Nat, Link(d, i, p)', Link(e, k, p)'
        PROVE  d = e /\ i = k
    <3>1. PICK j \in Nat : Link(d, j, p) /\ i = IF d = w /\ j # 0 THEN j + 1 ELSE j
      BY <2>2, <2>4
    <3>2. PICK l \in Nat : Link(e, l, p) /\ k = IF e = w /\ l # 0 THEN l + 1 ELSE l
      BY <2>2, <2>4
    <3>3. d = e /\ j = l
      BY <2>1, <3>1, <3>2 DEF InPlace
    <3>. QED BY <3>1, <3>2, <3>3
  <2>5. Awaiting(p)' <=> \E d \in Cpus, i \in Nat : Link(d, i, p)'
    BY <2>1, <2>2, <2>3 DEF InPlace
  <2>. QED BY <2>4, <2>5 DEF InPlace
<1>. QED BY <1>6, <1>7 DEF LinkedOnce

(* The first request of c is unlinked; it goes to hand if InHand.          *)
LEMMA UnlinkLinks ==
  ASSUME TypeOK, LinkedOnce, NEW c \in Cpus, queue[c] # <<>>, queue' = [queue EXCEPT ![c] = Tail(@)],
         NEW q \in Tasks, q = Head(queue[c]).by,
         \A d \in Cpus : d # c => hand'[d] = hand[d],
         \/ /\ hand[c] = None /\ hand'[c] # None /\ hand'[c].req.by = q
            /\ \A p \in Tasks : Awaiting(p)' <=> Awaiting(p)
         \/ /\ hand'[c] = hand[c] /\ ~Awaiting(q)'
            /\ \A p \in Tasks : p # q => (Awaiting(p)' <=> Awaiting(p))
  PROVE  LinkedOnce'
<1>0. queue \in [Cpus -> Seq(Requests)]
  BY DEF TypeOK
<1>1. /\ queue'[c] = Tail(queue[c]) /\ queue[c] \in Seq(Requests)
      /\ \A d \in Cpus : d # c => queue'[d] = queue[d]
  BY <1>0
<1>2. /\ Len(queue'[c]) = Len(queue[c]) - 1 /\ Len(queue[c]) \in Nat \ {0}
      /\ queue[c][1].by = q /\ \A i \in 1 .. Len(queue[c]) - 1 : queue'[c][i] = queue[c][i + 1]
  <2>1. /\ Len(Tail(queue[c])) = Len(queue[c]) - 1 /\ Len(queue[c]) \in Nat \ {0}
        /\ Head(queue[c]) = queue[c][1]
        /\ \A i \in 1 .. Len(queue[c]) - 1 : Tail(queue[c])[i] = queue[c][i + 1]
    BY <1>1, Taken
  <2>. QED BY <1>1, <2>1, Zenon
<1>3. ASSUME NEW p \in Tasks
      PROVE  /\ \A d \in Cpus, i \in Nat : d # c => (Link(d, i, p)' <=> Link(d, i, p))
             /\ Link(c, 1, p) <=> p = q
             /\ \A i \in Nat \ {0} : Link(c, i, p)' <=> Link(c, i + 1, p)
  <2>1. \A i \in Nat \ {0} : Link(c, i, p)' <=> Link(c, i + 1, p)
    <3>. SUFFICES ASSUME NEW i \in Nat \ {0} PROVE Link(c, i, p)' <=> Link(c, i + 1, p)
      OBVIOUS
    <3>1. i \in 1 .. Len(queue'[c]) <=> i + 1 \in 1 .. Len(queue[c])
      BY <1>2
    <3>2. i \in 1 .. Len(queue'[c]) => queue'[c][i] = queue[c][i + 1]
      BY <1>2
    <3>3. Link(c, i, p)' <=> i \in 1 .. Len(queue'[c]) /\ queue'[c][i].by = p
      BY DEF Link
    <3>4. Link(c, i + 1, p) <=> i + 1 \in 1 .. Len(queue[c]) /\ queue[c][i + 1].by = p
      BY DEF Link
    <3>. QED BY <3>1, <3>2, <3>3, <3>4
  <2>2. Link(c, 1, p) <=> p = q
    BY <1>2 DEF Link
  <2>. QED BY <1>1, <2>1, <2>2, LinkSame
<1>4. \A p \in Tasks : InPlace(p)
  BY DEF LinkedOnce
<1>5. \A p \in Tasks : Link(c, 0, p) <=> hand[c] # None /\ hand[c].req.by = p
  BY DEF Link
<1>6. \A p \in Tasks : Link(c, 0, p)' <=> hand'[c] # None /\ hand'[c].req.by = p
  BY DEF Link
<1>7. \A d \in Cpus, i \in Nat : Link(d, i, q) => d = c /\ i = 1
  BY <1>3, <1>4 DEF InPlace
<1>8. \A d \in Cpus, i \in Nat : Link(d, i, q)' =>
        d = c /\ i = 0 /\ hand[c] = None /\ hand'[c] # None
  <2>. SUFFICES ASSUME NEW d \in Cpus, NEW i \in Nat, Link(d, i, q)'
                PROVE  d = c /\ i = 0 /\ hand[c] = None /\ hand'[c] # None
    OBVIOUS
  <2>1. d = c
    BY <1>3, <1>7
  <2>2. i = 0
    <3>1. i # 0 => i + 1 \in Nat /\ i + 1 # 1
      OBVIOUS
    <3>. QED BY <1>3, <1>7, <2>1, <3>1
  <2>3. hand'[c] # hand[c]
    BY <1>5, <1>6, <1>7, <2>1, <2>2
  <2>. QED BY <1>6, <2>1, <2>2, <2>3
<1>9. InPlace(q)'
  <2>1. CASE hand'[c] = hand[c] /\ ~Awaiting(q)'
    BY <1>8, <2>1, InNoPlace
  <2>2. CASE hand[c] = None /\ hand'[c] # None /\ hand'[c].req.by = q /\ (Awaiting(q)' <=> Awaiting(q))
    <3>1. Awaiting(q)' /\ Link(c, 0, q)'
      BY <1>3, <1>4, <1>6, <2>2 DEF InPlace
    <3>. QED BY <1>8, <3>1 DEF InPlace
  <2>. QED BY <2>1, <2>2
<1>10. ASSUME NEW p \in Tasks, p # q PROVE InPlace(p)'
  <2>0. InPlace(p) /\ (Awaiting(p)' <=> Awaiting(p)) /\ (Link(c, 0, p)' <=> Link(c, 0, p)) /\ ~Link(c, 1, p)
    BY <1>3, <1>4, <1>5, <1>6, <1>10
  <2>2. ASSUME NEW d \in Cpus, NEW i \in Nat, Link(d, i, p)'
        PROVE  \E j \in Nat : Link(d, j, p) /\ j = IF d = c /\ i # 0 THEN i + 1 ELSE i
    BY <1>3, <2>0, <2>2
  <2>3. ASSUME NEW d \in Cpus, NEW j \in Nat, Link(d, j, p)
        PROVE  \E i \in Nat : Link(d, i, p)'
    <3>1. CASE d # c \/ j = 0
      BY <1>3, <2>0, <2>3, <3>1
    <3>2. CASE d = c /\ j # 0
      <4>1. j - 1 \in Nat \ {0} /\ j = (j - 1) + 1
        BY <2>0, <2>3, <3>2
      <4>. QED BY <1>3, <2>3, <3>2, <4>1
    <3>. QED BY <3>1, <3>2
  <2>4. ASSUME NEW d \in Cpus, NEW e \in Cpus, NEW i \in Nat, NEW k \in Nat, Link(d, i, p)', Link(e, k, p)'
        PROVE  d = e /\ i = k
    <3>1. PICK j \in Nat : Link(d, j, p) /\ j = IF d = c /\ i # 0 THEN i + 1 ELSE i
      BY <2>2, <2>4
    <3>2. PICK l \in Nat : Link(e, l, p) /\ l = IF e = c /\ k # 0 THEN k + 1 ELSE k
      BY <2>2, <2>4
    <3>3. d = e /\ j = l
      BY <2>0, <3>1, <3>2 DEF InPlace
    <3>. QED BY <3>1, <3>2, <3>3
  <2>5. Awaiting(p)' <=> \E d \in Cpus, i \in Nat : Link(d, i, p)'
    BY <2>0, <2>2, <2>3 DEF InPlace
  <2>. QED BY <2>4, <2>5 DEF InPlace
<1>. QED BY <1>9, <1>10 DEF LinkedOnce

LEMMA LinkedStep == TypeOK /\ LinkedOnce /\ [Next]_vars => LinkedOnce'
<1>. SUFFICES ASSUME TypeOK, LinkedOnce, [Next]_vars PROVE LinkedOnce'
  OBVIOUS
<1>. USE DEF tasks, call, mt, plug
<1>0. \A p \in Tasks : InPlace(p)
  BY DEF LinkedOnce
<1>1. ASSUME UNCHANGED <<queue, hand>>, \A p \in Tasks : Awaiting(p)' <=> Awaiting(p)
      PROVE  LinkedOnce'
  BY <1>0, <1>1, LinkSame, InPlaceKept DEF LinkedOnce
<1>2. ASSUME UNCHANGED <<queue, hand, pc, done>> PROVE LinkedOnce'
  BY <1>1, <1>2 DEF Awaiting
<1>3. ASSUME NEW c \in Cpus,
             \/ Schedule(c) \/ MtTop(c) \/ Deactivate(c) \/ Dying(c) \/ MoveOffDeadCpu(c) \/ StopMt(c)
             \/ UpPrepare(c) \/ UpOnline(c) \/ UpCanceled(c)
             \/ (\E p \in Tasks : ChooseDest(c, p) \/ Pull(c, p))
      PROVE  LinkedOnce'
  <2>1. UNCHANGED <<queue, hand, pc, done>>
    BY <1>3 DEF Schedule, MtTop, Deactivate, Dying, MoveOffDeadCpu, StopMt, UpPrepare, UpOnline, UpCanceled,
                ChooseDest, Pull
  <2>. QED BY <1>2, <2>1
<1>4. ASSUME NEW c \in Cpus, MtTake(c) PROVE LinkedOnce'
  <2>1. CASE queue[c] = <<>>
    BY <1>2, <1>4, <2>1 DEF MtTake
  <2>2. CASE queue[c] # <<>>
    <3>1. PICK q \in Tasks : q = Head(queue[c]).by
      BY <2>2, Taken DEF Requests, TypeOK
    <3>2. PICK h \in [req : Requests, moved : BOOLEAN] : h = [req |-> Head(queue[c]), moved |-> FALSE]
      BY <2>2, Taken DEF TypeOK
    <3>3. h # None /\ h.req.by = q
      BY <3>1, <3>2, NoneAssumption
    <3>4. /\ hand[c] = None /\ hand' = [hand EXCEPT ![c] = h] /\ UNCHANGED <<pc, done>>
          /\ queue' = [queue EXCEPT ![c] = Tail(@)]
      BY <1>4, <2>2, <3>2 DEF MtTake
    <3>5. hand'[c] = h /\ \A d \in Cpus : d # c => hand'[d] = hand[d]
      BY <3>4 DEF TypeOK
    <3>6. \A p \in Tasks : Awaiting(p)' <=> Awaiting(p)
      BY <3>4 DEF Awaiting
    <3>. QED BY <2>2, <3>1, <3>3, <3>4, <3>5, <3>6, UnlinkLinks
  <2>. QED BY <2>1, <2>2
<1>5. ASSUME NEW c \in Cpus, MtMove(c) PROVE LinkedOnce'
  <2>1. PICK h \in [req : Requests, moved : BOOLEAN] : h = hand[c]
    BY <1>5 DEF MtMove, TypeOK
  <2>2. PICK k \in [req : Requests, moved : BOOLEAN] : k = [h EXCEPT !.moved = TRUE] /\ k.req = h.req
    <3>. DEFINE k == [h EXCEPT !.moved = TRUE]
    <3>1. k \in [req : Requests, moved : BOOLEAN] /\ k.req = h.req
      BY <2>1
    <3>. QED BY <3>1
  <2>3. k # None /\ h # None
    BY NoneAssumption
  <2>4. hand' = [hand EXCEPT ![c] = k] /\ UNCHANGED <<queue, pc, done>>
    BY <1>5, <2>1, <2>2 DEF MtMove
  <2>5. hand'[c] = k /\ \A d \in Cpus : d # c => hand'[d] = hand[d]
    BY <2>4 DEF TypeOK
  <2>6. \A d \in Cpus, i \in Nat, p \in Tasks : Link(d, i, p)' <=> Link(d, i, p)
    BY <2>1, <2>2, <2>3, <2>4, <2>5, LinkSame
  <2>. QED BY <1>0, <2>4, <2>6, InPlaceKept DEF LinkedOnce, Awaiting
<1>6. ASSUME NEW c \in Cpus, MtComplete(c) PROVE LinkedOnce'
  <2>1. PICK q \in Tasks : q = hand[c].req.by
    BY <1>6 DEF MtComplete, Requests, TypeOK
  <2>2. /\ hand[c] # None /\ hand'[c] = None /\ \A d \in Cpus : d # c => hand'[d] = hand[d]
        /\ UNCHANGED <<queue, pc>> /\ done' = [done EXCEPT ![q] = TRUE]
    BY <1>6, <2>1 DEF MtComplete, Complete, TypeOK
  <2>3. \A d \in Cpus, i \in Nat, p \in Tasks : d # c \/ i # 0 => (Link(d, i, p)' <=> Link(d, i, p))
    BY <2>2 DEF Link
  <2>4. \A p \in Tasks : ~Link(c, 0, p)' /\ (Link(c, 0, p) <=> p = q)
    BY <2>1, <2>2 DEF Link
  <2>5. ~Awaiting(q)' /\ \A p \in Tasks : p # q => (Awaiting(p)' <=> Awaiting(p))
    BY <2>2 DEF Awaiting, TypeOK
  <2>6. \A d \in Cpus, i \in Nat : ~Link(d, i, q)'
    BY <1>0, <2>3, <2>4 DEF InPlace
  <2>7. InPlace(q)'
    BY <2>5, <2>6, InNoPlace
  <2>8. ASSUME NEW p \in Tasks, p # q PROVE InPlace(p)'
    <3>1. \A d \in Cpus, i \in Nat : Link(d, i, p)' <=> Link(d, i, p)
      BY <2>3, <2>4, <2>8
    <3>. QED BY <1>0, <2>5, <2>8, <3>1, InPlaceKept
  <2>. QED BY <2>7, <2>8 DEF LinkedOnce
<1>7. ASSUME NEW c \in Cpus, WakeRequestors(c) PROVE LinkedOnce'
  <2>1. CASE queue[c] = <<>>
    BY <1>2, <1>7, <2>1 DEF WakeRequestors
  <2>2. CASE queue[c] # <<>>
    <3>1. PICK q \in Tasks : q = Head(queue[c]).by
      BY <2>2, Taken DEF Requests, TypeOK
    <3>2. /\ UNCHANGED <<hand, pc>> /\ done' = [done EXCEPT ![q] = TRUE]
          /\ queue' = [queue EXCEPT ![c] = Tail(@)]
      BY <1>7, <2>2, <3>1 DEF WakeRequestors, Complete
    <3>3. ~Awaiting(q)' /\ \A p \in Tasks : p # q => (Awaiting(p)' <=> Awaiting(p))
      BY <3>2 DEF Awaiting, TypeOK
    <3>. QED BY <2>2, <3>1, <3>2, <3>3, UnlinkLinks
  <2>. QED BY <2>1, <2>2
<1>8. ASSUME NEW p \in Tasks, WakePlace(p) \/ WakeActivate(p) \/ Sleep(p) \/ Wake(p) \/ SetForced(p)
      PROVE  LinkedOnce'
  BY <1>2, <1>8 DEF WakePlace, WakeActivate, Sleep, Wake, SetForced
<1>9. ASSUME NEW p \in Callers, WakeMt(p) \/ WaitForCompletion(p) PROVE LinkedOnce'
  <2>1. UNCHANGED <<queue, hand>> /\ \A q \in Tasks : Awaiting(q)' <=> Awaiting(q)
    BY <1>9, TasksAssumption DEF WakeMt, WaitForCompletion, Awaiting, TypeOK
  <2>. QED BY <1>1, <2>1
<1>10. ASSUME NEW p \in Callers, NEW d \in Cpus, SchedExec(p, d) PROVE LinkedOnce'
  BY <1>10, AskForLinks, TasksAssumption DEF SchedExec, CanCall
<1>11. ASSUME NEW p \in Callers, NEW q \in Tasks, NEW mask \in SUBSET Cpus, SetCpusAllowed(p, q, mask)
       PROVE  LinkedOnce'
  <2>1. CASE UNCHANGED <<call, queue>>
    BY <1>2, <1>11, <2>1 DEF SetCpusAllowed
  <2>2. ASSUME NEW d \in mask, AskFor(p, q, d) PROVE LinkedOnce'
    BY <1>11, <2>2, AskForLinks, TasksAssumption DEF SetCpusAllowed, CanCall
  <2>. QED BY <1>11, <2>1, <2>2 DEF SetCpusAllowed, MigrateTask
<1>12. CASE Reset \/ UNCHANGED vars
  BY <1>2, <1>12 DEF Reset, vars
<1>. HIDE DEF tasks, call, mt, plug
<1>13. CASE \E c \in Cpus : \/ Schedule(c) \/ MtStep(c) \/ Deactivate(c) \/ Down(c)
                            \/ UpPrepare(c) \/ UpOnline(c) \/ UpCanceled(c)
                            \/ \E p \in Tasks : Pull(c, p)
  BY <1>13, <1>3, <1>4, <1>5, <1>6, <1>7 DEF MtStep, Down
<1>14. CASE \E p \in Tasks : WakePlace(p) \/ WakeActivate(p) \/ Sleep(p) \/ Wake(p) \/ SetForced(p)
  BY <1>14, <1>8
<1>15. CASE \E p \in Callers :
              \/ WakeMt(p) \/ WaitForCompletion(p)
              \/ \E q \in Tasks, mask \in SUBSET Cpus : SetCpusAllowed(p, q, mask)
              \/ \E c \in Cpus : SchedExec(p, c)
  BY <1>15, <1>9, <1>10, <1>11
<1>. QED BY <1>12, <1>13, <1>14, <1>15 DEF Next

(* No queue is longer than there are tasks, as each waits for one request. *)
LEMMA QueuesBounded ==
  ASSUME TypeOK, LinkedOnce, NEW c \in Cpus
  PROVE  Len(queue[c]) <= Cardinality(Tasks) /\ Len(queue[c]) \in Nat /\ Cardinality(Tasks) \in Nat
<1>. DEFINE f == [i \in 1 .. Len(queue[c]) |-> queue[c][i].by]
<1>1. Len(queue[c]) \in Nat /\ \A i \in 1 .. Len(queue[c]) : queue[c][i].by \in Tasks
  <2>1. queue[c] \in Seq(Requests)
    BY DEF TypeOK
  <2>2. Len(queue[c]) \in Nat /\ \A i \in 1 .. Len(queue[c]) : queue[c][i] \in Requests
    BY <2>1
  <2>. QED BY <2>2 DEF Requests
<1>2. \A i, j \in 1 .. Len(queue[c]) : queue[c][i].by = queue[c][j].by => i = j
  <2>. SUFFICES ASSUME NEW i \in 1 .. Len(queue[c]), NEW j \in 1 .. Len(queue[c]),
                       queue[c][i].by = queue[c][j].by
                PROVE  i = j
    OBVIOUS
  <2>1. PICK p \in Tasks : p = queue[c][i].by
    BY <1>1
  <2>2. Link(c, i, p) /\ Link(c, j, p) /\ i \in Nat /\ j \in Nat
    BY <1>1, <2>1 DEF Link
  <2>. QED BY <2>2 DEF LinkedOnce, InPlace
<1>3. f \in Injection(1 .. Len(queue[c]), Tasks)
  BY <1>1, <1>2 DEF Injection, IsInjective
<1>4. Cardinality(1 .. Len(queue[c])) <= Cardinality(Tasks)
  BY <1>3, FS_Injection, TasksAssumption
<1>5. Cardinality(1 .. Len(queue[c])) = Len(queue[c])
  BY <1>1, FS_Interval
<1>. QED BY <1>1, <1>4, <1>5, FS_CardinalityType, TasksAssumption

LEMMA LinkedIsAwaited == ASSUME TypeOK, LinkedOnce PROVE RequestsAreAwaited
<1>. SUFFICES ASSUME NEW p \in Tasks PROVE Linked(p) = IF Awaiting(p) THEN 1 ELSE 0
  BY DEF RequestsAreAwaited, Awaiting
<1>. DEFINE A == {ci \in Cpus \X (1 .. Cardinality(Tasks)) :
                    ci[2] <= Len(queue[ci[1]]) /\ queue[ci[1]][ci[2]].by = p}
            B == {c \in Cpus : hand[c] # None /\ hand[c].req.by = p}
<1>1. Linked(p) = Cardinality(A) + Cardinality(B)
  BY DEF Linked
<1>2. \A c \in Cpus : c \in B <=> Link(c, 0, p)
  BY DEF Link
<1>3. \A c \in Cpus, i \in Nat \ {0} : <<c, i>> \in A <=> Link(c, i, p)
  <2>. SUFFICES ASSUME NEW c \in Cpus, NEW i \in Nat \ {0} PROVE <<c, i>> \in A <=> Link(c, i, p)
    OBVIOUS
  <2>1. Len(queue[c]) <= Cardinality(Tasks) /\ Len(queue[c]) \in Nat /\ Cardinality(Tasks) \in Nat
    BY QueuesBounded
  <2>2. Link(c, i, p) <=> i \in 1 .. Len(queue[c]) /\ queue[c][i].by = p
    BY DEF Link
  <2>3. i \in 1 .. Len(queue[c]) <=> i \in 1 .. Cardinality(Tasks) /\ i <= Len(queue[c])
    BY <2>1
  <2>. QED BY <2>2, <2>3
<1>4. Cardinality(Tasks) \in Nat
  BY FS_CardinalityType, TasksAssumption
<1>5. \A x \in A : \E c \in Cpus, i \in Nat \ {0} : x = <<c, i>> /\ Link(c, i, p)
  <2>. SUFFICES ASSUME NEW x \in A PROVE \E c \in Cpus, i \in Nat \ {0} : x = <<c, i>> /\ Link(c, i, p)
    OBVIOUS
  <2>1. PICK c \in Cpus, i \in 1 .. Cardinality(Tasks) : x = <<c, i>>
    OBVIOUS
  <2>2. i \in Nat \ {0}
    BY <1>4
  <2>. QED BY <1>3, <2>1, <2>2
<1>6. InPlace(p)
  BY DEF LinkedOnce
<1>. HIDE DEF A, B
<1>7. B \subseteq Cpus
  BY DEF B
<1>8. CASE ~Awaiting(p)
  <2>1. A = {} /\ B = {}
    BY <1>2, <1>5, <1>6, <1>7, <1>8 DEF InPlace
  <2>. QED BY <1>1, <1>8, <2>1, FS_EmptySet
<1>9. CASE Awaiting(p)
  <2>1. PICK c \in Cpus, i \in Nat : Link(c, i, p)
    BY <1>6, <1>9 DEF InPlace
  <2>2. \A d \in Cpus, j \in Nat : Link(d, j, p) => d = c /\ j = i
    BY <1>6, <2>1 DEF InPlace
  <2>3. CASE i = 0
    <3>1. A = {}
      BY <1>5, <2>2, <2>3
    <3>2. B = {c}
      BY <1>2, <1>7, <2>1, <2>2, <2>3
    <3>3. Cardinality(A) = 0 /\ Cardinality(B) = 1
      BY <3>1, <3>2, FS_EmptySet, FS_Singleton
    <3>4. Linked(p) = 1
      BY <1>1, <3>3
    <3>. QED BY <1>9, <3>4, Zenon
  <2>4. CASE i # 0
    <3>1. A = {<<c, i>>}
      BY <1>3, <1>5, <2>1, <2>2, <2>4
    <3>2. B = {}
      BY <1>2, <1>7, <2>2, <2>4
    <3>3. Cardinality(A) = 1 /\ Cardinality(B) = 0
      BY <3>1, <3>2, FS_EmptySet, FS_Singleton
    <3>4. Linked(p) = 1
      BY <1>1, <3>3
    <3>. QED BY <1>9, <3>4, Zenon
  <2>. QED BY <2>3, <2>4
<1>. QED BY <1>8, <1>9

-----------------------------------------------------------------------------
(* Of two processors the one that dies is not the one on which a caller is *)
(* about to wake its migration thread, as the other has to take it down.   *)
TwoProcessors == \A a, b, c \in Cpus : a = b \/ b = c \/ a = c
Reached ==
  \A p \in Tasks : pc[p] = "wake" =>
    waits[p] \in Cpus /\ phase[waits[p]] \in {"up", "inactive", "dying"}

LEMMA ReachedStep ==
  ASSUME TwoProcessors, TypeOK, Places, Leaves, AwakeCalls, Reached, [Next]_vars
  PROVE  Reached'
<1>. USE DEF tasks, call, mt, plug
<1>1. ASSUME UNCHANGED phase, \A p \in Tasks : pc'[p] = "wake" => pc[p] = "wake" /\ waits'[p] = waits[p]
      PROVE  Reached'
  BY <1>1 DEF Reached
<1>2. ASSUME NEW c \in Cpus, NEW x \in Phases, phase' = [phase EXCEPT ![c] = x], UNCHANGED <<pc, waits>>,
             x \in {"inactive", "dying"} \/ phase[c] \in {"dead", "down", "prepared"}
      PROVE  Reached'
  BY <1>2 DEF Reached, TypeOK
<1>3. ASSUME NEW c \in Cpus,
             \/ Schedule(c) \/ MtStep(c) \/ MoveOffDeadCpu(c)
             \/ (\E p \in Tasks : ChooseDest(c, p) \/ Pull(c, p))
      PROVE  Reached'
  <2>1. UNCHANGED <<phase, pc, waits>>
    BY <1>3 DEF Schedule, MtStep, MtTop, MtTake, MtMove, MtComplete, MoveOffDeadCpu, ChooseDest, Pull
  <2>. QED BY <1>1, <2>1
<1>4. ASSUME NEW c \in Cpus, Deactivate(c) \/ Dying(c) \/ UpPrepare(c) \/ UpOnline(c) \/ UpCanceled(c)
      PROVE  Reached'
  <2>1. PICK x \in Phases : phase' = [phase EXCEPT ![c] = x]
                            /\ (x \in {"inactive", "dying"} \/ phase[c] \in {"dead", "down", "prepared"})
    BY <1>4 DEF Deactivate, Dying, UpPrepare, UpOnline, UpCanceled, Phases
  <2>2. UNCHANGED <<pc, waits>>
    BY <1>4 DEF Deactivate, Dying, UpPrepare, UpOnline, UpCanceled
  <2>. QED BY <1>2, <2>1, <2>2
<1>5. ASSUME NEW c \in Cpus, WakeRequestors(c) PROVE Reached'
  <2>1. CASE UNCHANGED phase
    BY <1>1, <1>5, <2>1 DEF WakeRequestors
  <2>2. CASE phase' = [phase EXCEPT ![c] = "down"]
    BY <1>2, <1>5, <2>2 DEF WakeRequestors, Phases
  <2>. QED BY <1>5, <2>1, <2>2 DEF WakeRequestors
<1>6. ASSUME NEW c \in Cpus, StopMt(c) PROVE Reached'
  <2>1. phase[c] = "dying" /\ UNCHANGED <<pc, waits>> /\ phase' = [phase EXCEPT ![c] = "dead"]
    BY <1>6 DEF StopMt
  <2>2. PICK d \in Cpus : d \in Online /\ ~InKernel(d)
    BY <1>6 DEF StopMt, HasCpu, Online
  <2>3. ASSUME NEW p \in Tasks, pc[p] = "wake" PROVE FALSE
    <3>1. PICK h \in Cpus : curr[h] = p
      BY <2>3 DEF AwakeCalls, Running
    <3>2. h \in Online /\ InKernel(h)
      BY <2>3, <3>1 DEF InKernel, Places, RunsWhereItIs
    <3>3. c \notin Online
      BY <2>1 DEF Online
    <3>. QED BY <2>2, <3>2, <3>3 DEF TwoProcessors
  <2>. QED BY <2>1, <2>3 DEF Reached
<1>7. ASSUME NEW p \in Tasks, WakePlace(p) \/ WakeActivate(p) \/ Sleep(p) \/ Wake(p) \/ SetForced(p)
      PROVE  Reached'
  BY <1>1, <1>7 DEF WakePlace, WakeActivate, Sleep, Wake, SetForced
<1>8. ASSUME NEW p \in Callers, WakeMt(p) \/ WaitForCompletion(p) PROVE Reached'
  BY <1>1, <1>8, TasksAssumption DEF WakeMt, WaitForCompletion, TypeOK
<1>9. ASSUME NEW p \in Tasks, NEW q \in Tasks, NEW d \in Cpus, AskFor(p, q, d), UNCHANGED phase
      PROVE  Reached'
  <2>1. phase[cpu[q]] \in {"up", "inactive", "dying"} /\ cpu[q] \in Cpus
    <3>1. cpu[q] \in Cpus /\ phase[cpu[q]] \in Phases
      BY DEF TypeOK
    <3>2. phase[cpu[q]] \notin {"dead", "down", "prepared"}
      BY <3>1 DEF Leaves, NobodyLeftBehind
    <3>. QED BY <3>1, <3>2 DEF Phases
  <2>2. /\ waits'[p] = cpu[q] /\ \A r \in Tasks : r # p => pc'[r] = pc[r] /\ waits'[r] = waits[r]
    BY <1>9 DEF AskFor, TypeOK
  <2>. QED BY <1>9, <2>1, <2>2 DEF Reached
<1>10. ASSUME NEW p \in Callers, NEW d \in Cpus, SchedExec(p, d) PROVE Reached'
  BY <1>9, <1>10, TasksAssumption DEF SchedExec
<1>11. ASSUME NEW p \in Callers, NEW q \in Tasks, NEW mask \in SUBSET Cpus, SetCpusAllowed(p, q, mask)
       PROVE  Reached'
  <2>1. CASE UNCHANGED <<call, queue>>
    BY <1>1, <1>11, <2>1 DEF SetCpusAllowed
  <2>2. ASSUME NEW d \in mask, AskFor(p, q, d) PROVE Reached'
    BY <1>9, <1>11, <2>2, TasksAssumption DEF SetCpusAllowed
  <2>. QED BY <1>11, <2>1, <2>2 DEF SetCpusAllowed, MigrateTask
<1>12. CASE Reset \/ UNCHANGED vars
  BY <1>1, <1>12 DEF Reset, vars
<1>. HIDE DEF tasks, call, mt, plug
<1>13. CASE \E c \in Cpus : \/ Schedule(c) \/ MtStep(c) \/ Deactivate(c) \/ Down(c)
                            \/ UpPrepare(c) \/ UpOnline(c) \/ UpCanceled(c)
                            \/ \E p \in Tasks : Pull(c, p)
  BY <1>13, <1>3, <1>4, <1>5, <1>6 DEF Down
<1>14. CASE \E p \in Tasks : WakePlace(p) \/ WakeActivate(p) \/ Sleep(p) \/ Wake(p) \/ SetForced(p)
  BY <1>14, <1>7
<1>15. CASE \E p \in Callers :
              \/ WakeMt(p) \/ WaitForCompletion(p)
              \/ \E q \in Tasks, mask \in SUBSET Cpus : SetCpusAllowed(p, q, mask)
              \/ \E c \in Cpus : SchedExec(p, c)
  BY <1>15, <1>8, <1>10, <1>11
<1>. QED BY <1>12, <1>13, <1>14, <1>15 DEF Next

-----------------------------------------------------------------------------
RInv == IInv /\ Affine /\ Calls /\ LinkedOnce

LEMMA InitRInv == Init => RInv /\ Reached
<1>. SUFFICES ASSUME Init PROVE RInv /\ Reached
  OBVIOUS
<1>1. Affine
  BY DEF Init, Affine, Obeys
<1>2. Calls
  <2>1. AwakeCalls
    BY DEF Init, AwakeCalls
  <2>2. Threads
    BY DEF Init, Threads
  <2>3. /\ \A c \in Cpus : queue[c] = <<>>
        /\ \A p \in Callers : pc[p] = "run"
    BY TasksAssumption DEF Init
  <2>4. Answered
    BY <2>3 DEF Answered
  <2>. QED BY <2>1, <2>2, <2>4 DEF Calls
<1>3. \A c \in Cpus : Len(queue[c]) = 0 /\ hand[c] = None
  BY DEF Init
<1>4. LinkedOnce
  <2>1. \A c \in Cpus, i \in Nat, p \in Tasks : ~Link(c, i, p)
    BY <1>3 DEF Link
  <2>. QED BY <2>1 DEF Init, LinkedOnce, InPlace, Awaiting
<1>5. Reached
  BY DEF Init, Reached
<1>. QED BY InitIInv, <1>1, <1>2, <1>4, <1>5 DEF RInv

LEMMA RequestsInvariant == Spec => []RInv
<1>1. RInv /\ [Next]_vars => RInv'
  BY TypeStep, PlacesStep, LeavesStep, AffineStep, CallsStep, LinkedStep DEF RInv, IInv, Places
<1>. QED BY InitRInv, <1>1, PTL DEF Spec

(* A request is linked exactly while its caller waits for it; no migration *)
(* thread goes to sleep over one, and no caller over an answer.            *)
THEOREM ServedHolds == Spec => []Served
<1>1. RInv => Served
  BY LinkedIsAwaited DEF RInv, IInv, Calls, Served
<1>. QED BY <1>1, RequestsInvariant, PTL

(* On any number of processors a task is where its affinity allows, or is  *)
(* asked to leave, outside the two races; and it runs where it is.         *)
THEOREM ObeysAffinityHolds == Spec => []ObeysAffinity
<1>1. RInv => ObeysAffinity
  <2>. SUFFICES ASSUME RInv, NEW p \in Tasks, cpu[p] \notin allowed[p], ~raced[p] PROVE Asked(p)
    BY DEF ObeysAffinity
  <2>1. PICK r \in Requests : r.task = p /\ Pending(cpu[p], r)
    BY DEF RInv, Affine, Obeys
  <2>. QED BY <2>1 DEF Pending, Asked
<1>. QED BY <1>1, RequestsInvariant, PTL

(* On two processors, as CONFIG_NR_CPUS says, the migration thread that is *)
(* woken exists, too.                                                      *)
THEOREM WellPlacedHolds == TwoProcessors => (Spec => []WellPlaced)
<1>. SUFFICES ASSUME TwoProcessors PROVE Spec => []WellPlaced
  OBVIOUS
<1>1. RInv /\ Reached /\ [Next]_vars => Reached'
  BY ReachedStep DEF RInv, IInv, Calls, Places
<1>2. RInv /\ Reached => TypeOK /\ RunsWhereItIs /\ MtIsThere
  BY DEF RInv, IInv, Places, Calls, Threads, Reached, MtIsThere
<1>3. TypeOK /\ RunsWhereItIs /\ MtIsThere /\ ObeysAffinity => WellPlaced
  BY DEF WellPlaced
<1>. QED BY InitRInv, RequestsInvariant, ObeysAffinityHolds, <1>1, <1>2, <1>3, PTL DEF Spec
=============================================================================
