--------------------------- MODULE Queues_proofs ---------------------------
(***************************************************************************)
(* Theorems about the run queue locks and the context switch, for any      *)
(* processors, tasks and watchers, and about real-time bandwidth, for any  *)
(* groups, tasks and writers.                                              *)
(*                                                                         *)
(* RqInv is the inductive invariant of the locks: an actor holds exactly   *)
(* the locks that what it does entitles it to (Locks), it waits for them   *)
(* in order (Ordered), and as long as nobody has decided under the lock of *)
(* a run queue that the task had left, the threads of a processor are      *)
(* where rq->curr, the stack and prev say (Homes), and a task being woken  *)
(* is nowhere but with its waker (Waking).  BandInv is that of the groups: *)
(* those in use are a tree (Tree), they fit below def_rt_bandwidth (Fits), *)
(* and a task is, and will be, where it may run (Runs).                    *)
(***************************************************************************)
EXTENDS Queues, FiniteSetTheorems, FunctionTheorems, WellFoundedInduction, TLAPS

(* What an actor may be doing.                                             *)
CpuActs ==
  {Free}
  \cup [at : {"task_rq_lock", "wake"}, p : Tasks, rq : CPUs, then : {"wake"}]
  \cup [at : {"select"}, p : Tasks]
  \cup [at : {"task_rq_lock", "activate"}, p : Tasks, rq : CPUs, then : {"activate"}]
  \cup [at : {"schedule", "switch", "finish"}, prev : Threads]
  \cup [at : {"idle", "pick"}, prev : Threads, off : BOOLEAN]
  \cup [at : {"locking", "pull"}, locks : Seq(CPUs), then : {"pull"}, from : CPUs, prev : Threads, off : BOOLEAN]
  \cup [at : {"put"}, prev : Threads, mm : MMs \cup {None}, dead : BOOLEAN]
  \cup [at : {"locking", "move", "set_task_cpu"}, locks : Seq(CPUs), then : {"move"}, p : Tasks, to : CPUs]
WatchActs ==
  {Free}
  \cup [at : {"watch"}, p : Watched, rq : CPUs, match : BOOLEAN]
  \cup [at : {"task_rq_lock", "sample"}, p : Watched, rq : CPUs, then : {"sample"}, match : BOOLEAN]
Acts(a) == IF a \in CPUs THEN CpuActs ELSE WatchActs

ActsOK ==
  /\ act \in [Actors -> CpuActs \cup WatchActs] /\ \A a \in Actors : act[a] \in Acts(a)
  /\ seen \in [Watchers -> [p : Watched \cup {None}, count : Nat, ran : BOOLEAN]]

(* The other processor whose lock c takes in r, and the order of the two.  *)
Other(r)    == IF r.then = "pull" THEN r.from ELSE r.to
Lower(c, r) == IF c < Other(r) THEN c ELSE Other(r)
Upper(c, r) == IF c < Other(r) THEN Other(r) ELSE c

(* Locks are waited for in order, the lower one first.                     *)
InOrder(c, r) ==
  /\ r.at = "locking" => Other(r) # c /\ r.locks \in {<<Lower(c, r), Upper(c, r)>>, <<Upper(c, r)>>}
  /\ r.at = "pull" => r.from # c
  /\ r.at \in {"move", "set_task_cpu"} => r.to # c
Ordered == \A c \in CPUs : InOrder(c, act[c])

(* An actor that does r holds the lock of x.                               *)
Holds(a, r, x) ==
  \/ r.at \in {"schedule", "idle", "pick", "pull", "switch", "finish", "move", "set_task_cpu"} /\ x = a
  \/ r.at \in {"wake", "activate", "sample"} /\ x = r.rq
  \/ r.at = "pull" /\ x = r.from
  \/ r.at \in {"move", "set_task_cpu"} /\ x = r.to
  \/ r.at = "locking" /\ Len(r.locks) = 1 /\ x = Lower(a, r)
Locks == \A a \in Actors, x \in CPUs : lock[x] = a <=> Holds(a, act[a], x)

(* Where the threads of a processor are while it does r.                   *)
InSchedule(r) == r.at \in {"schedule", "idle", "pick", "pull"} \/ (r.at = "locking" /\ r.then = "pull")
Moves(r)      == r.at \in {"move", "set_task_cpu"} \/ (r.at = "locking" /\ r.then = "move")
AtHome(c) ==
  /\ curr[c] \in {idle(c)} \cup Tasks /\ on[c] \in {idle(c)} \cup Tasks
  /\ \A t \in Tasks : (curr[c] = t \/ on[c] = t) => cpu[t] = c
  /\ act[c].at # "switch" => on[c] = curr[c]
  /\ act[c].at = "switch" => on[c] = act[c].prev /\ act[c].prev # curr[c]
  /\ InSchedule(act[c]) => act[c].prev = curr[c]
  /\ act[c].at = "finish" => act[c].prev # curr[c] /\ (act[c].prev \in Tasks => cpu[act[c].prev] = c)
  /\ Moves(act[c]) => act[c].p # curr[c]
Homes == \A c \in CPUs : AtHome(c)

(* A task in TASK_WAKING is on no queue and no stack, and one processor,   *)
(* that which wakes it, knows it; it is why an actor may lack its pin.     *)
Carries(r) == r.at \in {"select", "activate"} \/ (r.at = "task_rq_lock" /\ r.then = "activate")
Has(c, t)  == curr[c] = t \/ on[c] = t \/ (act[c].at = "finish" /\ act[c].prev = t)
Waking ==
  /\ \A t \in Tasks : state[t] = "waking" => t \notin queued /\ \A c \in CPUs : ~Has(c, t)
  /\ \A c \in CPUs : Carries(act[c]) => state[act[c].p] = "waking"
  /\ \A c, d \in CPUs : Carries(act[c]) /\ Carries(act[d]) /\ act[c].p = act[d].p => c = d
Unpinned == \A a \in unpinned : act[a].at \in {"wake", "sample"}

(* From the moment on at which the previous task may have left the queue.  *)
Decided(r) == InSchedule(r) /\ r.at # "schedule"

(* A dead task is only queued until it is deactivated, once; the processor *)
(* that has it on its stack, or has still to put it, is the last to know.  *)
Last(c, t) ==
  \/ on[c] = t
  \/ act[c].at = "finish" /\ act[c].prev = t
  \/ act[c].at = "put" /\ act[c].dead /\ act[c].prev = t
Dead ==
  /\ \A t \in Tasks : state[t] # "dead" => dropped[t] = 0
  /\ \A t \in Tasks : state[t] = "dead" =>
       /\ t \in queued => \E c \in CPUs : curr[c] = t /\ ~Decided(act[c])
       /\ \A c, d \in CPUs : Last(c, t) /\ Last(d, t) => c = d
       /\ \/ dropped[t] = 0
          \/ dropped[t] = 1 /\ \A c \in CPUs : ~Last(c, t)
  /\ \A c \in CPUs : /\ act[c].at = "switch" /\ curr[c] \in Tasks => state[curr[c]] # "dead"
                     /\ act[c].at = "put" /\ act[c].dead =>
                          act[c].prev \in Tasks /\ state[act[c].prev] = "dead" /\ on[c] # act[c].prev

(* A current task has left the queue only on its way out of schedule(),    *)
(* where the switch is counted.                                            *)
Leaving == \A c \in CPUs : curr[c] \in Tasks /\ curr[c] \notin queued => Decided(act[c]) /\ act[c].off
Sampled ==
  \A w \in Watchers : seen[w].p # None =>
    /\ seen[w].count <= nvcsw[seen[w].p]
    /\ seen[w].ran => \/ seen[w].count < nvcsw[seen[w].p]
                      \/ seen[w].p \in queued
                      \/ \E c \in CPUs : curr[c] = seen[w].p

(* An mm is active on every stack; a loan ends with the switch.            *)
Active ==
  /\ \A t \in Threads : mm[t] \in {None, t} /\ (mm[t] = t => t \in WithMm /\ active_mm[t] = t)
  /\ \A c \in CPUs : active_mm[on[c]] # None
  /\ \A t \in Threads : mm[t] = None /\ (\A c \in CPUs : on[c] # t) => active_mm[t] = None
  /\ \A c \in CPUs : prev_mm[c] # None => act[c].at = "finish"

-----------------------------------------------------------------------------
(* An actor that turns to r.                                               *)
LEMMA ActsKept ==
  ASSUME ActsOK, NEW a \in Actors, NEW r \in Acts(a), act' = [act EXCEPT ![a] = r],
         seen' \in [Watchers -> [p : Watched \cup {None}, count : Nat, ran : BOOLEAN]]
  PROVE  ActsOK' /\ act'[a] = r /\ \A b \in Actors : b # a => act'[b] = act[b]
<1>1. act'[a] = r /\ \A b \in Actors : b # a => act'[b] = act[b]
  BY DEF ActsOK
<1>2. r \in CpuActs \cup WatchActs
  BY DEF Acts
<1>3. act' \in [Actors -> CpuActs \cup WatchActs]
  BY <1>2 DEF ActsOK
<1>. QED BY <1>1, <1>3 DEF ActsOK

LEMMA LocksStep ==
  ASSUME TypeOK, Locks, NEW a \in Actors, NEW r,
         act'[a] = r, \A b \in Actors : b # a => act'[b] = act[b],
         \A x \in CPUs : Holds(a, r, x) => lock[x] \in {None, a},
         \A x \in CPUs : lock'[x] = IF Holds(a, r, x) THEN a ELSE IF lock[x] = a THEN None ELSE lock[x]
  PROVE  Locks'
<1>. SUFFICES ASSUME NEW b \in Actors, NEW x \in CPUs PROVE lock'[x] = b <=> Holds(b, act'[b], x)
  BY DEF Locks, Holds, Lower, Other
<1>0. None \notin Actors
  BY RqAssumption DEF Actors
<1>1. CASE b = a
  BY <1>0, <1>1
<1>2. CASE b # a
  BY <1>0, <1>2 DEF Locks
<1>. QED BY <1>1, <1>2

(* What each step makes of the actor that takes it.                        *)
LEMMA TaskRqLockAct ==
  ASSUME TypeOK, ActsOK, NEW a \in Actors, TaskRqLock(a)
  PROVE  \E r \in Acts(a) :
           /\ act' = [act EXCEPT ![a] = r] /\ r.p = act[a].p /\ r.p \in Tasks
           /\ r.at \in {"task_rq_lock", "wake", "activate", "sample"}
           /\ (r.at \in {"wake", "activate"} => a \in CPUs) /\ (r.at = "sample" => a \in Watchers)
           /\ r.rq = cpu[r.p] /\ (Carries(r) <=> Carries(act[a]))
           /\ IF r.at = "task_rq_lock" THEN UNCHANGED <<lock, unpinned>>
              ELSE /\ lock[r.rq] = None /\ lock' = [lock EXCEPT ![r.rq] = a]
                   /\ unpinned' = IF state[r.p] = "waking" /\ r.at # "activate" THEN unpinned \cup {a} ELSE unpinned
<1>. DEFINE locked == [act[a] EXCEPT !.at = act[a].then]
            again  == [act[a] EXCEPT !.rq = cpu[act[a].p]]
<1>0. act[a].at = "task_rq_lock" /\ \A t \in Tasks : cpu[t] \in CPUs
  BY DEF TypeOK, TaskRqLock
<1>1. /\ act[a].p \in Tasks /\ locked \in Acts(a) /\ again \in Acts(a)
      /\ locked.at = act[a].then /\ locked.rq = act[a].rq /\ locked.p = act[a].p
      /\ again.at = "task_rq_lock" /\ again.rq = cpu[act[a].p] /\ again.p = act[a].p
      /\ again.then = act[a].then
      /\ \/ act[a].then \in {"wake", "activate"} /\ a \in CPUs
         \/ act[a].then = "sample" /\ a \in Watchers
  <2>1. CASE a \in CPUs
    <3>1. \/ act[a] \in [at : {"task_rq_lock", "wake"}, p : Tasks, rq : CPUs, then : {"wake"}]
          \/ act[a] \in [at : {"task_rq_lock", "activate"}, p : Tasks, rq : CPUs, then : {"activate"}]
      BY <1>0, <2>1 DEF ActsOK, Acts, CpuActs, Free
    <3>. QED BY <1>0, <2>1, <3>1 DEF Acts, CpuActs
  <2>2. CASE a \notin CPUs
    <3>1. act[a] \in [at : {"task_rq_lock", "sample"}, p : Watched, rq : CPUs, then : {"sample"}, match : BOOLEAN]
      BY <1>0, <2>2 DEF ActsOK, Acts, WatchActs, Free
    <3>. QED BY <1>0, <2>2, <3>1, RqAssumption DEF Acts, WatchActs, Actors
  <2>. QED BY <2>1, <2>2
<1>2. CASE Home(a)
  <2>1. /\ act' = [act EXCEPT ![a] = locked] /\ lock[act[a].rq] = None /\ lock' = [lock EXCEPT ![act[a].rq] = a]
        /\ act[a].rq = cpu[act[a].p]
        /\ unpinned' = IF state[act[a].p] = "waking" /\ act[a].then # "activate" THEN unpinned \cup {a} ELSE unpinned
    BY <1>2 DEF TaskRqLock, Home, Pins
  <2>2. Carries(locked) <=> Carries(act[a])
    BY <1>0, <1>1 DEF Carries
  <2>. HIDE DEF locked, again
  <2>. QED BY <1>1, <2>1, <2>2
<1>3. CASE ~Home(a)
  <2>1. act' = [act EXCEPT ![a] = again] /\ UNCHANGED <<lock, unpinned>>
    BY <1>3 DEF TaskRqLock
  <2>2. Carries(again) <=> Carries(act[a])
    BY <1>0, <1>1 DEF Carries
  <2>. HIDE DEF locked, again
  <2>. QED BY <1>1, <2>1, <2>2
<1>. QED BY <1>2, <1>3

LEMMA Shapes ==
  ASSUME ActsOK, NEW c \in CPUs
  PROVE  /\ act[c] \in CpuActs
         /\ act[c].at = "wake" => act[c] \in [at : {"task_rq_lock", "wake"}, p : Tasks, rq : CPUs, then : {"wake"}]
         /\ act[c].at = "select" => act[c] \in [at : {"select"}, p : Tasks]
         /\ act[c].at = "activate" =>
              act[c] \in [at : {"task_rq_lock", "activate"}, p : Tasks, rq : CPUs, then : {"activate"}]
         /\ Carries(act[c]) => act[c].p \in Tasks
         /\ act[c].at \in {"schedule", "switch", "finish"} =>
              act[c] \in [at : {"schedule", "switch", "finish"}, prev : Threads]
         /\ act[c].at \in {"idle", "pick"} => act[c] \in [at : {"idle", "pick"}, prev : Threads, off : BOOLEAN]
         /\ act[c].at = "pull" \/ (act[c].at = "locking" /\ act[c].then = "pull") =>
              act[c] \in [at : {"locking", "pull"}, locks : Seq(CPUs), then : {"pull"}, from : CPUs,
                          prev : Threads, off : BOOLEAN]
         /\ act[c].at \in {"move", "set_task_cpu"} \/ (act[c].at = "locking" /\ act[c].then # "pull") =>
              act[c] \in [at : {"locking", "move", "set_task_cpu"}, locks : Seq(CPUs), then : {"move"}, p : Tasks, to : CPUs]
         /\ act[c].at = "put" => act[c] \in [at : {"put"}, prev : Threads, mm : MMs \cup {None}, dead : BOOLEAN]
<1>1. act[c] \in CpuActs
  BY DEF ActsOK, Acts, Actors
<1>2. act[c] = Free => act[c].at = "free"
  BY DEF Free
<1>. QED BY <1>1, <1>2 DEF CpuActs, Carries

LEMMA WatchShapes ==
  ASSUME ActsOK, NEW w \in Watchers
  PROVE  /\ w \notin CPUs /\ act[w] \in WatchActs
         /\ act[w].at = "watch" => act[w] \in [at : {"watch"}, p : Watched, rq : CPUs, match : BOOLEAN]
         /\ act[w].at = "sample" =>
              act[w] \in [at : {"task_rq_lock", "sample"}, p : Watched, rq : CPUs, then : {"sample"}, match : BOOLEAN]
<1>0. w \notin CPUs
  BY RqAssumption
<1>1. act[w] \in WatchActs
  BY <1>0 DEF ActsOK, Acts, Actors
<1>2. act[w] = Free => act[w].at = "free"
  BY DEF Free
<1>. QED BY <1>0, <1>1, <1>2 DEF WatchActs

LEMMA WakeCallAct ==
  ASSUME TypeOK, NEW c \in CPUs, NEW t \in Tasks, WakeCall(c, t)
  PROVE  \E r \in Acts(c) : act' = [act EXCEPT ![c] = r] /\ r.at = "task_rq_lock" /\ r.then = "wake"
<1>. DEFINE r == TaskRq(c, t, "wake")
<1>1. r \in Acts(c) /\ r.at = "task_rq_lock" /\ r.then = "wake"
  BY DEF TypeOK, TaskRq, Acts, CpuActs
<1>. QED BY <1>1 DEF WakeCall

(* try_to_wake_up() gives up one lock, sets the processor and takes another. *)
LEMMA BeginWakingAct ==
  ASSUME ActsOK, NEW c \in CPUs, BeginWaking(c)
  PROVE  /\ act[c].at = "wake" /\ act[c].p \in Tasks /\ act[c].rq \in CPUs
         /\ \E r \in Acts(c) : act' = [act EXCEPT ![c] = r] /\ r.at = "select" /\ r.p = act[c].p
<1>. DEFINE r == [at |-> "select", p |-> act[c].p]
<1>1. act[c].at = "wake" /\ act[c] \in [at : {"task_rq_lock", "wake"}, p : Tasks, rq : CPUs, then : {"wake"}]
  BY Shapes DEF BeginWaking, Wakes
<1>2. r \in Acts(c) /\ r.at = "select" /\ r.p = act[c].p
  BY <1>1 DEF Acts, CpuActs
<1>. QED BY <1>1, <1>2 DEF BeginWaking

LEMMA SetTaskCpuAct ==
  ASSUME ActsOK, NEW c \in CPUs, NEW d \in CPUs, SetTaskCpu(c, d)
  PROVE  /\ act[c].at = "select" /\ act[c].p \in Tasks
         /\ \E r \in Acts(c) : /\ act' = [act EXCEPT ![c] = r] /\ r.at = "task_rq_lock" /\ r.then = "activate"
                               /\ r.p = act[c].p
<1>. DEFINE r == [at |-> "task_rq_lock", p |-> act[c].p, rq |-> d, then |-> "activate"]
<1>1. act[c].at = "select" /\ act[c].p \in Tasks
  BY Shapes DEF SetTaskCpu
<1>2. r \in Acts(c) /\ r.at = "task_rq_lock" /\ r.then = "activate" /\ r.p = act[c].p
  BY <1>1 DEF Acts, CpuActs
<1>. QED BY <1>1, <1>2 DEF SetTaskCpu

LEMMA WatchCallAct ==
  ASSUME TypeOK, NEW w \in Watchers, NEW t \in Watched, NEW match \in BOOLEAN, WatchCall(w, t, match)
  PROVE  \E r \in Acts(w) : act' = [act EXCEPT ![w] = r] /\ r.at = "watch"
<1>. DEFINE r == [at |-> "watch", p |-> t, rq |-> cpu[t], match |-> match]
<1>1. r \in Acts(w) /\ r.at = "watch"
  BY RqAssumption DEF TypeOK, Acts, WatchActs
<1>. QED BY <1>1 DEF WatchCall

LEMMA WatchRunningAct ==
  ASSUME TypeOK, ActsOK, NEW w \in Watchers, WatchRunning(w)
  PROVE  \E r \in Acts(w) : act' = [act EXCEPT ![w] = r] /\ r.at \in {"free", "task_rq_lock"}
<1>. DEFINE r == [at |-> "task_rq_lock", p |-> act[w].p, rq |-> cpu[act[w].p], then |-> "sample",
                  match |-> act[w].match]
<1>1. act[w] \in [at : {"watch"}, p : Watched, rq : CPUs, match : BOOLEAN]
  BY WatchShapes DEF WatchRunning
<1>2. r \in Acts(w) /\ Free \in Acts(w) /\ r.at = "task_rq_lock" /\ Free.at = "free"
  BY <1>1, RqAssumption DEF TypeOK, Acts, WatchActs, Free
<1>. QED BY <1>2 DEF WatchRunning

LEMMA WatchSampleAct ==
  ASSUME TypeOK, ActsOK, NEW w \in Watchers, WatchSample(w)
  PROVE  /\ act[w].p \in Watched /\ act[w].rq \in CPUs
         /\ \E r \in Acts(w) : act' = [act EXCEPT ![w] = r] /\ r.at \in {"free", "watch"}
<1>. DEFINE t == act[w].p
            r == [at |-> "watch", p |-> t, rq |-> cpu[t], match |-> act[w].match]
<1>1. act[w] \in [at : {"task_rq_lock", "sample"}, p : Watched, rq : CPUs, then : {"sample"}, match : BOOLEAN]
  BY WatchShapes DEF WatchSample, Samples
<1>2. r \in Acts(w) /\ Free \in Acts(w) /\ r.at = "watch" /\ Free.at = "free"
  BY <1>1, RqAssumption DEF TypeOK, Acts, WatchActs, Free
<1>. QED BY <1>1, <1>2 DEF WatchSample, Samples

LEMMA ScheduleAct ==
  ASSUME TypeOK, NEW c \in CPUs, Schedule(c)
  PROVE  \E r \in Acts(c) : act' = [act EXCEPT ![c] = r] /\ r.at = "schedule" /\ r.prev = curr[c]
<1>. DEFINE r == [at |-> "schedule", prev |-> curr[c]]
<1>1. r \in Acts(c) /\ r.at = "schedule" /\ r.prev = curr[c]
  BY DEF TypeOK, Acts, CpuActs
<1>. QED BY <1>1 DEF Schedule

LEMMA DeactivateAct ==
  ASSUME TypeOK, ActsOK, NEW c \in CPUs, Deactivate(c)
  PROVE  \E r \in Acts(c) : /\ act' = [act EXCEPT ![c] = r] /\ r.at \in {"idle", "pick"}
                            /\ r.prev = act[c].prev
                            /\ r.off <=> (r.prev \in Tasks /\ state[r.prev] # "running")
                            /\ queued' = IF r.off THEN queued \ {r.prev} ELSE queued
<1>. DEFINE prev == act[c].prev
            off  == prev \in Tasks /\ state[prev] # "running"
            left == queued \ (IF off THEN {prev} ELSE {})
            at   == IF \E t \in left : cpu[t] = c THEN "pick" ELSE "idle"
            r    == [at |-> at, prev |-> prev, off |-> off]
<1>1. prev \in Threads
  BY Shapes DEF Deactivate
<1>2. at \in {"idle", "pick"} /\ off \in BOOLEAN
  OBVIOUS
<1>3. act' = [act EXCEPT ![c] = r] /\ queued' = left
  BY DEF Deactivate
<1>. HIDE DEF at
<1>4. r \in Acts(c)
  BY <1>1, <1>2 DEF Acts, CpuActs
<1>. QED BY <1>2, <1>3, <1>4

(* Two records that differ in the locks to take and in the point reached.  *)
LEMMA TakeLocksAct ==
  ASSUME ActsOK, Ordered, NEW c \in CPUs, TakeLocks(c)
  PROVE  \E r \in Acts(c) :
           /\ act' = [act EXCEPT ![c] = r] /\ InOrder(c, r)
           /\ r.at = "locking" \/ r.at = r.then
           /\ InSchedule(r) <=> InSchedule(act[c])
           /\ Moves(r) <=> Moves(act[c])
           /\ InSchedule(act[c]) => r.prev = act[c].prev /\ r.off = act[c].off /\ r.then = "pull"
           /\ Moves(act[c]) => r.p = act[c].p /\ r.then = "move"
           /\ \E x \in CPUs : /\ lock[x] = None /\ lock' = [lock EXCEPT ![x] = c]
                              /\ \A y \in CPUs : Holds(c, r, y) <=> Holds(c, act[c], y) \/ y = x
<1>. DEFINE s == act[c]
            r == [s EXCEPT !.locks = Tail(s.locks), !.at = IF Len(s.locks) = 1 THEN s.then ELSE s.at]
            lo == Lower(c, s)
            hi == Upper(c, s)
<1>1. /\ s.at = "locking" /\ lock[Head(s.locks)] = None
      /\ lock' = [lock EXCEPT ![Head(s.locks)] = c]
      /\ act' = [act EXCEPT ![c] = r]
  BY DEF TakeLocks, ActsOK, Actors
<1>2. \/ s \in [at : {"locking", "pull"}, locks : Seq(CPUs), then : {"pull"}, from : CPUs,
                prev : Threads, off : BOOLEAN]
      \/ s \in [at : {"locking", "move", "set_task_cpu"}, locks : Seq(CPUs), then : {"move"}, p : Tasks, to : CPUs]
  BY <1>1, Shapes
<1>3. Other(s) \in CPUs /\ Other(s) # c /\ s.locks \in {<<lo, hi>>, <<hi>>}
  BY <1>1, <1>2 DEF Ordered, InOrder, Other
<1>4. lo \in CPUs /\ hi \in CPUs /\ lo # hi /\ {lo, hi} = {c, Other(s)}
  BY <1>3, RqAssumption DEF Lower, Upper
<1>5. r \in Acts(c) /\ r.locks = Tail(s.locks) /\ r.then = s.then /\ Tail(s.locks) \in Seq(CPUs)
  <2>1. Tail(s.locks) \in Seq(CPUs)
    <3>1. CASE s.locks = <<lo, hi>>
      BY <1>4, <3>1
    <3>2. CASE s.locks = <<hi>>
      BY <3>2
    <3>. QED BY <1>3, <3>1, <3>2
  <2>. QED BY <1>1, <1>2, <2>1 DEF Acts, CpuActs
<1>6. Other(r) = Other(s) /\ Lower(c, r) = lo /\ Upper(c, r) = hi
  BY <1>2 DEF Other, Lower, Upper
<1>7. /\ InSchedule(r) <=> InSchedule(s)
      /\ Moves(r) <=> Moves(s)
      /\ InSchedule(s) => r.prev = s.prev /\ r.off = s.off /\ r.then = "pull"
      /\ Moves(s) => r.p = s.p /\ r.then = "move"
  BY <1>1, <1>2 DEF InSchedule, Moves
<1>8. /\ s = act[c]
      /\ Len(s.locks) # 1 => r.at = "locking"
      /\ Len(s.locks) = 1 => r.at = s.then /\ s.then = r.then
      /\ s.then = "pull" => r.from = s.from /\ s.then # "move" /\ Other(s) = s.from
      /\ s.then # "pull" => r.to = s.to /\ s.then = "move" /\ Other(s) = s.to
  BY <1>1, <1>2 DEF Other
<1>. HIDE DEF lo, hi, s, r
<1>9. CASE s.locks = <<lo, hi>>
  <2>1. Head(s.locks) = lo /\ Tail(s.locks) = <<hi>> /\ Len(s.locks) = 2
    BY <1>9
  <2>2. r.at = "locking"
    BY <1>8, <2>1
  <2>3. InOrder(c, r)
    BY <1>3, <1>5, <1>6, <2>1, <2>2 DEF InOrder
  <2>4. \A y \in CPUs : Holds(c, r, y) <=> Holds(c, s, y) \/ y = lo
    BY <1>1, <1>5, <1>6, <2>1, <2>2 DEF Holds, lo
  <2>. QED BY <1>1, <1>4, <1>5, <1>7, <1>8, <2>1, <2>2, <2>3, <2>4
<1>10. CASE s.locks = <<hi>>
  <2>1. Head(s.locks) = hi /\ Len(s.locks) = 1
    BY <1>10
  <2>2. r.at = s.then
    BY <1>8, <2>1
  <2>3. InOrder(c, r)
    BY <1>3, <1>8, <2>2 DEF InOrder
  <2>4. \A y \in CPUs : Holds(c, r, y) <=> Holds(c, s, y) \/ y = hi
    <3>1. \A y \in CPUs : Holds(c, s, y) <=> y = lo
      BY <1>1, <2>1 DEF Holds, lo
    <3>2. \A y \in CPUs : Holds(c, r, y) <=> y = c \/ y = Other(s)
      BY <1>8, <2>2 DEF Holds
    <3>. QED BY <1>4, <3>1, <3>2
  <2>. QED BY <1>1, <1>4, <1>5, <1>7, <1>8, <2>1, <2>2, <2>3, <2>4
<1>. QED BY <1>3, <1>9, <1>10

LEMMA NoBusiestAct ==
  ASSUME ActsOK, NEW c \in CPUs, NoBusiest(c)
  PROVE  \E r \in Acts(c) : /\ act' = [act EXCEPT ![c] = r] /\ r.at = "pick"
                            /\ r.prev = act[c].prev /\ r.off = act[c].off
<1>. DEFINE r == [act[c] EXCEPT !.at = "pick"]
<1>1. act[c] \in [at : {"idle", "pick"}, prev : Threads, off : BOOLEAN]
  BY Shapes DEF NoBusiest
<1>2. r \in Acts(c) /\ r.at = "pick" /\ r.prev = act[c].prev /\ r.off = act[c].off
  BY <1>1 DEF Acts, CpuActs
<1>. QED BY <1>2 DEF NoBusiest

(* double_lock_balance() holds both locks, its own, or none.               *)
LEMMA DoubleLockBalanceAct ==
  ASSUME TypeOK, ActsOK, NEW c \in CPUs, NEW b \in CPUs, DoubleLockBalance(c, b)
  PROVE  /\ act[c].at = "idle"
         /\ \E r \in Acts(c) :
           /\ act' = [act EXCEPT ![c] = r] /\ InOrder(c, r)
           /\ r.then = "pull" /\ r.from = b /\ r.prev = act[c].prev /\ r.off = act[c].off /\ Other(r) = b
           /\ \/ r.at = "pull" /\ lock[b] = None /\ lock' = [lock EXCEPT ![b] = c]
              \/ r.at = "locking" /\ Len(r.locks) = 2 /\ lock' = [lock EXCEPT ![c] = None]
              \/ r.at = "locking" /\ Len(r.locks) = 1 /\ Lower(c, r) = c /\ UNCHANGED lock
<1>0. act[c].at = "idle" /\ b # c /\ act[c] \in [at : {"idle", "pick"}, prev : Threads, off : BOOLEAN]
  BY Shapes DEF DoubleLockBalance
<1>1. CASE lock[b] = None
  <2>. DEFINE r == [Balancing(c, b, <<>>) EXCEPT !.at = "pull"]
  <2>1. /\ r \in Acts(c) /\ r.at = "pull" /\ r.then = "pull" /\ r.from = b
        /\ r.prev = act[c].prev /\ r.off = act[c].off /\ Other(r) = b
    <3>1. r = [at |-> "pull", locks |-> <<>>, then |-> "pull", from |-> b, prev |-> act[c].prev, off |-> act[c].off]
      BY DEF Balancing
    <3>2. <<>> \in Seq(CPUs)
      OBVIOUS
    <3>. HIDE DEF r
    <3>. QED BY <1>0, <3>1, <3>2 DEF Acts, CpuActs, Other
  <2>2. act' = [act EXCEPT ![c] = r] /\ lock' = [lock EXCEPT ![b] = c]
    BY <1>1 DEF DoubleLockBalance
  <2>. HIDE DEF r
  <2>. QED BY <1>0, <1>1, <2>1, <2>2 DEF InOrder
<1>2. CASE lock[b] # None /\ b < c
  <2>. DEFINE r == Balancing(c, b, <<b, c>>)
  <2>1. act' = [act EXCEPT ![c] = r] /\ lock' = [lock EXCEPT ![c] = None]
    BY <1>2 DEF DoubleLockBalance
  <2>2. /\ r \in Acts(c) /\ r.at = "locking" /\ r.then = "pull" /\ r.from = b /\ r.locks = <<b, c>>
        /\ r.prev = act[c].prev /\ r.off = act[c].off /\ Other(r) = b
    <3>1. <<b, c>> \in Seq(CPUs)
      OBVIOUS
    <3>. QED BY <1>0, <3>1 DEF Balancing, Acts, CpuActs, Other
  <2>. HIDE DEF r
  <2>3. Lower(c, r) = b /\ Upper(c, r) = c
    BY <1>2, <2>2, RqAssumption DEF Lower, Upper
  <2>4. InOrder(c, r)
    BY <1>0, <2>2, <2>3 DEF InOrder
  <2>. QED BY <1>0, <2>1, <2>2, <2>4
<1>3. CASE lock[b] # None /\ ~(b < c)
  <2>. DEFINE r == Balancing(c, b, <<b>>)
  <2>1. act' = [act EXCEPT ![c] = r] /\ UNCHANGED lock
    BY <1>3 DEF DoubleLockBalance
  <2>2. /\ r \in Acts(c) /\ r.at = "locking" /\ r.then = "pull" /\ r.from = b /\ r.locks = <<b>>
        /\ r.prev = act[c].prev /\ r.off = act[c].off /\ Other(r) = b
    <3>1. <<b>> \in Seq(CPUs)
      OBVIOUS
    <3>. QED BY <1>0, <3>1 DEF Balancing, Acts, CpuActs, Other
  <2>. HIDE DEF r
  <2>3. Lower(c, r) = c /\ Upper(c, r) = b
    BY <1>0, <1>3, <2>2, RqAssumption DEF Lower, Upper
  <2>4. InOrder(c, r)
    BY <1>0, <2>2, <2>3 DEF InOrder
  <2>. QED BY <1>0, <2>1, <2>2, <2>3, <2>4
<1>. QED BY <1>1, <1>2, <1>3

LEMMA PulledAct ==
  ASSUME ActsOK, NEW c \in CPUs, PullNothing(c) \/ \E t \in Tasks : Pull(c, t)
  PROVE  /\ act[c].at = "pull" /\ act[c].from \in CPUs
         /\ Release(c, {act[c].from})
         /\ \E r \in Acts(c) : /\ act' = [act EXCEPT ![c] = r] /\ r.at = "pick"
                               /\ r.prev = act[c].prev /\ r.off = act[c].off
<1>. DEFINE r == [at |-> "pick", prev |-> act[c].prev, off |-> act[c].off]
<1>1. act[c].at = "pull" /\ act' = [act EXCEPT ![c] = r] /\ Release(c, {act[c].from})
  BY DEF Pull, PullNothing
<1>2. act[c] \in [at : {"locking", "pull"}, locks : Seq(CPUs), then : {"pull"}, from : CPUs,
                  prev : Threads, off : BOOLEAN]
  BY <1>1, Shapes
<1>3. r \in Acts(c) /\ r.at = "pick" /\ r.prev = act[c].prev /\ r.off = act[c].off
  BY <1>2 DEF Acts, CpuActs
<1>. QED BY <1>1, <1>2, <1>3

LEMMA PickAct ==
  ASSUME ActsOK, NEW c \in CPUs, NEW t \in Threads, Pick(c, t)
  PROVE  /\ act[c].prev \in Threads /\ act[c].off \in BOOLEAN
         /\ \E r \in Acts(c) :
              /\ act' = [act EXCEPT ![c] = r]
              /\ \/ /\ t = act[c].prev /\ r.at = "free" /\ Release(c, {c}) /\ UNCHANGED <<curr, nvcsw>>
                 \/ /\ t # act[c].prev /\ r.at = "switch" /\ r.prev = act[c].prev /\ UNCHANGED lock
                    /\ curr' = [curr EXCEPT ![c] = t]
                    /\ nvcsw' = IF act[c].off THEN [nvcsw EXCEPT ![act[c].prev] = @ + 1] ELSE nvcsw
<1>. DEFINE r == [at |-> "switch", prev |-> act[c].prev]
<1>1. act[c] \in [at : {"idle", "pick"}, prev : Threads, off : BOOLEAN]
  BY Shapes DEF Pick
<1>2. /\ r \in Acts(c) /\ r.at = "switch" /\ r.prev = act[c].prev
      /\ Free \in Acts(c) /\ Free.at = "free"
  BY <1>1 DEF Acts, CpuActs, Free
<1>3. CASE t = act[c].prev
  BY <1>1, <1>2, <1>3 DEF Pick
<1>4. CASE t # act[c].prev
  BY <1>1, <1>2, <1>4 DEF Pick
<1>. QED BY <1>3, <1>4

LEMMA ContextSwitchAct ==
  ASSUME ActsOK, NEW c \in CPUs, ContextSwitch(c)
  PROVE  /\ act[c].at = "switch" /\ act[c].prev \in Threads
         /\ \E r \in Acts(c) : act' = [act EXCEPT ![c] = r] /\ r.at = "finish" /\ r.prev = act[c].prev
<1>. DEFINE r == [act[c] EXCEPT !.at = "finish"]
<1>1. act[c].at = "switch" /\ act[c] \in [at : {"schedule", "switch", "finish"}, prev : Threads]
  BY Shapes DEF ContextSwitch
<1>2. r \in Acts(c) /\ r.at = "finish" /\ r.prev = act[c].prev
  BY <1>1 DEF Acts, CpuActs
<1>. QED BY <1>1, <1>2 DEF ContextSwitch

LEMMA FinishAct ==
  ASSUME TypeOK, ActsOK, NEW c \in CPUs, FinishTaskSwitch(c)
  PROVE  \E r \in Acts(c) : /\ act' = [act EXCEPT ![c] = r] /\ r.at = "put"
                            /\ r.prev = act[c].prev /\ r.mm = prev_mm[c] /\ r.mm \in MMs \cup {None}
                            /\ r.dead \in BOOLEAN /\ r.dead <=> (r.prev \in Tasks /\ state[r.prev] = "dead")
<1>. DEFINE prev == act[c].prev
            dead == prev \in Tasks /\ state[prev] = "dead"
            r == [at |-> "put", prev |-> prev, mm |-> prev_mm[c], dead |-> dead]
<1>1. act[c] \in [at : {"schedule", "switch", "finish"}, prev : Threads]
  BY Shapes DEF FinishTaskSwitch
<1>2. prev_mm[c] \in MMs \cup {None} /\ dead \in BOOLEAN
  BY DEF TypeOK
<1>3. r \in Acts(c)
  BY <1>1, <1>2 DEF Acts, CpuActs
<1>. QED BY <1>1, <1>2, <1>3 DEF FinishTaskSwitch

LEMMA DoubleRqLockAct ==
  ASSUME NEW c \in CPUs, NEW t \in Tasks, NEW d \in CPUs, DoubleRqLock(c, t, d)
  PROVE  \E r \in Acts(c) : /\ act' = [act EXCEPT ![c] = r] /\ InOrder(c, r)
                            /\ r.at = "locking" /\ r.then = "move" /\ r.p = t /\ Len(r.locks) = 2
<1>. DEFINE locks == IF c < d THEN <<c, d>> ELSE <<d, c>>
            r == [at |-> "locking", locks |-> locks, then |-> "move", p |-> t, to |-> d]
<1>1. locks \in Seq(CPUs) /\ Len(locks) = 2 /\ c # d /\ act' = [act EXCEPT ![c] = r]
  BY DEF DoubleRqLock
<1>2. Lower(c, r) = (IF c < d THEN c ELSE d) /\ Upper(c, r) = (IF c < d THEN d ELSE c) /\ Other(r) = d
  BY DEF Lower, Upper, Other
<1>3. locks = <<Lower(c, r), Upper(c, r)>>
  BY <1>2
<1>4. r \in Acts(c)
  BY <1>1 DEF Acts, CpuActs
<1>5. InOrder(c, r)
  BY <1>1, <1>2, <1>3 DEF InOrder
<1>. QED BY <1>1, <1>4, <1>5

LEMMA MoveAct ==
  ASSUME ActsOK, Ordered, NEW c \in CPUs, Move(c)
  PROVE  /\ act[c].at = "move"
         /\ \/ act' = [act EXCEPT ![c] = Free] /\ Release(c, CPUs)
            \/ /\ UNCHANGED lock
               /\ \E r \in Acts(c) : /\ act' = [act EXCEPT ![c] = r] /\ InOrder(c, r) /\ r.at = "set_task_cpu"
                                     /\ r.p = act[c].p /\ r.to = act[c].to
<1>. DEFINE r == [act[c] EXCEPT !.at = "set_task_cpu"]
<1>1. /\ act[c].at = "move"
      /\ act[c] \in [at : {"locking", "move", "set_task_cpu"}, locks : Seq(CPUs), then : {"move"}, p : Tasks, to : CPUs]
  BY Shapes DEF Move
<1>2. r \in Acts(c) /\ r.at = "set_task_cpu" /\ r.p = act[c].p /\ r.to = act[c].to
  BY <1>1 DEF Acts, CpuActs
<1>3. InOrder(c, r)
  BY <1>1, <1>2 DEF InOrder, Ordered
<1>4. CASE cpu[act[c].p] = c
  <2>1. act' = [act EXCEPT ![c] = r] /\ UNCHANGED lock
    BY <1>4 DEF Move
  <2>. QED BY <1>1, <1>2, <1>3, <2>1
<1>5. CASE cpu[act[c].p] # c
  BY <1>1, <1>5 DEF Move
<1>. QED BY <1>4, <1>5

LEMMA FreeAct ==
  ASSUME NEW a \in Actors
  PROVE  Free \in Acts(a) /\ Free.at = "free"
BY DEF Acts, CpuActs, WatchActs, Free

-----------------------------------------------------------------------------
(* Every step takes and releases the locks that the new point says.        *)
Locking == ActsOK /\ Ordered /\ Locks
OrderedActs(a) == {r \in Acts(a) : a \in CPUs => InOrder(a, r)}

LEMMA LockingStep ==
  ASSUME TypeOK, Locking, NEW a \in Actors, NEW r \in OrderedActs(a), act' = [act EXCEPT ![a] = r],
         seen' \in [Watchers -> [p : Watched \cup {None}, count : Nat, ran : BOOLEAN]],
         \A x \in CPUs : Holds(a, r, x) => lock[x] \in {None, a},
         \A x \in CPUs : lock'[x] = IF Holds(a, r, x) THEN a ELSE IF lock[x] = a THEN None ELSE lock[x]
  PROVE  Locking'
<1>0. r \in Acts(a) /\ (a \in CPUs => InOrder(a, r))
  BY DEF OrderedActs
<1>1. ActsOK' /\ act'[a] = r /\ \A b \in Actors : b # a => act'[b] = act[b]
  BY <1>0, ActsKept DEF Locking
<1>2. Locks'
  BY <1>1, LocksStep DEF Locking
<1>3. Ordered'
  <2>. SUFFICES ASSUME NEW c \in CPUs PROVE InOrder(c, act'[c])
    BY DEF Ordered, InOrder, Lower, Upper, Other
  <2>1. CASE c = a
    BY <1>0, <1>1, <2>1
  <2>2. CASE c # a
    BY <1>1, <2>2 DEF Locking, Ordered, Actors
  <2>. QED BY <2>1, <2>2
<1>. QED BY <1>1, <1>2, <1>3 DEF Locking

(* The ways in which a step may change the locks.                          *)
LEMMA LockingKept ==
  ASSUME TypeOK, Locking, NEW a \in Actors, NEW r \in OrderedActs(a), act' = [act EXCEPT ![a] = r],
         seen' \in [Watchers -> [p : Watched \cup {None}, count : Nat, ran : BOOLEAN]], lock' = lock,
         \A x \in CPUs : Holds(a, r, x) <=> Holds(a, act[a], x)
  PROVE  Locking'
<1>1. \A x \in CPUs : Holds(a, r, x) <=> lock[x] = a
  BY DEF Locking, Locks
<1>. QED BY <1>1, LockingStep

LEMMA LockingTakes ==
  ASSUME TypeOK, Locking, NEW a \in Actors, NEW r \in OrderedActs(a), act' = [act EXCEPT ![a] = r],
         seen' \in [Watchers -> [p : Watched \cup {None}, count : Nat, ran : BOOLEAN]], NEW y \in CPUs, lock[y] = None,
         \A x \in CPUs : lock'[x] = IF x = y THEN a ELSE lock[x],
         \A x \in CPUs : Holds(a, r, x) <=> Holds(a, act[a], x) \/ x = y
  PROVE  Locking'
<1>1. \A x \in CPUs : Holds(a, r, x) <=> lock[x] = a \/ x = y
  BY DEF Locking, Locks
<1>. QED BY <1>1, LockingStep

LEMMA LockingGives ==
  ASSUME TypeOK, Locking, NEW a \in Actors, NEW r \in OrderedActs(a), act' = [act EXCEPT ![a] = r],
         seen' \in [Watchers -> [p : Watched \cup {None}, count : Nat, ran : BOOLEAN]], NEW S,
         \A x \in CPUs : lock'[x] = IF x \in S /\ lock[x] = a THEN None ELSE lock[x],
         \A x \in CPUs : Holds(a, r, x) <=> Holds(a, act[a], x) /\ x \notin S
  PROVE  Locking'
<1>1. \A x \in CPUs : Holds(a, r, x) <=> lock[x] = a /\ x \notin S
  BY DEF Locking, Locks
<1>. QED BY <1>1, LockingStep

(* At points other than these nothing is held.                             *)
LEMMA HoldsNothing ==
  ASSUME NEW a, NEW r, r.at \in {"free", "task_rq_lock", "select", "watch", "put"}
  PROVE  \A x \in CPUs : ~Holds(a, r, x)
BY DEF Holds

LEMMA OrderedAct ==
  ASSUME NEW a, NEW r \in Acts(a), r.at \notin {"locking", "pull", "move", "set_task_cpu"}
  PROVE  r \in OrderedActs(a)
BY DEF InOrder, OrderedActs

LEMMA FreeOrdered ==
  ASSUME NEW a \in Actors
  PROVE  Free \in OrderedActs(a) /\ \A x \in CPUs : ~Holds(a, Free, x)
BY FreeAct, OrderedAct, HoldsNothing

LEMMA LockingInvariant == TypeOK /\ Locking /\ [Next]_vars => Locking'
<1>. SUFFICES ASSUME TypeOK, Locking, [Next]_vars PROVE Locking'
  OBVIOUS
<1>. DEFINE Seen == [Watchers -> [p : Watched \cup {None}, count : Nat, ran : BOOLEAN]]
<1>0. ActsOK /\ Ordered /\ Locks /\ seen \in Seen /\ CPUs \subseteq Actors /\ Watchers \subseteq Actors
      /\ (\A c \in CPUs : c \notin Watchers) /\ None \notin CPUs
  BY RqAssumption DEF Locking, ActsOK, Actors
<1>1. ASSUME NEW a \in Actors, TaskRqLock(a) PROVE Locking'
  <2>1. act[a].at = "task_rq_lock" /\ seen' = seen
    BY <1>1 DEF TaskRqLock
  <2>2. PICK r \in Acts(a) :
           /\ act' = [act EXCEPT ![a] = r] /\ r.p \in Tasks
           /\ r.at \in {"task_rq_lock", "wake", "activate", "sample"}
           /\ r.rq = cpu[r.p]
           /\ IF r.at = "task_rq_lock" THEN UNCHANGED lock
              ELSE lock[r.rq] = None /\ lock' = [lock EXCEPT ![r.rq] = a]
    <3>1. TypeOK /\ ActsOK /\ TaskRqLock(a)
      BY <1>0, <1>1
    <3>. QED BY <3>1, TaskRqLockAct, ZenonT(30)
  <2>3. r \in OrderedActs(a) /\ r.rq \in CPUs
    BY <2>2, OrderedAct DEF TypeOK
  <2>4. CASE r.at = "task_rq_lock"
    <3>1. \A x \in CPUs : Holds(a, r, x) <=> Holds(a, act[a], x)
      BY <2>1, <2>4 DEF Holds
    <3>. QED BY <1>0, <2>1, <2>2, <2>3, <2>4, <3>1, LockingKept
  <2>5. CASE r.at # "task_rq_lock"
    <3>0. PICK y \in CPUs : y = r.rq
      BY <2>3
    <3>1. \A x \in CPUs : Holds(a, r, x) <=> Holds(a, act[a], x) \/ x = y
      BY <2>1, <2>2, <2>5, <3>0 DEF Holds
    <3>2. lock[y] = None /\ \A x \in CPUs : lock'[x] = IF x = y THEN a ELSE lock[x]
      BY <2>2, <2>5, <3>0 DEF TypeOK
    <3>3. act' = [act EXCEPT ![a] = r] /\ r \in OrderedActs(a) /\ seen' \in Seen
      BY <1>0, <2>1, <2>2, <2>3
    <3>4. \A x \in CPUs : Holds(a, r, x) <=> lock[x] = a \/ x = y
      BY <1>0, <3>1 DEF Locks
    <3>5. /\ \A x \in CPUs : Holds(a, r, x) => lock[x] \in {None, a}
          /\ \A x \in CPUs : lock'[x] = IF Holds(a, r, x) THEN a ELSE IF lock[x] = a THEN None ELSE lock[x]
      BY <3>2, <3>4
    <3>. QED BY <3>3, <3>5, LockingStep
  <2>. QED BY <2>4, <2>5
<1>2. ASSUME NEW c \in CPUs, Wake(c) PROVE Locking'
  <2>1. act[c].at = "wake" /\ act[c].rq \in CPUs
    BY <1>0, <1>2, Shapes DEF Wake, Wakes
  <2>2. act' = [act EXCEPT ![c] = Free] /\ seen' = seen /\ lock' = [lock EXCEPT ![act[c].rq] = None]
    BY <1>2 DEF Wake, Wakes
  <2>3. \A x \in CPUs : Holds(c, act[c], x) <=> x = act[c].rq
    BY <2>1 DEF Holds
  <2>4. \A x \in CPUs : lock'[x] = IF x \in {act[c].rq} /\ lock[x] = c THEN None ELSE lock[x]
    BY <1>0, <2>2, <2>3 DEF Locks, TypeOK
  <2>5. \A x \in CPUs : Holds(c, Free, x) <=> Holds(c, act[c], x) /\ x \notin {act[c].rq}
    BY <1>0, <2>3, FreeOrdered
  <2>6. Free \in OrderedActs(c) /\ act' = [act EXCEPT ![c] = Free] /\ seen' \in Seen /\ c \in Actors
    BY <1>0, <2>2, FreeOrdered
  <2>. QED BY <2>4, <2>5, <2>6, LockingGives
<1>3. ASSUME NEW c \in CPUs, GoesToSleep(c) \/ Dies(c) PROVE Locking'
  BY <1>0, <1>3 DEF GoesToSleep, Dies, Locking, ActsOK, Ordered, InOrder, Locks, Holds, Lower, Upper, Other
<1>4. ASSUME NEW c \in CPUs, Schedule(c) PROVE Locking'
  <2>1. act[c].at = "free" /\ lock[c] = None /\ lock' = [lock EXCEPT ![c] = c] /\ seen' = seen
    BY <1>4 DEF Schedule, Free
  <2>2. PICK r \in Acts(c) : act' = [act EXCEPT ![c] = r] /\ r.at = "schedule"
    BY <1>4, ScheduleAct
  <2>3. \A x \in CPUs : Holds(c, r, x) <=> Holds(c, act[c], x) \/ x = c
    BY <2>1, <2>2 DEF Holds
  <2>4. \A x \in CPUs : lock'[x] = IF x = c THEN c ELSE lock[x]
    BY <2>1 DEF TypeOK
  <2>. QED BY <1>0, <2>1, <2>2, <2>3, <2>4, OrderedAct, LockingTakes
<1>5. ASSUME NEW c \in CPUs, Deactivate(c) \/ NoBusiest(c) PROVE Locking'
  <2>1. act[c].at \in {"schedule", "idle"} /\ lock' = lock /\ seen' = seen
    BY <1>5 DEF Deactivate, NoBusiest
  <2>2. PICK r \in Acts(c) : act' = [act EXCEPT ![c] = r] /\ r.at \in {"idle", "pick"}
    <3>1. CASE Deactivate(c)
      BY <1>0, <3>1, DeactivateAct
    <3>2. CASE NoBusiest(c)
      BY <1>0, <3>2, NoBusiestAct
    <3>. QED BY <1>5, <3>1, <3>2
  <2>3. \A x \in CPUs : Holds(c, r, x) <=> Holds(c, act[c], x)
    BY <2>1, <2>2 DEF Holds
  <2>. QED BY <1>0, <2>1, <2>2, <2>3, OrderedAct, LockingKept
<1>6. ASSUME NEW c \in CPUs, TakeLocks(c) PROVE Locking'
  <2>1. seen' = seen
    BY <1>6 DEF TakeLocks
  <2>2. PICK r \in Acts(c) :
          /\ act' = [act EXCEPT ![c] = r] /\ InOrder(c, r)
          /\ \E x \in CPUs : /\ lock[x] = None /\ lock' = [lock EXCEPT ![x] = c]
                             /\ \A y \in CPUs : Holds(c, r, y) <=> Holds(c, act[c], y) \/ y = x
    BY <1>0, <1>6, TakeLocksAct
  <2>3. PICK x \in CPUs : /\ lock[x] = None /\ lock' = [lock EXCEPT ![x] = c]
                          /\ \A y \in CPUs : Holds(c, r, y) <=> Holds(c, act[c], y) \/ y = x
    BY <2>2
  <2>4. \A y \in CPUs : lock'[y] = IF y = x THEN c ELSE lock[y]
    BY <2>3 DEF TypeOK
  <2>5. r \in OrderedActs(c)
    BY <2>2 DEF OrderedActs
  <2>. QED BY <1>0, <2>1, <2>2, <2>3, <2>4, <2>5, LockingTakes
<1>7. ASSUME NEW c \in CPUs, NEW b \in CPUs, DoubleLockBalance(c, b) PROVE Locking'
  <2>1. seen' = seen /\ act[c].at = "idle"
    BY <1>7 DEF DoubleLockBalance
  <2>2. PICK r \in Acts(c) :
           /\ act' = [act EXCEPT ![c] = r] /\ InOrder(c, r) /\ r.from = b
           /\ \/ r.at = "pull" /\ lock[b] = None /\ lock' = [lock EXCEPT ![b] = c]
              \/ r.at = "locking" /\ Len(r.locks) = 2 /\ lock' = [lock EXCEPT ![c] = None]
              \/ r.at = "locking" /\ Len(r.locks) = 1 /\ Lower(c, r) = c /\ UNCHANGED lock
    BY <1>0, <1>7, DoubleLockBalanceAct
  <2>3. \A x \in CPUs : Holds(c, act[c], x) <=> x = c
    BY <2>1 DEF Holds
  <2>0. r \in OrderedActs(c)
    BY <2>2 DEF OrderedActs
  <2>4. CASE r.at = "pull" /\ lock[b] = None /\ lock' = [lock EXCEPT ![b] = c]
    <3>1. \A x \in CPUs : Holds(c, r, x) <=> x = c \/ x = b
      BY <2>2, <2>4 DEF Holds
    <3>2. \A x \in CPUs : Holds(c, r, x) <=> Holds(c, act[c], x) \/ x = b
      BY <2>3, <3>1
    <3>3. \A x \in CPUs : lock'[x] = IF x = b THEN c ELSE lock[x]
      BY <2>4 DEF TypeOK
    <3>4. act' = [act EXCEPT ![c] = r] /\ lock[b] = None
      BY <2>2, <2>4
    <3>. QED BY <1>0, <2>0, <2>1, <3>2, <3>3, <3>4, LockingTakes, ZenonT(30)
  <2>5. CASE r.at = "locking" /\ Len(r.locks) = 2 /\ lock' = [lock EXCEPT ![c] = None]
    <3>1. \A x \in CPUs : ~Holds(c, r, x)
      BY <2>5 DEF Holds
    <3>2. \A x \in CPUs : lock'[x] = IF x \in {c} /\ lock[x] = c THEN None ELSE lock[x]
      BY <1>0, <2>3, <2>5 DEF Locks, TypeOK
    <3>3. \A x \in CPUs : Holds(c, r, x) <=> Holds(c, act[c], x) /\ x \notin {c}
      BY <2>3, <3>1
    <3>. QED BY <1>0, <2>0, <2>1, <2>2, <3>2, <3>3, LockingGives
  <2>6. CASE r.at = "locking" /\ Len(r.locks) = 1 /\ Lower(c, r) = c /\ UNCHANGED lock
    <3>1. \A x \in CPUs : Holds(c, r, x) <=> x = c
      BY <2>6 DEF Holds
    <3>2. \A x \in CPUs : Holds(c, r, x) <=> Holds(c, act[c], x)
      BY <2>3, <3>1
    <3>. QED BY <1>0, <2>0, <2>1, <2>2, <2>6, <3>2, LockingKept
  <2>. QED BY <2>2, <2>4, <2>5, <2>6
<1>8. ASSUME NEW c \in CPUs, PullNothing(c) \/ \E t \in Tasks : Pull(c, t) PROVE Locking'
  <2>1. seen' = seen
    BY <1>8 DEF PullNothing, Pull
  <2>2. /\ act[c].at = "pull" /\ act[c].from \in CPUs /\ act[c].from # c
        /\ Release(c, {act[c].from})
    BY <1>0, <1>8, PulledAct DEF Ordered, InOrder
  <2>3. PICK r \in Acts(c) : act' = [act EXCEPT ![c] = r] /\ r.at = "pick"
    BY <1>0, <1>8, PulledAct
  <2>4. \A x \in CPUs : Holds(c, r, x) <=> Holds(c, act[c], x) /\ x \notin {act[c].from}
    BY <2>2, <2>3 DEF Holds
  <2>5. \A x \in CPUs : lock'[x] = IF x \in {act[c].from} /\ lock[x] = c THEN None ELSE lock[x]
    BY <2>2 DEF Release
  <2>. QED BY <1>0, <2>1, <2>3, <2>4, <2>5, OrderedAct, LockingGives
<1>9. ASSUME NEW c \in CPUs, NEW t \in Threads, Pick(c, t) PROVE Locking'
  <2>1. seen' \in Seen
    <3>1. \A w \in Watchers :
            [seen[w] EXCEPT !.ran = @ \/ (seen[w].p # None /\ seen[w].p = t /\ t # act[c].prev)]
              \in [p : Watched \cup {None}, count : Nat, ran : BOOLEAN]
      BY <1>0
    <3>. QED BY <1>9, <3>1 DEF Pick
  <2>2. act[c].at = "pick"
    BY <1>9 DEF Pick
  <2>3. PICK r \in Acts(c) :
          /\ act' = [act EXCEPT ![c] = r]
          /\ \/ r.at = "free" /\ Release(c, {c})
             \/ r.at = "switch" /\ UNCHANGED lock
    BY <1>0, <1>9, PickAct
  <2>4. CASE r.at = "free" /\ Release(c, {c})
    <3>1. \A x \in CPUs : Holds(c, r, x) <=> Holds(c, act[c], x) /\ x \notin {c}
      BY <2>2, <2>4 DEF Holds
    <3>2. \A x \in CPUs : lock'[x] = IF x \in {c} /\ lock[x] = c THEN None ELSE lock[x]
      BY <2>4 DEF Release
    <3>. QED BY <1>0, <2>1, <2>3, <2>4, <3>1, <3>2, OrderedAct, LockingGives
  <2>5. CASE r.at = "switch" /\ UNCHANGED lock
    <3>1. \A x \in CPUs : Holds(c, r, x) <=> Holds(c, act[c], x)
      BY <2>2, <2>5 DEF Holds
    <3>. QED BY <1>0, <2>1, <2>3, <2>5, <3>1, OrderedAct, LockingKept
  <2>. QED BY <2>3, <2>4, <2>5
<1>10. ASSUME NEW c \in CPUs, ContextSwitch(c) PROVE Locking'
  <2>1. lock' = lock /\ seen' = seen /\ act[c].at = "switch"
    BY <1>10 DEF ContextSwitch
  <2>2. PICK r \in Acts(c) : act' = [act EXCEPT ![c] = r] /\ r.at = "finish"
    BY <1>0, <1>10, ContextSwitchAct
  <2>3. \A x \in CPUs : Holds(c, r, x) <=> Holds(c, act[c], x)
    BY <2>1, <2>2 DEF Holds
  <2>. QED BY <1>0, <2>1, <2>2, <2>3, OrderedAct, LockingKept
<1>11. ASSUME NEW c \in CPUs, FinishTaskSwitch(c) PROVE Locking'
  <2>1. seen' = seen /\ act[c].at = "finish" /\ Release(c, {c})
    BY <1>11 DEF FinishTaskSwitch
  <2>2. PICK r \in Acts(c) : act' = [act EXCEPT ![c] = r] /\ r.at = "put"
    BY <1>0, <1>11, FinishAct
  <2>3. \A x \in CPUs : Holds(c, r, x) <=> Holds(c, act[c], x) /\ x \notin {c}
    BY <2>1, <2>2 DEF Holds
  <2>4. \A x \in CPUs : lock'[x] = IF x \in {c} /\ lock[x] = c THEN None ELSE lock[x]
    BY <2>1 DEF Release
  <2>. QED BY <1>0, <2>1, <2>2, <2>3, <2>4, OrderedAct, LockingGives
<1>12. ASSUME NEW c \in CPUs, Put(c) PROVE Locking'
  <2>1. act[c].at = "put" /\ act' = [act EXCEPT ![c] = Free] /\ lock' = lock /\ seen' = seen
    BY <1>12 DEF Put
  <2>2. \A x \in CPUs : Holds(c, Free, x) <=> Holds(c, act[c], x)
    BY <2>1 DEF Holds, Free
  <2>. QED BY <1>0, <2>1, <2>2, FreeOrdered, LockingKept
<1>13. ASSUME NEW c \in CPUs, NEW d \in CPUs, NEW t \in Tasks, DoubleRqLock(c, t, d) PROVE Locking'
  <2>1. lock' = lock /\ seen' = seen /\ act[c].at = "free"
    BY <1>13 DEF DoubleRqLock, Free
  <2>2. PICK r \in Acts(c) : act' = [act EXCEPT ![c] = r] /\ InOrder(c, r) /\ r.at = "locking" /\ Len(r.locks) = 2
    BY <1>13, DoubleRqLockAct
  <2>3. \A x \in CPUs : Holds(c, r, x) <=> Holds(c, act[c], x)
    BY <2>1, <2>2 DEF Holds
  <2>4. r \in OrderedActs(c)
    BY <2>2 DEF OrderedActs
  <2>. QED BY <1>0, <2>1, <2>2, <2>3, <2>4, LockingKept
<1>14. ASSUME NEW c \in CPUs, act' = [act EXCEPT ![c] = Free], seen' = seen, Release(c, CPUs) PROVE Locking'
  <2>1. \A x \in CPUs : lock'[x] = IF x \in CPUs /\ lock[x] = c THEN None ELSE lock[x]
    BY <1>14 DEF Release
  <2>2. \A x \in CPUs : Holds(c, Free, x) <=> Holds(c, act[c], x) /\ x \notin CPUs
    BY <1>0, FreeOrdered
  <2>. QED BY <1>0, <1>14, <2>1, <2>2, FreeOrdered, LockingGives
<1>21. ASSUME NEW c \in CPUs, Move(c) PROVE Locking'
  <2>1. seen' = seen /\ act[c].at = "move"
    BY <1>21 DEF Move
  <2>2. CASE act' = [act EXCEPT ![c] = Free] /\ Release(c, CPUs)
    BY <1>14, <2>1, <2>2
  <2>3. CASE UNCHANGED lock /\ \E r \in Acts(c) : /\ act' = [act EXCEPT ![c] = r] /\ InOrder(c, r)
                                               /\ r.at = "set_task_cpu" /\ r.to = act[c].to
    <3>1. PICK r \in Acts(c) : /\ act' = [act EXCEPT ![c] = r] /\ InOrder(c, r)
                               /\ r.at = "set_task_cpu" /\ r.to = act[c].to
      BY <2>3
    <3>2. \A x \in CPUs : Holds(c, r, x) <=> Holds(c, act[c], x)
      BY <2>1, <3>1 DEF Holds
    <3>3. r \in OrderedActs(c)
      BY <3>1 DEF OrderedActs
    <3>. QED BY <1>0, <2>1, <2>3, <3>1, <3>2, <3>3, LockingKept
  <2>4. ActsOK /\ Ordered /\ Move(c)
    BY <1>0, <1>21
  <2>. QED BY <2>2, <2>3, <2>4, MoveAct, ZenonT(30)
<1>22. ASSUME NEW c \in CPUs, Moved(c) PROVE Locking'
  BY <1>14, <1>22 DEF Moved
<1>23. ASSUME NEW c \in CPUs, BeginWaking(c) PROVE Locking'
  <2>1. PICK r \in Acts(c) : act' = [act EXCEPT ![c] = r] /\ r.at = "select"
    BY <1>0, <1>23, BeginWakingAct
  <2>2. /\ act[c].at = "wake" /\ act[c].rq \in CPUs /\ seen' = seen
        /\ lock' = [lock EXCEPT ![act[c].rq] = None]
    BY <1>0, <1>23, BeginWakingAct DEF BeginWaking, Wakes
  <2>3. \A x \in CPUs : Holds(c, act[c], x) <=> x = act[c].rq
    BY <2>2 DEF Holds
  <2>4. \A x \in CPUs : lock'[x] = IF x \in {act[c].rq} /\ lock[x] = c THEN None ELSE lock[x]
    BY <1>0, <2>2, <2>3 DEF Locks, TypeOK
  <2>5. \A x \in CPUs : Holds(c, r, x) <=> Holds(c, act[c], x) /\ x \notin {act[c].rq}
    BY <2>1, <2>3, HoldsNothing
  <2>6. r \in OrderedActs(c) /\ act' = [act EXCEPT ![c] = r] /\ seen' \in Seen /\ c \in Actors
    BY <1>0, <2>1, <2>2, OrderedAct
  <2>. QED BY <2>4, <2>5, <2>6, LockingGives
<1>24. ASSUME NEW c \in CPUs, NEW d \in CPUs, SetTaskCpu(c, d) PROVE Locking'
  <2>1. PICK r \in Acts(c) : act' = [act EXCEPT ![c] = r] /\ r.at = "task_rq_lock"
    BY <1>0, <1>24, SetTaskCpuAct
  <2>2. act[c].at = "select" /\ seen' = seen /\ lock' = lock
    BY <1>24 DEF SetTaskCpu
  <2>3. \A x \in CPUs : Holds(c, r, x) <=> Holds(c, act[c], x)
    BY <2>1, <2>2, HoldsNothing
  <2>. QED BY <1>0, <2>1, <2>2, <2>3, OrderedAct, LockingKept
<1>25. ASSUME NEW c \in CPUs, Activate(c) PROVE Locking'
  <2>1. act[c].at = "activate" /\ act[c].rq \in CPUs
    BY <1>0, <1>25, Shapes DEF Activate
  <2>2. act' = [act EXCEPT ![c] = Free] /\ seen' = seen /\ lock' = [lock EXCEPT ![act[c].rq] = None]
    BY <1>25 DEF Activate
  <2>3. \A x \in CPUs : Holds(c, act[c], x) <=> x = act[c].rq
    BY <2>1 DEF Holds
  <2>4. \A x \in CPUs : lock'[x] = IF x \in {act[c].rq} /\ lock[x] = c THEN None ELSE lock[x]
    BY <1>0, <2>2, <2>3 DEF Locks, TypeOK
  <2>5. \A x \in CPUs : Holds(c, Free, x) <=> Holds(c, act[c], x) /\ x \notin {act[c].rq}
    BY <1>0, <2>3, FreeOrdered
  <2>6. Free \in OrderedActs(c) /\ act' = [act EXCEPT ![c] = Free] /\ seen' \in Seen /\ c \in Actors
    BY <1>0, <2>2, FreeOrdered
  <2>. QED BY <2>4, <2>5, <2>6, LockingGives
<1>15. ASSUME NEW c \in CPUs, NEW t \in Tasks, WakeCall(c, t) PROVE Locking'
  <2>1. lock' = lock /\ seen' = seen /\ act[c].at = "free"
    BY <1>15 DEF WakeCall, Free
  <2>2. PICK r \in Acts(c) : act' = [act EXCEPT ![c] = r] /\ r.at = "task_rq_lock"
    BY <1>15, WakeCallAct
  <2>3. \A x \in CPUs : Holds(c, r, x) <=> Holds(c, act[c], x)
    BY <2>1, <2>2 DEF Holds
  <2>. QED BY <1>0, <2>1, <2>2, <2>3, OrderedAct, LockingKept
<1>16. ASSUME NEW w \in Watchers, \/ WatchRunning(w)
                                  \/ \E t \in Watched, match \in BOOLEAN : WatchCall(w, t, match)
       PROVE  Locking'
  <2>1. lock' = lock /\ seen' = seen /\ act[w].at \in {"free", "watch"}
    BY <1>16 DEF WatchRunning, WatchCall, Free
  <2>2. PICK r \in Acts(w) : act' = [act EXCEPT ![w] = r] /\ r.at \in {"free", "watch", "task_rq_lock"}
    BY <1>0, <1>16, WatchRunningAct, WatchCallAct
  <2>3. \A x \in CPUs : Holds(w, r, x) <=> Holds(w, act[w], x)
    BY <2>1, <2>2 DEF Holds
  <2>. QED BY <1>0, <2>1, <2>2, <2>3, OrderedAct, LockingKept
<1>17. ASSUME NEW w \in Watchers, WatchSample(w) PROVE Locking'
  <2>1. act[w].at = "sample" /\ act[w].p \in Watched /\ act[w].rq \in CPUs
    BY <1>0, <1>17, WatchSampleAct DEF WatchSample, Samples
  <2>2. lock' = [lock EXCEPT ![act[w].rq] = None]
    BY <1>17 DEF WatchSample, Samples
  <2>3. seen' \in Seen
    <3>1. [p |-> act[w].p, count |-> nvcsw[act[w].p], ran |-> FALSE]
            \in [p : Watched \cup {None}, count : Nat, ran : BOOLEAN]
      BY <2>1, RqAssumption DEF TypeOK
    <3>2. seen' = seen \/ seen' = [seen EXCEPT ![w] = [p |-> act[w].p, count |-> nvcsw[act[w].p], ran |-> FALSE]]
      BY <1>17 DEF WatchSample, Samples
    <3>. QED BY <1>0, <3>1, <3>2
  <2>4. PICK r \in Acts(w) : act' = [act EXCEPT ![w] = r] /\ r.at \in {"free", "watch"}
    BY <1>0, <1>17, WatchSampleAct
  <2>5. \A x \in CPUs : Holds(w, act[w], x) <=> x = act[w].rq
    BY <2>1 DEF Holds
  <2>6. \A x \in CPUs : lock'[x] = IF x \in {act[w].rq} /\ lock[x] = w THEN None ELSE lock[x]
    BY <1>0, <2>2, <2>5 DEF Locks, TypeOK
  <2>7. \A x \in CPUs : Holds(w, r, x) <=> Holds(w, act[w], x) /\ x \notin {act[w].rq}
    BY <2>4, <2>5 DEF Holds
  <2>. QED BY <1>0, <2>3, <2>4, <2>6, <2>7, OrderedAct, LockingGives
<1>18. CASE UNCHANGED vars
  BY <1>0, <1>18 DEF vars, Locking, ActsOK, Ordered, InOrder, Locks, Holds, Lower, Upper, Other
<1>. QED BY <1>1, <1>2, <1>3, <1>4, <1>5, <1>6, <1>7, <1>8, <1>9, <1>10, <1>11, <1>12, <1>13, <1>21, <1>15,
            <1>16, <1>17, <1>18, <1>22, <1>23, <1>24, <1>25 DEF Next

-----------------------------------------------------------------------------
LEMMA Counted ==
  ASSUME NEW S, NEW N, N = Nat \/ N = Int, NEW f \in [S -> N], NEW x
  PROVE  [f EXCEPT ![x] = @ + 1] \in [S -> N] /\ (N = Int => [f EXCEPT ![x] = @ - 1] \in [S -> N])
<1>1. CASE x \in S
  <2>1. f[x] + 1 \in N /\ (N = Int => f[x] - 1 \in N)
    BY <1>1
  <2>. QED BY <2>1
<1>2. CASE x \notin S
  BY <1>2
<1>. QED BY <1>1, <1>2

LEMMA TypeStep == TypeOK /\ ActsOK /\ [Next]_vars => TypeOK'
<1>. SUFFICES ASSUME TypeOK, ActsOK, [Next]_vars PROVE TypeOK'
  OBVIOUS
<1>0. CPUs \subseteq Actors /\ Watchers \subseteq Actors
  BY DEF Actors
<1>1. ASSUME NEW a \in Actors, TaskRqLock(a) PROVE TypeOK'
  <2>1. PICK r \in Acts(a) : IF r.at = "task_rq_lock" THEN UNCHANGED <<lock, unpinned>>
              ELSE /\ lock' = [lock EXCEPT ![r.rq] = a]
                   /\ unpinned' = IF state[r.p] = "waking" /\ r.at # "activate" THEN unpinned \cup {a} ELSE unpinned
    <3>1. TypeOK /\ ActsOK /\ TaskRqLock(a)
      BY <1>1
    <3>. QED BY <3>1, TaskRqLockAct, ZenonT(30)
  <2>. QED BY <1>1, <2>1 DEF TypeOK, TaskRqLock, task_vars, mm_vars, pin_vars
<1>2. ASSUME NEW c \in CPUs, Wake(c) PROVE TypeOK'
  <2>1. act[c].p \in Tasks /\ act[c].rq \in CPUs
    BY <1>2, Shapes DEF Wake, Wakes
  <2>. QED BY <1>0, <1>2, <2>1 DEF TypeOK, Wake, Wakes, mm_vars, pin_vars
<1>3. ASSUME NEW c \in CPUs, GoesToSleep(c) \/ Dies(c) PROVE TypeOK'
  BY <1>3 DEF TypeOK, GoesToSleep, Dies, mm_vars, pin_vars, Threads
<1>4. ASSUME NEW c \in CPUs, Schedule(c) PROVE TypeOK'
  BY <1>0, <1>4 DEF TypeOK, Schedule, mm_vars, task_vars, pin_vars
<1>5. ASSUME NEW c \in CPUs, Deactivate(c) PROVE TypeOK'
  BY <1>5 DEF TypeOK, Deactivate, mm_vars, pin_vars
<1>6. ASSUME NEW c \in CPUs, TakeLocks(c) PROVE TypeOK'
  BY <1>0, <1>6 DEF TypeOK, TakeLocks, mm_vars, task_vars, pin_vars
<1>7. ASSUME NEW c \in CPUs, NoBusiest(c) PROVE TypeOK'
  BY <1>7 DEF TypeOK, NoBusiest, mm_vars, task_vars, pin_vars
<1>8. ASSUME NEW c \in CPUs, NEW b \in CPUs, DoubleLockBalance(c, b) PROVE TypeOK'
  BY <1>0, <1>8 DEF TypeOK, DoubleLockBalance, mm_vars, task_vars, pin_vars
<1>9. ASSUME NEW c \in CPUs, PullNothing(c) PROVE TypeOK'
  BY <1>9 DEF TypeOK, PullNothing, Release, mm_vars, task_vars, pin_vars
<1>10. ASSUME NEW c \in CPUs, NEW t \in Tasks, Pull(c, t) PROVE TypeOK'
  BY <1>10 DEF TypeOK, Pull, Release, mm_vars, pin_vars
<1>11. ASSUME NEW c \in CPUs, NEW t \in Threads, Pick(c, t) PROVE TypeOK'
  <2>1. curr' \in [CPUs -> Threads] /\ lock' \in [CPUs -> Actors \cup {None}]
    BY <1>11 DEF TypeOK, Pick, Release
  <2>2. nvcsw' \in [Tasks -> Nat]
    BY <1>11 DEF TypeOK, Pick
  <2>. QED BY <1>11, <2>1, <2>2 DEF TypeOK, Pick, mm_vars, pin_vars
<1>12. ASSUME NEW c \in CPUs, ContextSwitch(c) PROVE TypeOK'
  <2>1. act[c].prev \in Threads /\ curr[c] \in Threads
    BY <1>12, ContextSwitchAct DEF TypeOK
  <2>2. on' \in [CPUs -> Threads] /\ active_mm' \in [Threads -> MMs \cup {None}]
    BY <1>12, <2>1 DEF TypeOK, ContextSwitch
  <2>3. mm_count' \in [MMs -> Int] /\ prev_mm' \in [CPUs -> MMs \cup {None}]
    <3>1. mm_count' \in [MMs -> Int]
      <4>1. mm_count' = mm_count \/ mm_count' = [mm_count EXCEPT ![active_mm[act[c].prev]] = @ + 1]
        BY <1>12 DEF ContextSwitch
      <4>. QED BY <4>1, Counted DEF TypeOK
    <3>2. prev_mm' \in [CPUs -> MMs \cup {None}]
      BY <1>12, <2>1 DEF TypeOK, ContextSwitch
    <3>. QED BY <3>1, <3>2
  <2>. QED BY <1>12, <2>2, <2>3 DEF TypeOK, ContextSwitch, task_vars, pin_vars
<1>13. ASSUME NEW c \in CPUs, FinishTaskSwitch(c) PROVE TypeOK'
  BY <1>13 DEF TypeOK, FinishTaskSwitch, Release, task_vars, pin_vars
<1>14. ASSUME NEW c \in CPUs, Put(c) PROVE TypeOK'
  <2>1. dropped' \in [Tasks -> Nat]
    BY <1>14, Counted DEF TypeOK, Put
  <2>2. mm_count' \in [MMs -> Int]
    BY <1>14, Counted DEF TypeOK, Put
  <2>. QED BY <1>14, <2>1, <2>2 DEF TypeOK, Put, task_vars, pin_vars
<1>15. ASSUME NEW c \in CPUs, NEW d \in CPUs, NEW t \in Tasks, DoubleRqLock(c, t, d) PROVE TypeOK'
  BY <1>15 DEF TypeOK, DoubleRqLock, mm_vars, task_vars, pin_vars
<1>16. ASSUME NEW c \in CPUs, Move(c) PROVE TypeOK'
  BY <1>16 DEF TypeOK, Move, Release, mm_vars, task_vars, pin_vars
<1>21. ASSUME NEW c \in CPUs, Moved(c) PROVE TypeOK'
  <2>1. act[c].to \in CPUs
    BY <1>21, Shapes DEF Moved
  <2>. QED BY <1>21, <2>1 DEF TypeOK, Moved, Release, mm_vars, pin_vars
<1>22. ASSUME NEW c \in CPUs, BeginWaking(c) PROVE TypeOK'
  BY <1>22 DEF TypeOK, BeginWaking, Wakes, mm_vars, pin_vars
<1>23. ASSUME NEW c \in CPUs, NEW d \in CPUs, SetTaskCpu(c, d) PROVE TypeOK'
  BY <1>23 DEF TypeOK, SetTaskCpu, mm_vars, pin_vars
<1>24. ASSUME NEW c \in CPUs, Activate(c) PROVE TypeOK'
  <2>1. act[c].p \in Tasks
    BY <1>24, Shapes DEF Activate
  <2>. QED BY <1>24, <2>1 DEF TypeOK, Activate, mm_vars, pin_vars
<1>17. ASSUME NEW c \in CPUs, NEW t \in Tasks, WakeCall(c, t) PROVE TypeOK'
  BY <1>17 DEF TypeOK, WakeCall, mm_vars, task_vars, pin_vars
<1>18. ASSUME NEW w \in Watchers, \/ WatchRunning(w)
                                 \/ \E t \in Watched, match \in BOOLEAN : WatchCall(w, t, match)
       PROVE  TypeOK'
  BY <1>18 DEF TypeOK, WatchRunning, WatchCall, mm_vars, task_vars, pin_vars
<1>19. ASSUME NEW w \in Watchers, WatchSample(w) PROVE TypeOK'
  BY <1>19 DEF TypeOK, WatchSample, Samples, mm_vars, task_vars, pin_vars
<1>20. CASE UNCHANGED vars
  BY <1>20 DEF TypeOK, vars
<1>. QED BY <1>1, <1>2, <1>3, <1>4, <1>5, <1>6, <1>7, <1>8, <1>9, <1>10, <1>11, <1>12, <1>13, <1>14, <1>15,
            <1>16, <1>17, <1>18, <1>19, <1>20, <1>21, <1>22, <1>23, <1>24 DEF Next

(* A step of c that only takes or releases locks: it stays on its way      *)
(* through schedule(), or is not on it.                                    *)
Calm(c) ==
  /\ UNCHANGED <<curr, on, dropped, task_vars, mm_vars, seen, astray>>
  /\ \E r \in Acts(c) :
       /\ act' = [act EXCEPT ![c] = r]
       /\ r.at \notin {"switch", "finish", "put"} /\ act[c].at \notin {"switch", "finish", "put", "wake"}
       /\ (Carries(r) <=> Carries(act[c])) /\ (Carries(r) => r.p = act[c].p)
       /\ IF r.at \in {"wake", "activate"}
          THEN /\ r.rq = cpu[r.p]
               /\ unpinned' = IF state[r.p] = "waking" /\ r.at # "activate" THEN unpinned \cup {c} ELSE unpinned
          ELSE UNCHANGED unpinned
       /\ \/ Decided(act[c]) /\ Decided(r) /\ r.prev = act[c].prev /\ r.off = act[c].off /\ ~Moves(r)
          \/ ~InSchedule(act[c]) /\ ~InSchedule(r) /\ (Moves(r) => r.p # curr[c])
          \/ ~InSchedule(act[c]) /\ r.at = "schedule" /\ r.prev = curr[c]

LEMMA CalmSteps ==
  ASSUME TypeOK, Locking, Homes, NEW c \in CPUs,
         \/ TaskRqLock(c) \/ Schedule(c) \/ TakeLocks(c) \/ NoBusiest(c) \/ PullNothing(c) \/ Move(c)
         \/ \E t \in Tasks : WakeCall(c, t) \/ \E d \in CPUs : DoubleRqLock(c, t, d)
         \/ \E d \in CPUs : DoubleLockBalance(c, d)
  PROVE  Calm(c)
<1>0. ActsOK /\ Ordered /\ c \in Actors /\ c \notin Watchers
  BY RqAssumption DEF Locking, Actors
<1>1. CASE TaskRqLock(c)
  <2>1. act[c].at = "task_rq_lock" /\ UNCHANGED <<curr, on, dropped, task_vars, mm_vars, seen, astray>>
    BY <1>1 DEF TaskRqLock
  <2>2. PICK r \in Acts(c) :
           /\ act' = [act EXCEPT ![c] = r] /\ r.p = act[c].p
           /\ r.at \in {"task_rq_lock", "wake", "activate", "sample"}
           /\ (r.at \in {"wake", "activate"} => c \in CPUs) /\ (r.at = "sample" => c \in Watchers)
           /\ r.rq = cpu[r.p] /\ (Carries(r) <=> Carries(act[c]))
           /\ IF r.at = "task_rq_lock" THEN UNCHANGED <<lock, unpinned>>
              ELSE unpinned' = IF state[r.p] = "waking" /\ r.at # "activate" THEN unpinned \cup {c} ELSE unpinned
    <3>1. TypeOK /\ ActsOK /\ c \in Actors /\ TaskRqLock(c)
      BY <1>0, <1>1
    <3>. QED BY <3>1, TaskRqLockAct, ZenonT(30)
  <2>3. r.at \in {"task_rq_lock", "wake", "activate"}
    BY <1>0, <2>2
  <2>4. ~InSchedule(act[c]) /\ ~InSchedule(r) /\ ~Moves(r)
    BY <2>1, <2>2, <2>3 DEF InSchedule, Moves
  <2>. QED BY <2>1, <2>2, <2>3, <2>4 DEF Calm
<1>2. CASE Schedule(c)
  <2>1. act[c].at = "free" /\ UNCHANGED <<curr, on, dropped, task_vars, mm_vars, seen, pin_vars>>
    BY <1>2 DEF Schedule, Free
  <2>2. PICK r \in Acts(c) : act' = [act EXCEPT ![c] = r] /\ r.at = "schedule" /\ r.prev = curr[c]
    BY <1>2, ScheduleAct
  <2>. QED BY <2>1, <2>2 DEF Calm, InSchedule, Decided, Moves, Carries, pin_vars
<1>3. CASE TakeLocks(c)
  <2>1. act[c].at = "locking" /\ UNCHANGED <<curr, on, dropped, task_vars, mm_vars, seen, pin_vars>>
    BY <1>3 DEF TakeLocks
  <2>2. PICK r \in Acts(c) :
           /\ act' = [act EXCEPT ![c] = r]
           /\ r.at = "locking" \/ r.at = r.then
           /\ InSchedule(r) <=> InSchedule(act[c])
           /\ Moves(r) <=> Moves(act[c])
           /\ InSchedule(act[c]) => r.prev = act[c].prev /\ r.off = act[c].off /\ r.then = "pull"
           /\ Moves(act[c]) => r.p = act[c].p /\ r.then = "move"
    BY <1>0, <1>3, TakeLocksAct
  <2>3. act[c].then \in {"pull", "move"}
    BY <1>0, <2>1, Shapes
  <2>4. CASE act[c].then = "pull"
    BY <2>1, <2>2, <2>4 DEF Calm, InSchedule, Decided, Moves, Carries, pin_vars
  <2>5. CASE act[c].then = "move"
    <3>1. r.p # curr[c]
      BY <2>1, <2>2, <2>5 DEF Homes, AtHome, Moves
    <3>. QED BY <2>1, <2>2, <2>5, <3>1 DEF Calm, InSchedule, Decided, Moves, Carries, pin_vars
  <2>. QED BY <2>3, <2>4, <2>5
<1>4. CASE NoBusiest(c)
  <2>1. act[c].at = "idle" /\ UNCHANGED <<curr, on, dropped, task_vars, mm_vars, seen, pin_vars>>
    BY <1>4 DEF NoBusiest
  <2>2. PICK r \in Acts(c) : /\ act' = [act EXCEPT ![c] = r] /\ r.at = "pick"
                             /\ r.prev = act[c].prev /\ r.off = act[c].off
    BY <1>0, <1>4, NoBusiestAct
  <2>. QED BY <2>1, <2>2 DEF Calm, InSchedule, Decided, Moves, Carries, pin_vars
<1>5. CASE PullNothing(c)
  <2>1. act[c].at = "pull" /\ UNCHANGED <<curr, on, dropped, task_vars, mm_vars, seen, pin_vars>>
    BY <1>5 DEF PullNothing
  <2>2. PICK r \in Acts(c) : /\ act' = [act EXCEPT ![c] = r] /\ r.at = "pick"
                             /\ r.prev = act[c].prev /\ r.off = act[c].off
    BY <1>0, <1>5, PulledAct
  <2>. QED BY <2>1, <2>2 DEF Calm, InSchedule, Decided, Moves, Carries, pin_vars
<1>6. ASSUME NEW t \in Tasks, WakeCall(c, t) PROVE Calm(c)
  <2>1. act[c].at = "free" /\ UNCHANGED <<curr, on, dropped, task_vars, mm_vars, seen, pin_vars>>
    BY <1>6 DEF WakeCall, Free
  <2>2. PICK r \in Acts(c) : act' = [act EXCEPT ![c] = r] /\ r.at = "task_rq_lock" /\ r.then = "wake"
    BY <1>6, WakeCallAct
  <2>. QED BY <2>1, <2>2 DEF Calm, InSchedule, Decided, Moves, Carries, pin_vars
<1>7. ASSUME NEW t \in Tasks, NEW d \in CPUs, DoubleRqLock(c, t, d) PROVE Calm(c)
  <2>1. act[c].at = "free" /\ t # curr[c] /\ UNCHANGED <<curr, on, dropped, task_vars, mm_vars, seen, pin_vars>>
    BY <1>7 DEF DoubleRqLock, Free
  <2>2. PICK r \in Acts(c) : /\ act' = [act EXCEPT ![c] = r]
                             /\ r.at = "locking" /\ r.then = "move" /\ r.p = t
    BY <1>7, DoubleRqLockAct
  <2>. QED BY <2>1, <2>2 DEF Calm, InSchedule, Decided, Moves, Carries, pin_vars
<1>8. ASSUME NEW d \in CPUs, DoubleLockBalance(c, d) PROVE Calm(c)
  <2>1. UNCHANGED <<curr, on, dropped, task_vars, mm_vars, seen, pin_vars>>
    BY <1>8 DEF DoubleLockBalance
  <2>2. act[c].at = "idle"
    BY <1>8 DEF DoubleLockBalance
  <2>3. PICK r \in Acts(c) : /\ act' = [act EXCEPT ![c] = r] /\ r.at \in {"pull", "locking"}
                             /\ r.then = "pull" /\ r.prev = act[c].prev /\ r.off = act[c].off
    BY <1>0, <1>8, DoubleLockBalanceAct
  <2>. QED BY <2>1, <2>2, <2>3 DEF Calm, InSchedule, Decided, Moves, Carries, pin_vars
<1>9. CASE Move(c)
  <2>1. act[c].at = "move" /\ UNCHANGED <<curr, on, dropped, task_vars, mm_vars, seen, pin_vars>>
    BY <1>9 DEF Move
  <2>2. act[c].p # curr[c]
    BY <2>1 DEF Homes, AtHome, Moves
  <2>3. PICK r \in Acts(c) : /\ act' = [act EXCEPT ![c] = r]
                             /\ r.at = "free" \/ (r.at = "set_task_cpu" /\ r.p = act[c].p)
    <3>1. ActsOK /\ Ordered /\ c \in Actors /\ Move(c)
      BY <1>0, <1>9
    <3>. QED BY <3>1, MoveAct, FreeAct, ZenonT(30)
  <2>. QED BY <2>1, <2>2, <2>3 DEF Calm, InSchedule, Decided, Moves, Carries, pin_vars
<1>. QED BY <1>1, <1>2, <1>3, <1>4, <1>5, <1>6, <1>7, <1>8, <1>9

(* A step of a watcher before it decides.                                  *)
Watches(w) ==
  /\ UNCHANGED <<curr, on, dropped, task_vars, mm_vars, seen, astray>> /\ act[w].at # "sample"
  /\ \E r \in Acts(w) :
       /\ act' = [act EXCEPT ![w] = r]
       /\ IF r.at = "sample"
          THEN r.rq = cpu[r.p] /\ unpinned' = IF state[r.p] = "waking" THEN unpinned \cup {w} ELSE unpinned
          ELSE UNCHANGED unpinned

LEMMA WatchSteps ==
  ASSUME TypeOK, Locking, NEW w \in Watchers,
         \/ TaskRqLock(w) \/ WatchRunning(w)
         \/ \E t \in Watched, match \in BOOLEAN : WatchCall(w, t, match)
  PROVE  Watches(w)
<1>0. ActsOK /\ w \in Actors
  BY DEF Locking, Actors
<1>1. CASE TaskRqLock(w)
  <2>1. UNCHANGED <<curr, on, dropped, task_vars, mm_vars, seen, astray>> /\ act[w].at # "sample"
    BY <1>1 DEF TaskRqLock
  <2>2. PICK r \in Acts(w) :
           /\ act' = [act EXCEPT ![w] = r] /\ r.rq = cpu[r.p]
           /\ (r.at \in {"wake", "activate"} => w \in CPUs)
           /\ r.at \in {"task_rq_lock", "wake", "activate", "sample"}
           /\ IF r.at = "task_rq_lock" THEN UNCHANGED <<lock, unpinned>>
              ELSE unpinned' = IF state[r.p] = "waking" /\ r.at # "activate" THEN unpinned \cup {w} ELSE unpinned
    <3>1. TypeOK /\ ActsOK /\ w \in Actors /\ TaskRqLock(w)
      BY <1>0, <1>1
    <3>. QED BY <3>1, TaskRqLockAct, ZenonT(30)
  <2>3. w \notin CPUs
    BY RqAssumption
  <2>. QED BY <2>1, <2>2, <2>3 DEF Watches
<1>2. CASE WatchRunning(w)
  <2>1. UNCHANGED <<curr, on, dropped, task_vars, mm_vars, seen, pin_vars>> /\ act[w].at # "sample"
    BY <1>2 DEF WatchRunning
  <2>2. PICK r \in Acts(w) : act' = [act EXCEPT ![w] = r] /\ r.at # "sample"
    BY <1>0, <1>2, WatchRunningAct
  <2>. QED BY <2>1, <2>2 DEF Watches, pin_vars
<1>3. ASSUME NEW t \in Watched, NEW match \in BOOLEAN, WatchCall(w, t, match) PROVE Watches(w)
  <2>1. UNCHANGED <<curr, on, dropped, task_vars, mm_vars, seen, pin_vars>> /\ act[w].at # "sample"
    BY <1>3 DEF WatchCall, Free
  <2>2. PICK r \in Acts(w) : act' = [act EXCEPT ![w] = r] /\ r.at # "sample"
    BY <1>0, <1>3, WatchCallAct
  <2>. QED BY <2>1, <2>2 DEF Watches, pin_vars
<1>. QED BY <1>1, <1>2, <1>3

(* The steps that do more.                                                 *)
LEMMA Steps ==
  ASSUME TypeOK, Locking, Homes, [Next]_vars
  PROVE  \/ \E c \in CPUs : \/ Calm(c) \/ Wake(c) \/ BeginWaking(c) \/ Activate(c) \/ GoesToSleep(c) \/ Dies(c)
                            \/ Deactivate(c) \/ ContextSwitch(c) \/ FinishTaskSwitch(c) \/ Put(c) \/ Moved(c)
                            \/ \E d \in CPUs : SetTaskCpu(c, d)
                            \/ \E t \in Tasks : Pull(c, t)
                            \/ \E t \in Threads : Pick(c, t)
         \/ \E w \in Watchers : Watches(w) \/ WatchSample(w)
         \/ UNCHANGED vars
<1>1. ASSUME NEW c \in CPUs,
         \/ TaskRqLock(c) \/ Schedule(c) \/ TakeLocks(c) \/ NoBusiest(c) \/ PullNothing(c) \/ Move(c)
         \/ \E t \in Tasks : WakeCall(c, t) \/ \E d \in CPUs : DoubleRqLock(c, t, d)
         \/ \E d \in CPUs : DoubleLockBalance(c, d)
      PROVE  Calm(c)
  BY <1>1, CalmSteps
<1>2. ASSUME NEW w \in Watchers, \/ TaskRqLock(w) \/ WatchRunning(w)
                                 \/ \E t \in Watched, match \in BOOLEAN : WatchCall(w, t, match)
      PROVE  Watches(w)
  BY <1>2, WatchSteps
<1>. QED BY <1>1, <1>2, Zenon DEF Next, Actors

-----------------------------------------------------------------------------
(* Who has decided astray has done so for good.                            *)
LEMMA AstrayStays == [Next]_vars /\ ~astray' => ~astray
<1>. SUFFICES ASSUME astray, [Next]_vars PROVE astray'
  OBVIOUS
<1>1. ASSUME NEW c \in CPUs, Wake(c) \/ BeginWaking(c) \/ Moved(c) PROVE astray'
  BY <1>1, Zenon DEF Wake, BeginWaking, Wakes, Moved
<1>2. ASSUME NEW w \in Watchers, WatchSample(w) PROVE astray'
  BY <1>2, Zenon DEF WatchSample, Samples
<1>3. ASSUME NEW a \in Actors, TaskRqLock(a) PROVE astray'
  BY <1>3, Zenon DEF TaskRqLock
<1>4. ASSUME NEW w \in Watchers, WatchRunning(w) \/ \E t \in Watched, match \in BOOLEAN : WatchCall(w, t, match)
      PROVE  astray'
  BY <1>4 DEF WatchRunning, WatchCall, pin_vars
<1>5. ASSUME NEW c \in CPUs, \/ Activate(c) \/ GoesToSleep(c) \/ Dies(c) \/ Schedule(c) \/ Deactivate(c)
                             \/ TakeLocks(c) \/ NoBusiest(c) \/ PullNothing(c) \/ ContextSwitch(c)
                             \/ FinishTaskSwitch(c) \/ Put(c) \/ Move(c)
      PROVE  astray'
  BY <1>5 DEF Activate, GoesToSleep, Dies, Schedule, Deactivate, TakeLocks, NoBusiest, PullNothing, ContextSwitch,
              FinishTaskSwitch, Put, Move, pin_vars
<1>6. ASSUME NEW c \in CPUs, NEW t \in Threads, WakeCall(c, t) \/ Pull(c, t) \/ Pick(c, t) PROVE astray'
  BY <1>6 DEF WakeCall, Pull, Pick, pin_vars
<1>7. ASSUME NEW c \in CPUs, NEW d \in CPUs, \/ DoubleLockBalance(c, d) \/ SetTaskCpu(c, d)
                                             \/ \E t \in Tasks : DoubleRqLock(c, t, d)
      PROVE  astray'
  BY <1>7 DEF DoubleLockBalance, SetTaskCpu, DoubleRqLock, pin_vars
<1>8. CASE UNCHANGED vars
  BY <1>8 DEF vars
<1>. QED BY <1>1, <1>2, <1>3, <1>4, <1>5, <1>6, <1>7, <1>8 DEF Next, Threads

(* What moves a task holds the lock of the run queue that it leaves, or    *)
(* wakes the task.                                                         *)
LEMMA MovedUnderLock ==
  ASSUME TypeOK, Locking, Homes, [Next]_vars, ~astray', NEW t \in Tasks, cpu'[t] # cpu[t]
  PROVE  \E c \in CPUs : \/ Holds(c, act[c], cpu[t]) /\ act[c].at \in {"pull", "set_task_cpu"}
                         \/ act[c].at = "select" /\ act[c].p = t
<1>0. ActsOK
  BY DEF Locking
<1>1. PICK c \in CPUs : Moved(c) \/ (\E d \in CPUs : SetTaskCpu(c, d)) \/ \E x \in Tasks : Pull(c, x)
  BY Steps DEF Calm, Wake, BeginWaking, Wakes, Activate, GoesToSleep, Dies, Deactivate, ContextSwitch,
               FinishTaskSwitch, Put, Pick, Watches, WatchSample, Samples, vars, task_vars
<1>2. CASE Moved(c)
  <2>1. act[c].at = "set_task_cpu" /\ cpu' = [cpu EXCEPT ![act[c].p] = act[c].to]
    BY <1>2 DEF Moved
  <2>2. cpu[act[c].p] \in {c, act[c].to}
    BY <1>2 DEF Moved
  <2>3. t = act[c].p /\ cpu[t] = c
    BY <2>1, <2>2 DEF TypeOK
  <2>. QED BY <2>1, <2>3 DEF Holds
<1>3. ASSUME NEW x \in Tasks, Pull(c, x) PROVE act[c].at = "pull" /\ cpu[t] = act[c].from
  BY <1>3 DEF Pull, OnRq, TypeOK
<1>4. ASSUME NEW d \in CPUs, SetTaskCpu(c, d) PROVE act[c].at = "select" /\ act[c].p = t
  BY <1>4 DEF SetTaskCpu, TypeOK
<1>. QED BY <1>1, <1>2, <1>3, <1>4 DEF Holds

(* Only the waker puts a task in TASK_WAKING, and takes it out again.      *)
LEMMA WakingChanges ==
  ASSUME TypeOK, Locking, Homes, [Next]_vars, NEW t \in Tasks, ~(state'[t] = "waking" <=> state[t] = "waking")
  PROVE  \E c \in CPUs : /\ act[c].p = t
                         /\ \/ BeginWaking(c) /\ state[t] = "sleeping"
                            \/ Activate(c) /\ state'[t] # "waking"
<1>1. ASSUME NEW c \in CPUs, Wake(c) \/ GoesToSleep(c) \/ Dies(c) PROVE FALSE
  BY <1>1 DEF Wake, GoesToSleep, Dies, TypeOK
<1>2. PICK c \in CPUs : BeginWaking(c) \/ Activate(c)
  BY <1>1, Steps DEF Calm, Deactivate, ContextSwitch, FinishTaskSwitch, Put, Moved, Pull, SetTaskCpu, Pick, Watches,
                     WatchSample, Samples, vars, task_vars
<1>3. CASE BeginWaking(c)
  BY <1>3 DEF BeginWaking, TypeOK
<1>4. CASE Activate(c)
  BY <1>4 DEF Activate, TypeOK
<1>. QED BY <1>2, <1>3, <1>4

(* What a step is to an actor: it stays as it is, has just been given a    *)
(* lock, or goes on without the lock of its task.                          *)
Stays(a) == act'[a] = act[a] /\ (a \in unpinned' <=> a \in unpinned)
Locked(a) ==
  /\ UNCHANGED <<cpu, state>> /\ act[a].at \notin {"wake", "sample"}
  /\ act'[a].at \in {"wake", "activate", "sample"} /\ act'[a].rq = cpu[act'[a].p]
  /\ Carries(act'[a]) => Carries(act[a]) /\ act'[a].p = act[a].p
  /\ a \in unpinned' <=> a \in unpinned \/ (state[act'[a].p] = "waking" /\ act'[a].at # "activate")
Leaves(a) ==
  /\ act'[a].at \notin {"wake", "activate", "sample"}
  /\ Carries(act'[a]) => /\ act'[a].p = act[a].p
                         /\ Carries(act[a]) \/ (a \in CPUs /\ BeginWaking(a))
  /\ a \in unpinned' => a \in unpinned /\ act[a].at \notin {"wake", "sample"}

LEMMA ActorSteps ==
  ASSUME TypeOK, Locking, Homes, [Next]_vars, NEW a \in Actors
  PROVE  Stays(a) \/ Locked(a) \/ Leaves(a)
<1>0. ActsOK /\ CPUs \subseteq Actors /\ Watchers \subseteq Actors
  BY DEF Locking, Actors
<1>1. ASSUME NEW b \in Actors, b # a, UNCHANGED unpinned \/ unpinned' \in {unpinned \ {b}, unpinned \cup {b}},
             \E r : act' = [act EXCEPT ![b] = r]
      PROVE  Stays(a)
  BY <1>1 DEF ActsOK, Stays
<1>2. ASSUME NEW c \in CPUs, Calm(c) PROVE Stays(a) \/ Locked(a) \/ Leaves(a)
  <2>1. PICK r \in Acts(c) :
          /\ act' = [act EXCEPT ![c] = r] /\ act[c].at # "wake"
          /\ (Carries(r) <=> Carries(act[c])) /\ (Carries(r) => r.p = act[c].p)
          /\ IF r.at \in {"wake", "activate"}
             THEN /\ r.rq = cpu[r.p]
                  /\ unpinned' = IF state[r.p] = "waking" /\ r.at # "activate" THEN unpinned \cup {c} ELSE unpinned
             ELSE UNCHANGED unpinned
    BY <1>2 DEF Calm
  <2>2. UNCHANGED <<cpu, state>> /\ r.at # "sample" /\ act[c].at # "sample"
    BY <1>0, <1>2 DEF Calm, task_vars, ActsOK, Acts, CpuActs, Free
  <2>3. CASE c = a
    <3>1. act'[a] = r
      BY <1>0, <2>1, <2>3 DEF ActsOK
    <3>2. CASE r.at \in {"wake", "activate"}
      BY <2>1, <2>2, <2>3, <3>1, <3>2 DEF Locked
    <3>3. CASE r.at \notin {"wake", "activate"}
      BY <2>1, <2>2, <2>3, <3>1, <3>3 DEF Leaves
    <3>. QED BY <3>2, <3>3
  <2>. QED BY <1>0, <1>1, <2>1, <2>3
<1>3. ASSUME NEW w \in Watchers, Watches(w) PROVE Stays(a) \/ Locked(a) \/ Leaves(a)
  <2>1. PICK r \in Acts(w) :
          /\ act' = [act EXCEPT ![w] = r] /\ act[w].at # "sample"
          /\ IF r.at = "sample"
             THEN r.rq = cpu[r.p] /\ unpinned' = IF state[r.p] = "waking" THEN unpinned \cup {w} ELSE unpinned
             ELSE UNCHANGED unpinned
    BY <1>3 DEF Watches
  <2>2. /\ UNCHANGED <<cpu, state>> /\ r.at \notin {"wake", "activate"} /\ act[w].at # "wake"
        /\ ~Carries(r)
    <3>1. w \notin CPUs /\ act[w] \in WatchActs /\ r \in WatchActs
      BY <1>0, WatchShapes DEF Acts
    <3>2. UNCHANGED <<cpu, state>>
      BY <1>3 DEF Watches, task_vars
    <3>. QED BY <3>1, <3>2 DEF WatchActs, Free, Carries
  <2>3. CASE w = a
    <3>1. act'[a] = r
      BY <1>0, <2>1, <2>3 DEF ActsOK
    <3>2. CASE r.at = "sample"
      BY <2>1, <2>2, <2>3, <3>1, <3>2 DEF Locked
    <3>3. CASE r.at # "sample"
      BY <2>1, <2>2, <2>3, <3>1, <3>3 DEF Leaves
    <3>. QED BY <3>2, <3>3
  <2>. QED BY <1>0, <1>1, <2>1, <2>3
<1>4. ASSUME NEW b \in Actors, NEW r, act' = [act EXCEPT ![b] = r], r.at \notin {"wake", "activate", "sample"},
             Carries(r) => r.p = act[b].p /\ (Carries(act[b]) \/ (b \in CPUs /\ BeginWaking(b))),
             unpinned' = unpinned \ {b} \/ (UNCHANGED unpinned /\ act[b].at \notin {"wake", "sample"})
      PROVE  Stays(a) \/ Leaves(a)
  <2>1. CASE b = a
    <3>1. act'[a] = r
      BY <1>0, <1>4, <2>1 DEF ActsOK
    <3>. QED BY <1>4, <2>1, <3>1 DEF Leaves
  <2>2. CASE b # a
    BY <1>1, <1>4, <2>2
  <2>. QED BY <2>1, <2>2
<1>5. ASSUME NEW w \in Watchers, WatchSample(w) PROVE Stays(a) \/ Leaves(a)
  <2>1. PICK r \in Acts(w) : act' = [act EXCEPT ![w] = r] /\ r.at \in {"free", "watch"}
    BY <1>0, <1>5, WatchSampleAct
  <2>2. unpinned' = unpinned \ {w} /\ w \in Actors
    BY <1>0, <1>5 DEF WatchSample, Samples
  <2>3. ~Carries(r) /\ r.at \notin {"wake", "activate", "sample"}
    BY <2>1 DEF Carries
  <2>. QED BY <1>4, <2>1, <2>2, <2>3, ZenonT(30)
<1>6. ASSUME NEW c \in CPUs, BeginWaking(c) PROVE Stays(a) \/ Leaves(a)
  <2>1. PICK r \in Acts(c) : act' = [act EXCEPT ![c] = r] /\ r.at = "select" /\ r.p = act[c].p
    BY <1>0, <1>6, BeginWakingAct
  <2>2. unpinned' = unpinned \ {c} /\ c \in Actors
    BY <1>0, <1>6 DEF BeginWaking, Wakes
  <2>3. r.at \notin {"wake", "activate", "sample"}
    BY <2>1
  <2>. QED BY <1>4, <1>6, <2>1, <2>2, <2>3, ZenonT(30)
<1>7. ASSUME NEW c \in CPUs, NEW d \in CPUs, SetTaskCpu(c, d) PROVE Stays(a) \/ Leaves(a)
  <2>1. act[c].at = "select" /\ UNCHANGED unpinned
    BY <1>7 DEF SetTaskCpu, pin_vars
  <2>2. PICK r \in Acts(c) : act' = [act EXCEPT ![c] = r] /\ r.at = "task_rq_lock" /\ r.p = act[c].p
    BY <1>0, <1>7, SetTaskCpuAct
  <2>. QED BY <1>0, <1>4, <2>1, <2>2 DEF Carries
<1>8. ASSUME NEW c \in CPUs, Wake(c) \/ Activate(c) \/ Moved(c) \/ Put(c) PROVE Stays(a) \/ Leaves(a)
  <2>1. act' = [act EXCEPT ![c] = Free] /\ Free.at = "free"
    BY <1>8 DEF Wake, Activate, Moved, Put, Free
  <2>2. CASE Wake(c)
    <3>1. unpinned' = unpinned \ {c}
      BY <2>2 DEF Wake, Wakes
    <3>. QED BY <1>0, <1>4, <2>1, <3>1 DEF Carries
  <2>3. CASE Activate(c) \/ Moved(c) \/ Put(c)
    <3>1. UNCHANGED unpinned /\ act[c].at \notin {"wake", "sample"}
      BY <2>3 DEF Activate, Moved, Put, pin_vars
    <3>. QED BY <1>0, <1>4, <2>1, <3>1 DEF Carries
  <2>. QED BY <1>8, <2>2, <2>3
<1>9. ASSUME NEW c \in CPUs, Deactivate(c) \/ ContextSwitch(c) \/ FinishTaskSwitch(c) \/ \E t \in Tasks : Pull(c, t)
      PROVE  Stays(a) \/ Leaves(a)
  <2>1. UNCHANGED unpinned /\ act[c].at \notin {"wake", "sample"}
    BY <1>9 DEF Deactivate, ContextSwitch, FinishTaskSwitch, Pull, pin_vars
  <2>2. PICK r : act' = [act EXCEPT ![c] = r] /\ r.at \in {"idle", "pick", "finish", "put"}
    <3>1. CASE FinishTaskSwitch(c)
      <4>. DEFINE r == [at |-> "put", prev |-> act[c].prev, mm |-> prev_mm[c],
                        dead |-> act[c].prev \in Tasks /\ state[act[c].prev] = "dead"]
      <4>1. act' = [act EXCEPT ![c] = r] /\ r.at = "put"
        BY <3>1 DEF FinishTaskSwitch
      <4>. QED BY <4>1
    <3>. QED BY <1>0, <1>9, <3>1, DeactivateAct, ContextSwitchAct, PulledAct
  <2>. QED BY <1>0, <1>4, <2>1, <2>2 DEF Carries
<1>10. ASSUME NEW c \in CPUs, NEW t \in Threads, Pick(c, t) PROVE Stays(a) \/ Leaves(a)
  <2>1. UNCHANGED unpinned /\ act[c].at = "pick"
    BY <1>10 DEF Pick, pin_vars
  <2>2. PICK r \in Acts(c) : act' = [act EXCEPT ![c] = r] /\ r.at \in {"free", "switch"}
    BY <1>0, <1>10, PickAct, ZenonT(30)
  <2>. QED BY <1>0, <1>4, <2>1, <2>2 DEF Carries
<1>11. ASSUME NEW c \in CPUs, GoesToSleep(c) \/ Dies(c) PROVE Stays(a)
  BY <1>11 DEF GoesToSleep, Dies, pin_vars, Stays
<1>12. CASE UNCHANGED vars
  BY <1>12 DEF vars, Stays
<1>. QED BY <1>2, <1>3, <1>5, <1>6, <1>7, <1>8, <1>9, <1>10, <1>11, <1>12, Steps

(* Who has locked the run queue of a task keeps the task there: others     *)
(* move it only with that lock, or have left it in TASK_WAKING before.     *)
LEMMA LockedStays ==
  TypeOK /\ Locking /\ Homes /\ Waking /\ LockedTaskStays /\ [Next]_vars /\ ~astray' => LockedTaskStays'
<1>. SUFFICES ASSUME TypeOK, Locking, Homes, Waking, LockedTaskStays, [Next]_vars, ~astray' PROVE LockedTaskStays'
  OBVIOUS
<1>0. ActsOK /\ Ordered /\ Locks /\ CPUs \subseteq Actors /\ Watchers \cap CPUs = {}
  BY RqAssumption DEF Locking, Actors
<1>1. Locks' /\ ActsOK'
  BY LockingInvariant DEF Locking
<1>. SUFFICES ASSUME NEW a \in Actors, act'[a].at \in {"wake", "activate", "sample"}
              PROVE  /\ lock'[act'[a].rq] = a
                     /\ a \notin unpinned' =>
                          /\ cpu'[act'[a].p] = act'[a].rq
                          /\ state'[act'[a].p] = "waking" <=> act'[a].at = "activate"
  BY DEF LockedTaskStays, Home
<1>2. act'[a].rq \in CPUs /\ act'[a].p \in Tasks /\ (act'[a].at \in {"wake", "activate"} => a \in CPUs)
  BY <1>1, RqAssumption DEF ActsOK, Acts, CpuActs, WatchActs, Free
<1>3. lock'[act'[a].rq] = a
  BY <1>1, <1>2 DEF Locks, Holds
<1>4. Carries(act'[a]) <=> act'[a].at = "activate"
  BY DEF Carries
<1>5. CASE Locked(a)
  <2>1. act'[a].at = "activate" => state[act'[a].p] = "waking"
    BY <1>2, <1>4, <1>5 DEF Locked, Waking
  <2>. QED BY <1>2, <1>3, <1>5, <2>1 DEF Locked
<1>6. ASSUME Stays(a), a \notin unpinned'
      PROVE  cpu'[act[a].p] = act[a].rq /\ (state'[act[a].p] = "waking" <=> act[a].at = "activate")
  <2>. DEFINE t == act[a].p
  <2>1. /\ act'[a] = act[a] /\ t \in Tasks /\ act[a].rq \in CPUs /\ act[a].at \in {"wake", "activate", "sample"}
        /\ lock[act[a].rq] = a /\ cpu[t] = act[a].rq /\ (state[t] = "waking" <=> act[a].at = "activate")
    BY <1>2, <1>6 DEF Stays, LockedTaskStays, Home
  <2>. HIDE DEF t
  <2>2. ASSUME NEW c \in CPUs, Carries(act[c]), act[c].p = t PROVE c = a /\ act[c].at = "activate"
    <3>1. act[a].at = "activate" /\ a \in CPUs
      BY <1>2, <2>1, <2>2 DEF Waking
    <3>. QED BY <2>2, <3>1 DEF Waking, Carries, t
  <2>3. cpu'[t] = cpu[t]
    <3>1. SUFFICES ASSUME cpu'[t] # cpu[t] PROVE FALSE
      OBVIOUS
    <3>2. PICK c \in CPUs : \/ Holds(c, act[c], cpu[t]) /\ act[c].at \in {"pull", "set_task_cpu"}
                            \/ act[c].at = "select" /\ act[c].p = t
      BY <2>1, <3>1, MovedUnderLock, ZenonT(30)
    <3>3. CASE Holds(c, act[c], cpu[t]) /\ act[c].at \in {"pull", "set_task_cpu"}
      BY <1>0, <2>1, <3>3 DEF Locks
    <3>4. CASE act[c].at = "select" /\ act[c].p = t
      BY <2>2, <3>4 DEF Carries
    <3>. QED BY <3>2, <3>3, <3>4
  <2>4. state'[t] = "waking" <=> state[t] = "waking"
    <3>1. SUFFICES ASSUME ~(state'[t] = "waking" <=> state[t] = "waking") PROVE FALSE
      OBVIOUS
    <3>2. PICK c \in CPUs : act[c].p = t /\ ((BeginWaking(c) /\ state[t] = "sleeping") \/ Activate(c))
      BY <2>1, <3>1, WakingChanges
    <3>3. CASE BeginWaking(c) /\ state[t] = "sleeping"
      <4>1. cpu[t] = act[c].rq
        BY <3>2, <3>3 DEF BeginWaking, Wakes, Home
      <4>2. act[c].at = "wake" /\ act[c].rq \in CPUs /\ \E r \in Acts(c) : act' = [act EXCEPT ![c] = r] /\ r.at = "select"
        BY <1>0, <3>3, BeginWakingAct
      <4>3. lock[act[c].rq] = c
        BY <1>0, <4>2 DEF Locks, Holds
      <4>4. act'[c].at = "select"
        BY <1>0, <4>2 DEF ActsOK
      <4>. QED BY <2>1, <4>1, <4>3, <4>4
    <3>4. CASE Activate(c)
      <4>1. act[c].at = "activate" /\ act' = [act EXCEPT ![c] = Free]
        BY <3>4 DEF Activate
      <4>2. act'[c].at = "free"
        BY <1>0, <4>1 DEF ActsOK, Free
      <4>3. c = a
        BY <2>2, <3>2, <4>1 DEF Carries
      <4>. QED BY <2>1, <4>2, <4>3
    <3>. QED BY <3>2, <3>3, <3>4
  <2>. QED BY <2>1, <2>3, <2>4 DEF t
<1>7. CASE Stays(a)
  <2>1. act'[a] = act[a]
    BY <1>7 DEF Stays
  <2>. QED BY <1>3, <1>6, <1>7, <2>1
<1>8. CASE Leaves(a)
  BY <1>8 DEF Leaves
<1>. QED BY <1>5, <1>7, <1>8, ActorSteps

(* What is put in TASK_WAKING has left every queue and stack, and stays    *)
(* off them until its waker activates it.                                  *)
LEMMA HasChanges ==
  ASSUME TypeOK, Locking, Homes, [Next]_vars, NEW t \in Tasks, NEW c \in CPUs, Has(c, t)', ~Has(c, t)
  PROVE  t \in queued
<1>0. ActsOK /\ AtHome(c) /\ CPUs \subseteq Actors
  BY DEF Locking, Homes, Actors
<1>. DEFINE Kept == /\ UNCHANGED <<curr, on>>
                    /\ act'[c] = act[c] \/ act'[c].at # "finish"
<1>1. ASSUME Kept PROVE FALSE
  BY <1>1 DEF Has
<1>. HIDE DEF Kept
<1>2. ASSUME NEW b \in CPUs, Calm(b) PROVE Kept
  BY <1>0, <1>2 DEF Calm, Kept, ActsOK
<1>3. ASSUME NEW b \in CPUs, \/ Wake(b) \/ BeginWaking(b) \/ Activate(b) \/ GoesToSleep(b) \/ Dies(b)
                             \/ FinishTaskSwitch(b) \/ Put(b) \/ Moved(b) \/ \E d \in CPUs : SetTaskCpu(b, d)
      PROVE  Kept
  BY <1>0, <1>3 DEF Wake, BeginWaking, Wakes, Activate, GoesToSleep, Dies, FinishTaskSwitch, Put, Moved, SetTaskCpu,
                    Kept, ActsOK, Free
<1>4. ASSUME NEW b \in CPUs, Deactivate(b) \/ \E x \in Tasks : Pull(b, x) PROVE Kept
  <2>1. UNCHANGED <<curr, on>>
    BY <1>4 DEF Deactivate, Pull
  <2>2. PICK r \in Acts(b) : act' = [act EXCEPT ![b] = r] /\ r.at # "finish"
    BY <1>0, <1>4, DeactivateAct, PulledAct
  <2>. QED BY <1>0, <2>1, <2>2 DEF Kept, ActsOK
<1>5. ASSUME NEW w \in Watchers, Watches(w) \/ WatchSample(w) PROVE Kept
  <2>1. UNCHANGED <<curr, on>>
    BY <1>5 DEF Watches, WatchSample, Samples
  <2>2. w # c /\ \E r : act' = [act EXCEPT ![w] = r]
    BY <1>0, <1>5, WatchSampleAct, RqAssumption DEF Watches
  <2>. QED BY <1>0, <2>1, <2>2 DEF Kept, ActsOK
<1>6. ASSUME UNCHANGED vars PROVE Kept
  BY <1>6 DEF vars, Kept
<1>7. ASSUME NEW b \in CPUs, ContextSwitch(b) PROVE FALSE
  <2>1. UNCHANGED curr /\ on' = [on EXCEPT ![b] = curr[b]] /\ act[b].at = "switch"
    BY <1>7 DEF ContextSwitch
  <2>2. PICK r \in Acts(b) : act' = [act EXCEPT ![b] = r] /\ r.at = "finish" /\ r.prev = act[b].prev
    BY <1>0, <1>7, ContextSwitchAct
  <2>3. CASE b = c
    <3>1. act'[c] = r /\ on'[c] = curr[c] /\ on[c] = act[c].prev
      BY <1>0, <2>1, <2>2, <2>3 DEF ActsOK, TypeOK, AtHome
    <3>. QED BY <2>1, <2>2, <2>3, <3>1 DEF Has
  <2>4. CASE b # c
    BY <1>0, <2>1, <2>2, <2>4 DEF ActsOK, TypeOK, Has
  <2>. QED BY <2>3, <2>4
<1>8. ASSUME NEW b \in CPUs, NEW next \in Threads, Pick(b, next) PROVE t \in queued
  <2>1. UNCHANGED on /\ act[b].at = "pick" /\ next \in {idle(b)} \cup queued
    BY <1>8 DEF Pick, OnRq
  <2>2. PICK r \in Acts(b) : /\ act' = [act EXCEPT ![b] = r] /\ r.at \in {"free", "switch"}
                             /\ UNCHANGED curr \/ curr' = [curr EXCEPT ![b] = next]
    BY <1>0, <1>8, PickAct, ZenonT(30)
  <2>3. act'[c] = act[c] \/ act'[c].at # "finish"
    BY <1>0, <2>2 DEF ActsOK
  <2>4. curr'[c] = t
    BY <2>1, <2>3 DEF Has
  <2>5. curr[c] # t
    BY DEF Has
  <2>6. t = next
    BY <2>2, <2>4, <2>5 DEF TypeOK
  <2>7. t # idle(b)
    BY ThreadsAssumption DEF Idles
  <2>. QED BY <2>1, <2>6, <2>7
<1>. QED BY <1>1, <1>2, <1>3, <1>4, <1>5, <1>6, <1>7, <1>8, Steps

LEMMA WakingStep ==
  TypeOK /\ Locking /\ Homes /\ Waking /\ Unpinned /\ [Next]_vars /\ ~astray' => Waking' /\ Unpinned'
<1>. SUFFICES ASSUME TypeOK, Locking, Homes, Waking, Unpinned, [Next]_vars, ~astray' PROVE Waking' /\ Unpinned'
  OBVIOUS
<1>0. ActsOK /\ Locks /\ CPUs \subseteq Actors
  BY DEF Locking, Actors
<1>1. ASSUME NEW c \in CPUs, BeginWaking(c)
      PROVE  /\ act[c].at = "wake" /\ act[c].p \in Tasks /\ act'[c].at = "select" /\ act'[c].p = act[c].p
             /\ \A d \in CPUs \ {c} : act'[d] = act[d]
             /\ state[act[c].p] = "sleeping" /\ state' = [state EXCEPT ![act[c].p] = "waking"]
             /\ UNCHANGED <<curr, on, queued>> /\ cpu[act[c].p] = act[c].rq /\ lock[act[c].rq] = c
             /\ ~StaysHere(c)
  <2>1. /\ act[c].at = "wake" /\ act[c].p \in Tasks /\ act[c].rq \in CPUs
        /\ \E r \in Acts(c) : act' = [act EXCEPT ![c] = r] /\ r.at = "select" /\ r.p = act[c].p
    BY <1>0, <1>1, BeginWakingAct
  <2>2. /\ state[act[c].p] = "sleeping" /\ state' = [state EXCEPT ![act[c].p] = "waking"]
        /\ UNCHANGED <<curr, on, queued>> /\ cpu[act[c].p] = act[c].rq /\ ~StaysHere(c)
    BY <1>1 DEF BeginWaking, Wakes, Home
  <2>3. lock[act[c].rq] = c
    BY <1>0, <2>1 DEF Locks, Holds
  <2>. QED BY <1>0, <2>1, <2>2, <2>3 DEF ActsOK
<1>2. ASSUME NEW c \in CPUs, Activate(c)
      PROVE  /\ Carries(act[c]) /\ state' = [state EXCEPT ![act[c].p] = "running"] /\ queued' = queued \cup {act[c].p}
             /\ ~Carries(act'[c])
  BY <1>0, <1>2 DEF Activate, Carries, ActsOK, Free
<1>3. ASSUME NEW t \in Tasks, state'[t] = "waking"
      PROVE  t \notin queued' /\ \A d \in CPUs : ~Has(d, t)'
  <2>1. CASE state[t] = "waking"
    <3>1. t \notin queued /\ \A d \in CPUs : ~Has(d, t)
      BY <2>1 DEF Waking
    <3>2. \A d \in CPUs : ~Has(d, t)'
      BY <3>1, HasChanges
    <3>3. ASSUME NEW c \in CPUs, Wake(c) PROVE t \notin queued'
      BY <2>1, <3>1, <3>3 DEF Wake
    <3>4. ASSUME NEW c \in CPUs, Activate(c) PROVE t \notin queued'
      BY <1>2, <1>3, <3>1, <3>4 DEF TypeOK
    <3>5. ASSUME NEW c \in CPUs, Deactivate(c) PROVE t \notin queued'
      BY <3>1, <3>5 DEF Deactivate
    <3>6. t \notin queued'
      BY <3>1, <3>3, <3>4, <3>5, Steps DEF Calm, BeginWaking, GoesToSleep, Dies, ContextSwitch, FinishTaskSwitch, Put,
           Moved, SetTaskCpu, Pull, Pick, Watches, WatchSample, Samples, vars, task_vars
    <3>. QED BY <3>2, <3>6
  <2>2. CASE state[t] # "waking"
    <3>1. PICK c \in CPUs : BeginWaking(c) /\ act[c].p = t
      BY <1>3, <2>2, WakingChanges
    <3>2. /\ act[c].at = "wake" /\ act'[c].at = "select" /\ (\A d \in CPUs \ {c} : act'[d] = act[d])
          /\ UNCHANGED <<curr, on, queued>> /\ cpu[t] = act[c].rq /\ lock[act[c].rq] = c
          /\ t \notin queued /\ curr[act[c].rq] # t
      BY <1>1, <3>1 DEF StaysHere
    <3>3. ASSUME NEW d \in CPUs, Has(d, t) PROVE d = c
      <4>1. AtHome(d)
        BY DEF Homes
      <4>2. cpu[t] = d
        BY <3>3, <4>1 DEF Has, AtHome
      <4>3. act[d].at \in {"switch", "finish"}
        BY <3>2, <3>3, <4>1, <4>2 DEF Has, AtHome
      <4>4. lock[d] = d
        BY <1>0, <4>3 DEF Locks, Holds
      <4>. QED BY <3>2, <4>2, <4>4
    <3>4. ~Has(c, t)
      <4>1. AtHome(c)
        BY DEF Homes
      <4>. QED BY <3>2, <4>1 DEF Has, AtHome
    <3>5. ASSUME NEW d \in CPUs PROVE ~Has(d, t)'
      BY <3>2, <3>3, <3>4 DEF Has
    <3>. QED BY <3>2, <3>5
  <2>. QED BY <2>1, <2>2
<1>4. ASSUME NEW c \in CPUs, Carries(act'[c])
      PROVE  /\ act'[c].p = act[c].p /\ act[c].p \in Tasks
             /\ Carries(act[c]) \/ BeginWaking(c)
  <2>1. act'[c].p = act[c].p /\ (Carries(act[c]) \/ BeginWaking(c))
    BY <1>0, <1>4, ActorSteps DEF Stays, Locked, Leaves
  <2>. QED BY <1>0, <1>1, <2>1, Shapes
<1>5. ASSUME NEW c \in CPUs, Carries(act'[c]) PROVE state'[act'[c].p] = "waking"
  <2>1. CASE BeginWaking(c)
    BY <1>1, <2>1 DEF TypeOK
  <2>2. CASE Carries(act[c])
    <3>1. state[act[c].p] = "waking"
      BY <2>2 DEF Waking
    <3>2. SUFFICES ASSUME state'[act[c].p] # "waking" PROVE FALSE
      BY <1>4, <1>5
    <3>3. PICK d \in CPUs : act[d].p = act[c].p /\ Activate(d)
      BY <1>4, <1>5, <3>1, <3>2, WakingChanges
    <3>4. d = c
      BY <1>2, <2>2, <3>3 DEF Waking
    <3>. QED BY <1>2, <1>5, <3>3, <3>4
  <2>. QED BY <1>4, <1>5, <2>1, <2>2
<1>6. ASSUME NEW c \in CPUs, NEW d \in CPUs, Carries(act'[c]), Carries(act'[d]), act'[c].p = act'[d].p PROVE c = d
  <2>1. act[c].p = act[d].p
    BY <1>4, <1>6
  <2>2. CASE Carries(act[c]) /\ Carries(act[d])
    BY <2>1, <2>2 DEF Waking
  <2>3. CASE BeginWaking(c)
    <3>1. state[act[d].p] = "sleeping" /\ \A b \in CPUs \ {c} : act'[b] = act[b]
      BY <1>1, <2>1, <2>3
    <3>2. ~Carries(act[d])
      BY <3>1 DEF Waking
    <3>. QED BY <1>6, <3>1, <3>2
  <2>4. CASE BeginWaking(d)
    <3>1. state[act[c].p] = "sleeping" /\ \A b \in CPUs \ {d} : act'[b] = act[b]
      BY <1>1, <2>1, <2>4
    <3>2. ~Carries(act[c])
      BY <3>1 DEF Waking
    <3>. QED BY <1>6, <3>1, <3>2
  <2>. QED BY <1>4, <1>6, <2>2, <2>3, <2>4
<1>7. Waking'
  BY <1>3, <1>5, <1>6 DEF Waking, Carries, Has
<1>8. ASSUME NEW a \in unpinned' PROVE act'[a].at \in {"wake", "sample"}
  <2>1. a \in Actors
    BY TypeStep, <1>0 DEF TypeOK
  <2>. QED BY <1>8, <2>1, ActorSteps DEF Stays, Locked, Leaves, Unpinned
<1>. QED BY <1>7, <1>8 DEF Unpinned

(* Whoever waits with a lock in its hand holds the lower one and waits for *)
(* the upper one.                                                          *)
LEMMA NoCycle == TypeOK /\ Locking => NoLockCycle
<1>. SUFFICES ASSUME TypeOK, Locking PROVE NoLockCycle
  OBVIOUS
<1>. DEFINE Wants(a) == IF act[a].at = "locking" THEN Head(act[a].locks)
                        ELSE IF act[a].at = "task_rq_lock" THEN act[a].rq ELSE None
<1>0. ActsOK /\ Ordered /\ Locks
  BY DEF Locking
<1>1. ASSUME NEW a \in Actors, NEW b \in Actors, Wants(a) # None, lock[Wants(b)] = a, Wants(b) # None
      PROVE  /\ a \in CPUs /\ Wants(b) \in CPUs /\ act[a].at = "locking" /\ Len(act[a].locks) = 1
             /\ Wants(b) = Lower(a, act[a])
  <2>1. Wants(b) \in CPUs
    <3>1. CASE b \in CPUs /\ act[b].at = "locking"
      <4>1. act[b].locks \in {<<Lower(b, act[b]), Upper(b, act[b])>>, <<Upper(b, act[b])>>}
        BY <1>0, <3>1 DEF Ordered, InOrder
      <4>2. Lower(b, act[b]) \in CPUs /\ Upper(b, act[b]) \in CPUs
        BY <1>0, <3>1, Shapes DEF Lower, Upper, Other
      <4>. QED BY <3>1, <4>1, <4>2
    <3>2. CASE act[b].at = "task_rq_lock"
      BY <1>0, <3>2 DEF ActsOK, Acts, CpuActs, WatchActs, Free
    <3>3. CASE b \notin CPUs /\ act[b].at = "locking"
      BY <1>0, <3>3 DEF ActsOK, Acts, WatchActs, Free
    <3>. QED BY <1>1, <3>1, <3>2, <3>3
  <2>2. Holds(a, act[a], Wants(b))
    BY <1>0, <1>1, <2>1 DEF Locks
  <2>3. act[a].at \in {"locking", "task_rq_lock"}
    BY <1>1
  <2>. HIDE DEF Wants
  <2>4. act[a].at = "locking" /\ Len(act[a].locks) = 1 /\ Wants(b) = Lower(a, act[a])
    BY <2>2, <2>3 DEF Holds
  <2>5. a \in CPUs
    BY <1>0, <2>4 DEF ActsOK, Acts, WatchActs, Free
  <2>. QED BY <2>1, <2>4, <2>5
<1>2. ASSUME NEW a \in CPUs, act[a].at = "locking", Len(act[a].locks) = 1
      PROVE  Wants(a) = Upper(a, act[a]) /\ Lower(a, act[a]) < Upper(a, act[a])
  <2>1. act[a].locks \in {<<Lower(a, act[a]), Upper(a, act[a])>>, <<Upper(a, act[a])>>} /\ Other(act[a]) # a
    BY <1>0, <1>2 DEF Ordered, InOrder
  <2>2. Other(act[a]) \in CPUs
    BY <1>0, <1>2, Shapes DEF Other
  <2>3. Lower(a, act[a]) < Upper(a, act[a])
    <3>1. a \in Nat /\ Other(act[a]) \in Nat
      BY <2>2, RqAssumption
    <3>. QED BY <2>1, <3>1 DEF Lower, Upper
  <2>4. act[a].locks = <<Upper(a, act[a])>>
    BY <1>2, <2>1
  <2>. QED BY <1>2, <2>3, <2>4
<1>. SUFFICES ASSUME NEW a \in Actors, NEW b \in Actors, Wants(a) # None, Wants(b) # None,
                     lock[Wants(a)] = b, lock[Wants(b)] = a
              PROVE  FALSE
  BY Zenon DEF NoLockCycle
<1>. HIDE DEF Wants
<1>3. a \in CPUs /\ act[a].at = "locking" /\ Len(act[a].locks) = 1 /\ Wants(b) = Lower(a, act[a]) /\ Wants(b) \in CPUs
  BY <1>1
<1>4. b \in CPUs /\ act[b].at = "locking" /\ Len(act[b].locks) = 1 /\ Wants(a) = Lower(b, act[b]) /\ Wants(a) \in CPUs
  BY <1>1
<1>5. Wants(a) = Upper(a, act[a]) /\ Wants(b) < Wants(a)
  BY <1>2, <1>3
<1>6. Wants(b) = Upper(b, act[b]) /\ Wants(a) < Wants(b)
  BY <1>2, <1>4
<1>7. Wants(a) \in Nat /\ Wants(b) \in Nat
  BY <1>3, <1>4, RqAssumption
<1>. QED BY <1>5, <1>6, <1>7

-----------------------------------------------------------------------------
LEMMA Disjoint ==
  /\ \A c, d \in CPUs : idle(c) = idle(d) => c = d
  /\ \A c \in CPUs : idle(c) \in Idles /\ idle(c) \notin Tasks /\ idle(c) # None
  /\ None \notin Threads /\ None \notin MMs /\ WithMm \subseteq Threads /\ WithMm \subseteq MMs
BY RqAssumption, ThreadsAssumption DEF idle, Idles, Threads, MMs

(* A processor whose threads, and what it does, stay as they are.          *)
LEMMA AtHomeKept ==
  ASSUME NEW c \in CPUs, AtHome(c), curr'[c] = curr[c], on'[c] = on[c], act'[c] = act[c],
         \A t \in Tasks : cpu'[t] # cpu[t] => curr[c] # t /\ on[c] # t /\ ~(act[c].at = "finish" /\ act[c].prev = t)
  PROVE  AtHome(c)'
BY DEF AtHome, idle, InSchedule, Moves

LEMMA HomesStep == TypeOK /\ Locking /\ Homes /\ Waking /\ [Next]_vars /\ ~astray' => Homes'
<1>. SUFFICES ASSUME TypeOK, Locking, Homes, Waking, [Next]_vars, ~astray', NEW c \in CPUs PROVE AtHome(c)'
  BY DEF Homes
<1>0. ActsOK /\ Ordered /\ Locks /\ CPUs \subseteq Actors /\ Watchers \cap CPUs = {} /\ Watchers \subseteq Actors /\ AtHome(c)
  BY RqAssumption DEF Locking, Actors, Homes
<1>1. ASSUME NEW b \in CPUs, Calm(b) PROVE AtHome(c)'
  <2>1. UNCHANGED <<curr, on, cpu>>
    BY <1>1 DEF Calm, task_vars
  <2>2. PICK r \in Acts(b) :
       /\ act' = [act EXCEPT ![b] = r]
       /\ r.at \notin {"switch", "finish", "put"} /\ act[b].at \notin {"switch", "finish", "put"}
       /\ \/ Decided(act[b]) /\ Decided(r) /\ r.prev = act[b].prev /\ ~Moves(r)
          \/ ~InSchedule(r) /\ (Moves(r) => r.p # curr[b])
          \/ r.at = "schedule" /\ r.prev = curr[b]
    BY <1>1 DEF Calm
  <2>3. CASE b = c
    <3>1. act'[c] = r
      BY <1>0, <2>2, <2>3 DEF ActsOK
    <3>. QED BY <1>0, <2>1, <2>2, <2>3, <3>1 DEF AtHome, idle, InSchedule, Moves, Decided
  <2>4. CASE b # c
    <3>1. act'[c] = act[c]
      BY <1>0, <2>2, <2>4 DEF ActsOK
    <3>. QED BY <1>0, <2>1, <3>1, AtHomeKept
  <2>. QED BY <2>3, <2>4
<1>2. ASSUME NEW b \in CPUs, \/ Wake(b) \/ BeginWaking(b) \/ Activate(b) \/ GoesToSleep(b) \/ Dies(b)
                             \/ FinishTaskSwitch(b) \/ Put(b)
      PROVE  AtHome(c)'
  <2>1. UNCHANGED <<curr, on, cpu>>
    BY <1>2 DEF Wake, BeginWaking, Wakes, Activate, GoesToSleep, Dies, FinishTaskSwitch, Put, task_vars
  <2>2. \/ act'[c] = act[c]
        \/ /\ b = c /\ act'[c].at \in {"free", "put", "select"}
           /\ act[c].at \in {"wake", "activate", "finish", "put"}
    BY <1>0, <1>2 DEF Wake, BeginWaking, Wakes, Activate, GoesToSleep, Dies, FinishTaskSwitch, Put, Free, ActsOK
  <2>. QED BY <1>0, <2>1, <2>2, AtHomeKept DEF AtHome, idle, InSchedule, Moves
<1>3. ASSUME NEW b \in CPUs, Deactivate(b) PROVE AtHome(c)'
  <2>1. UNCHANGED <<curr, on, cpu>> /\ act[b].at = "schedule"
    BY <1>3 DEF Deactivate
  <2>2. PICK r \in Acts(b) : act' = [act EXCEPT ![b] = r] /\ r.at \in {"idle", "pick"} /\ r.prev = act[b].prev
    BY <1>0, <1>3, DeactivateAct
  <2>3. act'[c] = IF b = c THEN r ELSE act[c]
    BY <1>0, <2>2 DEF ActsOK
  <2>. QED BY <1>0, <2>1, <2>2, <2>3, AtHomeKept DEF AtHome, idle, InSchedule, Moves
<1>4. ASSUME NEW b \in CPUs, ContextSwitch(b) PROVE AtHome(c)'
  <2>1. UNCHANGED <<curr, cpu>> /\ on' = [on EXCEPT ![b] = curr[b]] /\ act[b].at = "switch"
    BY <1>4 DEF ContextSwitch, task_vars
  <2>2. PICK r \in Acts(b) : act' = [act EXCEPT ![b] = r] /\ r.at = "finish" /\ r.prev = act[b].prev
    BY <1>0, <1>4, ContextSwitchAct
  <2>3. CASE b = c
    <3>1. act'[c] = r /\ on'[c] = curr[c]
      BY <1>0, <2>1, <2>2, <2>3 DEF ActsOK, TypeOK
    <3>. QED BY <1>0, <2>1, <2>2, <2>3, <3>1 DEF AtHome, idle, InSchedule, Moves
  <2>4. CASE b # c
    <3>1. act'[c] = act[c] /\ on'[c] = on[c]
      BY <1>0, <2>1, <2>2, <2>4 DEF ActsOK, TypeOK
    <3>. QED BY <1>0, <2>1, <3>1, AtHomeKept
  <2>. QED BY <2>3, <2>4
<1>5. ASSUME NEW b \in CPUs, NEW next \in Threads, Pick(b, next) PROVE AtHome(c)'
  <2>1. /\ UNCHANGED <<on, cpu>> /\ act[b].at = "pick" /\ next \in {idle(b)} \cup Tasks
        /\ next \in Tasks => cpu[next] = b
    BY <1>5, Disjoint DEF Pick, OnRq, TypeOK
  <2>2. PICK r \in Acts(b) : /\ act' = [act EXCEPT ![b] = r]
           /\ \/ r.at = "free" /\ UNCHANGED curr
              \/ /\ next # act[b].prev /\ r.at = "switch" /\ r.prev = act[b].prev
                 /\ curr' = [curr EXCEPT ![b] = next]
    BY <1>0, <1>5, PickAct, ZenonT(30)
  <2>3. CASE b = c
    <3>1. act'[c] = r
      BY <1>0, <2>2, <2>3 DEF ActsOK
    <3>2. CASE r.at = "free" /\ UNCHANGED curr
      BY <1>0, <2>1, <2>3, <3>1, <3>2 DEF AtHome, idle, InSchedule, Moves
    <3>3. CASE next # act[b].prev /\ r.at = "switch" /\ r.prev = act[b].prev /\ curr' = [curr EXCEPT ![b] = next]
      <4>1. curr'[c] = next
        BY <2>3, <3>3 DEF TypeOK
      <4>. QED BY <1>0, <2>1, <2>3, <3>1, <3>3, <4>1 DEF AtHome, idle, InSchedule, Moves
    <3>. QED BY <2>2, <3>2, <3>3
  <2>4. CASE b # c
    <3>1. act'[c] = act[c] /\ curr'[c] = curr[c]
      BY <1>0, <2>2, <2>4 DEF ActsOK, TypeOK
    <3>. QED BY <1>0, <2>1, <3>1, AtHomeKept
  <2>. QED BY <2>3, <2>4
<1>6. ASSUME NEW b \in CPUs, NEW t \in Tasks, Pull(b, t) PROVE AtHome(c)'
  <2>1. /\ UNCHANGED <<curr, on>> /\ act[b].at = "pull" /\ cpu[t] = act[b].from /\ act[b].from \in CPUs
        /\ curr[act[b].from] # t /\ act[b].from # b
        /\ cpu' = [cpu EXCEPT ![t] = b]
    BY <1>0, <1>6, PulledAct DEF Pull, OnRq, Running, Ordered, InOrder
  <2>2. PICK r \in Acts(b) : act' = [act EXCEPT ![b] = r] /\ r.at = "pick" /\ r.prev = act[b].prev
    BY <1>0, <1>6, PulledAct
  <2>3. act'[c] = IF b = c THEN r ELSE act[c]
    BY <1>0, <2>2 DEF ActsOK
  <2>4. act[act[b].from].at \notin {"switch", "finish"}
    BY <1>0, <2>1 DEF Locks, Holds
  <2>5. curr[c] # t /\ on[c] # t /\ ~(act[c].at = "finish" /\ act[c].prev = t)
    BY <1>0, <2>1, <2>4 DEF AtHome
  <2>6. \A x \in Tasks : x # t => cpu'[x] = cpu[x]
    BY <2>1 DEF TypeOK
  <2>7. CASE b # c
    BY <1>0, <2>1, <2>3, <2>5, <2>6, <2>7, AtHomeKept
  <2>8. CASE b = c
    BY <1>0, <2>1, <2>2, <2>3, <2>5, <2>6, <2>8 DEF AtHome, idle, InSchedule, Moves
  <2>. QED BY <2>7, <2>8
<1>7. ASSUME NEW b \in CPUs, Moved(b) PROVE AtHome(c)'
  <2>1. /\ UNCHANGED <<curr, on>> /\ act[b].at = "set_task_cpu" /\ act' = [act EXCEPT ![b] = Free]
        /\ cpu' = [cpu EXCEPT ![act[b].p] = act[b].to] /\ cpu[act[b].p] \in {b, act[b].to}
    BY <1>7 DEF Moved
  <2>2. act'[c] = IF b = c THEN Free ELSE act[c]
    BY <1>0, <2>1 DEF ActsOK
  <2>3. AtHome(b) /\ act[b].p # curr[b]
    BY <2>1 DEF Homes, AtHome, Moves
  <2>4. \A t \in Tasks : cpu'[t] # cpu[t] => t = act[b].p /\ cpu[t] = b
    BY <2>1 DEF TypeOK
  <2>5. \A t \in Tasks : cpu'[t] # cpu[t] => curr[c] # t /\ on[c] # t /\ ~(act[c].at = "finish" /\ act[c].prev = t)
    BY <1>0, <2>1, <2>3, <2>4 DEF AtHome
  <2>6. CASE b # c
    BY <1>0, <2>1, <2>2, <2>5, <2>6, AtHomeKept
  <2>7. CASE b = c
    BY <1>0, <2>1, <2>2, <2>5, <2>7 DEF AtHome, idle, InSchedule, Moves, Free
  <2>. QED BY <2>6, <2>7
<1>10. ASSUME NEW b \in CPUs, NEW d \in CPUs, SetTaskCpu(b, d) PROVE AtHome(c)'
  <2>1. UNCHANGED <<curr, on>> /\ cpu' = [cpu EXCEPT ![act[b].p] = d]
    BY <1>10 DEF SetTaskCpu
  <2>2. PICK r \in Acts(b) : act' = [act EXCEPT ![b] = r] /\ r.at = "task_rq_lock" /\ r.then = "activate"
    BY <1>0, <1>10, SetTaskCpuAct
  <2>3. act[b].at = "select" /\ act[b].p \in Tasks /\ act'[c] = IF b = c THEN r ELSE act[c]
    BY <1>0, <1>10, <2>2, SetTaskCpuAct DEF ActsOK
  <2>4. ~Has(c, act[b].p)
    BY <2>3 DEF Waking, Carries
  <2>5. \A t \in Tasks : cpu'[t] # cpu[t] => curr[c] # t /\ on[c] # t /\ ~(act[c].at = "finish" /\ act[c].prev = t)
    BY <2>1, <2>4 DEF TypeOK, Has
  <2>6. CASE b # c
    BY <1>0, <2>1, <2>3, <2>5, <2>6, AtHomeKept
  <2>7. CASE b = c
    BY <1>0, <2>1, <2>2, <2>3, <2>5, <2>7 DEF AtHome, idle, InSchedule, Moves
  <2>. QED BY <2>6, <2>7
<1>8. ASSUME NEW w \in Watchers, Watches(w) \/ WatchSample(w) PROVE AtHome(c)'
  <2>1. UNCHANGED <<curr, on, cpu>>
    BY <1>8 DEF Watches, WatchSample, Samples, task_vars
  <2>2. \E r : act' = [act EXCEPT ![w] = r]
    BY <1>0, <1>8, WatchSampleAct DEF Watches
  <2>3. act'[c] = act[c]
    BY <1>0, <2>2 DEF ActsOK
  <2>. QED BY <1>0, <2>1, <2>3, AtHomeKept
<1>9. CASE UNCHANGED vars
  BY <1>0, <1>9 DEF vars, AtHome, idle, InSchedule, Moves
<1>. QED BY <1>1, <1>2, <1>3, <1>4, <1>5, <1>6, <1>7, <1>8, <1>9, <1>10, Steps

-----------------------------------------------------------------------------
(* A step that neither kills, drops, switches nor deactivates.             *)
LEMMA DeadKept ==
  ASSUME Dead, UNCHANGED <<curr, on, dropped>>,
         \A t \in Tasks : (state'[t] = "dead" <=> state[t] = "dead") /\ (state[t] = "dead" /\ t \in queued' => t \in queued),
         \A c \in CPUs : \/ act'[c] = act[c]
                         \/ /\ act[c].at \notin {"switch", "finish", "put"} /\ act'[c].at \notin {"switch", "finish", "put"}
                            /\ Decided(act'[c]) => Decided(act[c])
  PROVE  Dead'
<1>1. \A c \in CPUs, t \in Tasks : Last(c, t)' <=> Last(c, t)
  BY DEF Last
<1>2. \A t \in Tasks : state'[t] # "dead" => dropped'[t] = 0
  BY DEF Dead
<1>3. ASSUME NEW t \in Tasks, state'[t] = "dead", t \in queued'
      PROVE  \E c \in CPUs : curr'[c] = t /\ ~Decided(act'[c])
  <2>1. PICK c \in CPUs : curr[c] = t /\ ~Decided(act[c])
    BY <1>3 DEF Dead
  <2>2. ~Decided(act'[c])
    BY <2>1 DEF Decided, InSchedule
  <2>. QED BY <2>1, <2>2
<1>4. ASSUME NEW t \in Tasks, state'[t] = "dead"
      PROVE  /\ \A c, d \in CPUs : Last(c, t)' /\ Last(d, t)' => c = d
             /\ \/ dropped'[t] = 0
                \/ dropped'[t] = 1 /\ \A c \in CPUs : ~Last(c, t)'
  BY <1>1, <1>4 DEF Dead
<1>5. ASSUME NEW c \in CPUs
      PROVE  /\ act'[c].at = "switch" /\ curr'[c] \in Tasks => state'[curr'[c]] # "dead"
             /\ act'[c].at = "put" /\ act'[c].dead =>
                  act'[c].prev \in Tasks /\ state'[act'[c].prev] = "dead" /\ on'[c] # act'[c].prev
  BY DEF Dead
<1>. QED BY <1>2, <1>3, <1>4, <1>5 DEF Dead, Decided, InSchedule, Last

LEMMA DeadStep == TypeOK /\ Locking /\ Homes /\ Waking /\ Dead /\ [Next]_vars => Dead'
<1>. SUFFICES ASSUME TypeOK, Locking, Homes, Waking, Dead, [Next]_vars PROVE Dead'
  OBVIOUS
<1>0. ActsOK /\ CPUs \subseteq Actors /\ Watchers \cap CPUs = {} /\ Watchers \subseteq Actors
      /\ (\A c \in CPUs : AtHome(c))
  BY RqAssumption DEF Locking, Actors, Homes
<1>1. ASSUME NEW c \in CPUs, Calm(c) PROVE Dead'
  <2>1. UNCHANGED <<curr, on, dropped, state, queued>>
    BY <1>1 DEF Calm, task_vars
  <2>2. PICK r \in Acts(c) :
       /\ act' = [act EXCEPT ![c] = r]
       /\ r.at \notin {"switch", "finish", "put"} /\ act[c].at \notin {"switch", "finish", "put"}
       /\ Decided(r) => Decided(act[c])
    BY <1>1 DEF Calm, Decided, InSchedule
  <2>3. act'[c] = r /\ \A d \in CPUs : d # c => act'[d] = act[d]
    BY <1>0, <2>2 DEF ActsOK
  <2>4. \A d \in CPUs : \/ act'[d] = act[d]
                        \/ /\ act[d].at \notin {"switch", "finish", "put"} /\ act'[d].at \notin {"switch", "finish", "put"}
                           /\ Decided(act'[d]) => Decided(act[d])
    BY <2>2, <2>3 DEF Decided, InSchedule
  <2>. QED BY <2>1, <2>4, DeadKept
<1>2. ASSUME NEW c \in CPUs, Wake(c) \/ BeginWaking(c) \/ Activate(c) PROVE Dead'
  <2>1. UNCHANGED <<curr, on, dropped>> /\ act[c].p \in Tasks /\ act[c].at \in {"wake", "activate"}
    BY <1>0, <1>2, Shapes DEF Wake, BeginWaking, Wakes, Activate
  <2>4. Activate(c) => state[act[c].p] = "waking"
    BY DEF Activate, Waking, Carries
  <2>2. \A t \in Tasks : (state'[t] = "dead" <=> state[t] = "dead") /\ (state[t] = "dead" /\ t \in queued' => t \in queued)
    BY <1>2, <2>1, <2>4 DEF Wake, BeginWaking, Activate, TypeOK
  <2>3. \A d \in CPUs : \/ act'[d] = act[d]
                        \/ /\ act[d].at \notin {"switch", "finish", "put"} /\ act'[d].at \notin {"switch", "finish", "put"}
                           /\ Decided(act'[d]) => Decided(act[d])
    BY <1>0, <1>2 DEF Wake, BeginWaking, Wakes, Activate, ActsOK, Free, Decided, InSchedule
  <2>. QED BY <2>1, <2>2, <2>3, DeadKept
<1>3. ASSUME NEW c \in CPUs, GoesToSleep(c) PROVE Dead'
  <2>1. UNCHANGED <<curr, on, dropped, act>>
    BY <1>3 DEF GoesToSleep
  <2>2. \A t \in Tasks : (state'[t] = "dead" <=> state[t] = "dead") /\ (state[t] = "dead" /\ t \in queued' => t \in queued)
    BY <1>3 DEF GoesToSleep, TypeOK
  <2>. QED BY <2>1, <2>2, DeadKept
<1>4. ASSUME NEW c \in CPUs, Moved(c) \/ (\E d \in CPUs : SetTaskCpu(c, d)) \/ \E t \in Tasks : Pull(c, t)
      PROVE  Dead'
  <2>1. UNCHANGED <<curr, on, dropped, state, queued>>
    BY <1>4 DEF Moved, SetTaskCpu, Pull
  <2>2. \A d \in CPUs : \/ act'[d] = act[d]
                        \/ /\ act[d].at \notin {"switch", "finish", "put"} /\ act'[d].at \notin {"switch", "finish", "put"}
                           /\ Decided(act'[d]) => Decided(act[d])
    <3>1. CASE Moved(c)
      BY <1>0, <3>1 DEF Moved, ActsOK, Free, Decided, InSchedule
    <3>2. CASE \E t \in Tasks : Pull(c, t)
      BY <1>0, <3>2 DEF Pull, ActsOK, Decided, InSchedule
    <3>3. CASE \E d \in CPUs : SetTaskCpu(c, d)
      BY <1>0, <3>3 DEF SetTaskCpu, ActsOK, Decided, InSchedule
    <3>. QED BY <1>4, <3>1, <3>2, <3>3
  <2>. QED BY <2>1, <2>2, DeadKept
<1>5. ASSUME NEW w \in Watchers, Watches(w) \/ WatchSample(w) PROVE Dead'
  <2>1. UNCHANGED <<curr, on, dropped, state, queued>>
    BY <1>5 DEF Watches, WatchSample, Samples, task_vars
  <2>2. \E r : act' = [act EXCEPT ![w] = r]
    BY <1>0, <1>5, WatchSampleAct DEF Watches
  <2>3. \A d \in CPUs : act'[d] = act[d]
    BY <1>0, <2>2 DEF ActsOK
  <2>. QED BY <2>1, <2>3, DeadKept
<1>6. ASSUME NEW c \in CPUs, Dies(c) PROVE Dead'
  <2>. DEFINE v == on[c]
  <2>1. /\ UNCHANGED <<curr, on, dropped, queued, act>> /\ v \in Tasks /\ state[v] = "running"
        /\ act[c].at = "free" /\ state' = [state EXCEPT ![v] = "dead"]
    BY <1>6 DEF Dies, Free
  <2>2. state'[v] = "dead" /\ \A t \in Tasks : t # v => state'[t] = state[t]
    BY <2>1 DEF TypeOK
  <2>3. \A d \in CPUs, t \in Tasks : Last(d, t)' <=> Last(d, t)
    BY <2>1 DEF Last
  <2>4. curr[c] = v /\ cpu[v] = c
    BY <1>0, <2>1 DEF AtHome
  <2>5. dropped[v] = 0 /\ \A d \in CPUs : Last(d, v) => d = c
    BY <1>0, <2>1, <2>4 DEF Dead, AtHome, Last
  <2>6. ~Decided(act[c])
    BY <2>1 DEF Decided, InSchedule
  <2>7. \A d \in CPUs : act[d].at = "switch" => curr[d] # v
    BY <1>0, <2>1, <2>4 DEF AtHome
  <2>8. \A t \in Tasks : state'[t] # "dead" => dropped'[t] = 0
    BY <2>1, <2>2 DEF Dead
  <2>9. ASSUME NEW t \in Tasks, state'[t] = "dead"
        PROVE  /\ t \in queued' => \E d \in CPUs : curr'[d] = t /\ ~Decided(act'[d])
               /\ \A d, e \in CPUs : Last(d, t)' /\ Last(e, t)' => d = e
               /\ \/ dropped'[t] = 0
                  \/ dropped'[t] = 1 /\ \A d \in CPUs : ~Last(d, t)'
    <3>1. CASE t = v
      BY <2>1, <2>3, <2>4, <2>5, <2>6, <3>1
    <3>2. CASE t # v
      BY <2>1, <2>2, <2>3, <2>9, <3>2 DEF Dead
    <3>. QED BY <3>1, <3>2
  <2>10. ASSUME NEW d \in CPUs
         PROVE  /\ act'[d].at = "switch" /\ curr'[d] \in Tasks => state'[curr'[d]] # "dead"
                /\ act'[d].at = "put" /\ act'[d].dead =>
                     act'[d].prev \in Tasks /\ state'[act'[d].prev] = "dead" /\ on'[d] # act'[d].prev
    BY <2>1, <2>2, <2>7 DEF Dead
  <2>. QED BY <2>8, <2>9, <2>10 DEF Dead, Decided, InSchedule, Last
<1>7. ASSUME NEW c \in CPUs, Deactivate(c) PROVE Dead'
  <2>1. UNCHANGED <<curr, on, dropped, state>> /\ act[c].at = "schedule"
    BY <1>7 DEF Deactivate
  <2>2. PICK r \in Acts(c) : /\ act' = [act EXCEPT ![c] = r] /\ r.at \in {"idle", "pick"}
                             /\ r.prev = act[c].prev
                             /\ r.off <=> (r.prev \in Tasks /\ state[r.prev] # "running")
                             /\ queued' = IF r.off THEN queued \ {r.prev} ELSE queued
    BY <1>0, <1>7, DeactivateAct
  <2>3. act'[c] = r /\ \A d \in CPUs : d # c => act'[d] = act[d]
    BY <1>0, <2>2 DEF ActsOK
  <2>4. act[c].prev = curr[c]
    BY <1>0, <2>1 DEF AtHome, InSchedule
  <2>5. \A d \in CPUs, t \in Tasks : Last(d, t)' <=> Last(d, t)
    BY <2>1, <2>2, <2>3 DEF Last
  <2>6. ASSUME NEW t \in Tasks, state[t] = "dead", t \in queued'
        PROVE  \E d \in CPUs : curr'[d] = t /\ ~Decided(act'[d])
    <3>1. PICK d \in CPUs : curr[d] = t /\ ~Decided(act[d])
      BY <2>2, <2>6 DEF Dead
    <3>2. d # c
      BY <2>2, <2>4, <2>6, <3>1
    <3>. QED BY <2>1, <2>3, <3>1, <3>2
  <2>7. ASSUME NEW d \in CPUs
        PROVE  /\ act'[d].at = "switch" /\ curr'[d] \in Tasks => state'[curr'[d]] # "dead"
               /\ act'[d].at = "put" /\ act'[d].dead =>
                    act'[d].prev \in Tasks /\ state'[act'[d].prev] = "dead" /\ on'[d] # act'[d].prev
    BY <2>1, <2>2, <2>3 DEF Dead
  <2>. QED BY <2>1, <2>5, <2>6, <2>7 DEF Dead, Decided, InSchedule, Last
<1>8. ASSUME NEW c \in CPUs, NEW next \in Threads, Pick(c, next) PROVE Dead'
  <2>1. /\ UNCHANGED <<on, dropped, state, queued>> /\ act[c].at = "pick"
        /\ next \in Tasks => next \in queued /\ cpu[next] = c
    BY <1>8, Disjoint DEF Pick, OnRq
  <2>2. PICK r \in Acts(c) : /\ act' = [act EXCEPT ![c] = r]
           /\ \/ r.at = "free" /\ UNCHANGED curr
              \/ r.at = "switch" /\ curr' = [curr EXCEPT ![c] = next]
    BY <1>0, <1>8, PickAct, ZenonT(30)
  <2>3. act'[c] = r /\ \A d \in CPUs : d # c => act'[d] = act[d] /\ curr'[d] = curr[d]
    BY <1>0, <2>2 DEF ActsOK, TypeOK
  <2>4. r.at = "switch" => curr'[c] = next
    BY <2>2 DEF TypeOK
  <2>5. Decided(act[c])
    BY <2>1 DEF Decided, InSchedule
  <2>6. next \in Tasks => state[next] # "dead"
    BY <1>0, <2>1, <2>5 DEF Dead, AtHome
  <2>7. \A d \in CPUs, t \in Tasks : Last(d, t)' <=> Last(d, t)
    BY <2>1, <2>2, <2>3 DEF Last
  <2>8. ASSUME NEW t \in Tasks, state[t] = "dead", t \in queued
        PROVE  \E d \in CPUs : curr'[d] = t /\ ~Decided(act'[d])
    BY <2>3, <2>5, <2>8 DEF Dead
  <2>9. ASSUME NEW d \in CPUs
        PROVE  /\ act'[d].at = "switch" /\ curr'[d] \in Tasks => state'[curr'[d]] # "dead"
               /\ act'[d].at = "put" /\ act'[d].dead =>
                    act'[d].prev \in Tasks /\ state'[act'[d].prev] = "dead" /\ on'[d] # act'[d].prev
    BY <2>1, <2>2, <2>3, <2>4, <2>6 DEF Dead
  <2>. QED BY <2>1, <2>7, <2>8, <2>9 DEF Dead, Decided, InSchedule, Last
<1>9. ASSUME NEW c \in CPUs, ContextSwitch(c) PROVE Dead'
  <2>1. UNCHANGED <<curr, dropped, state, queued>> /\ on' = [on EXCEPT ![c] = curr[c]] /\ act[c].at = "switch"
    BY <1>9 DEF ContextSwitch, task_vars
  <2>2. PICK r \in Acts(c) : act' = [act EXCEPT ![c] = r] /\ r.at = "finish" /\ r.prev = act[c].prev
    BY <1>0, <1>9, ContextSwitchAct
  <2>3. /\ act'[c] = r /\ on'[c] = curr[c]
        /\ \A d \in CPUs : d # c => act'[d] = act[d] /\ on'[d] = on[d]
    BY <1>0, <2>1, <2>2 DEF ActsOK, TypeOK
  <2>4. on[c] = act[c].prev /\ (curr[c] \in Tasks => state[curr[c]] # "dead")
    BY <1>0, <2>1 DEF AtHome, Dead
  <2>5. \A d \in CPUs, t \in Tasks : state[t] = "dead" => (Last(d, t)' <=> Last(d, t))
    BY <2>1, <2>2, <2>3, <2>4 DEF Last
  <2>6. ASSUME NEW t \in Tasks, state[t] = "dead", t \in queued
        PROVE  \E d \in CPUs : curr'[d] = t /\ ~Decided(act'[d])
    BY <2>1, <2>2, <2>3, <2>6 DEF Dead, Decided, InSchedule
  <2>7. ASSUME NEW d \in CPUs
        PROVE  /\ act'[d].at = "switch" /\ curr'[d] \in Tasks => state'[curr'[d]] # "dead"
               /\ act'[d].at = "put" /\ act'[d].dead =>
                    act'[d].prev \in Tasks /\ state'[act'[d].prev] = "dead" /\ on'[d] # act'[d].prev
    BY <2>1, <2>2, <2>3 DEF Dead
  <2>. QED BY <2>1, <2>5, <2>6, <2>7 DEF Dead, Decided, InSchedule, Last
<1>10. ASSUME NEW c \in CPUs, FinishTaskSwitch(c) PROVE Dead'
  <2>1. UNCHANGED <<curr, on, dropped, state, queued>> /\ act[c].at = "finish"
    BY <1>10 DEF FinishTaskSwitch, task_vars
  <2>2. PICK r \in Acts(c) : /\ act' = [act EXCEPT ![c] = r] /\ r.at = "put" /\ r.prev = act[c].prev
                             /\ r.dead <=> (r.prev \in Tasks /\ state[r.prev] = "dead")
    <3>1. FinishTaskSwitch(c) /\ TypeOK /\ ActsOK
      BY <1>0, <1>10
    <3>. QED BY <3>1, FinishAct, Zenon
  <2>3. act'[c] = r /\ \A d \in CPUs : d # c => act'[d] = act[d]
    BY <1>0, <2>2 DEF ActsOK
  <2>4. act[c].prev # curr[c] /\ on[c] = curr[c]
    BY <1>0, <2>1 DEF AtHome
  <2>5. \A d \in CPUs, t \in Tasks : state[t] = "dead" => (Last(d, t)' <=> Last(d, t))
    BY <2>1, <2>2, <2>3 DEF Last
  <2>6. ASSUME NEW t \in Tasks, state[t] = "dead", t \in queued
        PROVE  \E d \in CPUs : curr'[d] = t /\ ~Decided(act'[d])
    BY <2>1, <2>2, <2>3, <2>6 DEF Dead, Decided, InSchedule
  <2>7. ASSUME NEW d \in CPUs
        PROVE  /\ act'[d].at = "switch" /\ curr'[d] \in Tasks => state'[curr'[d]] # "dead"
               /\ act'[d].at = "put" /\ act'[d].dead =>
                    act'[d].prev \in Tasks /\ state'[act'[d].prev] = "dead" /\ on'[d] # act'[d].prev
    BY <2>1, <2>2, <2>3, <2>4 DEF Dead
  <2>. QED BY <2>1, <2>5, <2>6, <2>7 DEF Dead, Decided, InSchedule, Last
<1>11. ASSUME NEW c \in CPUs, Put(c) PROVE Dead'
  <2>1. UNCHANGED <<curr, on, state, queued>> /\ act[c].at = "put" /\ act' = [act EXCEPT ![c] = Free]
    BY <1>11 DEF Put, task_vars
  <2>2. act'[c].at = "free" /\ \A d \in CPUs : d # c => act'[d] = act[d]
    BY <1>0, <2>1 DEF ActsOK, Free
  <2>3. act[c].prev \in Threads /\ act[c].dead \in BOOLEAN
    BY <1>0, <2>1, Shapes
  <2>4. ASSUME NEW t \in Tasks, state[t] = "dead", t \in queued
        PROVE  \E d \in CPUs : curr'[d] = t /\ ~Decided(act'[d])
    BY <2>1, <2>2, <2>4 DEF Dead, Decided, InSchedule
  <2>5. \A d \in CPUs, t \in Tasks : Last(d, t)' => Last(d, t)
    BY <2>1, <2>2 DEF Last
  <2>6. ASSUME NEW t \in Tasks, act[c].dead, t = act[c].prev
        PROVE  state[t] = "dead" /\ dropped[t] = 0 /\ dropped'[t] = 1 /\ \A d \in CPUs : ~Last(d, t)'
    <3>1. state[t] = "dead" /\ on[c] # t /\ Last(c, t)
      BY <2>1, <2>6 DEF Dead, Last
    <3>2. dropped[t] = 0 /\ \A d \in CPUs : Last(d, t) => d = c
      BY <3>1 DEF Dead
    <3>3. dropped'[t] = 1
      BY <1>11, <2>6, <3>2 DEF Put, TypeOK
    <3>4. ~Last(c, t)'
      BY <2>1, <2>2, <3>1 DEF Last
    <3>. QED BY <2>5, <3>1, <3>2, <3>3, <3>4
  <2>7. \A t \in Tasks : ~(act[c].dead /\ t = act[c].prev) => dropped'[t] = dropped[t]
    BY <1>11 DEF Put, TypeOK
  <2>8. \A t \in Tasks : state'[t] # "dead" => dropped'[t] = 0
    BY <2>1, <2>6, <2>7 DEF Dead
  <2>9. ASSUME NEW t \in Tasks, state[t] = "dead"
        PROVE  /\ \A d, e \in CPUs : Last(d, t)' /\ Last(e, t)' => d = e
               /\ \/ dropped'[t] = 0
                  \/ dropped'[t] = 1 /\ \A d \in CPUs : ~Last(d, t)'
    BY <2>5, <2>6, <2>7, <2>9 DEF Dead
  <2>10. ASSUME NEW d \in CPUs
         PROVE  /\ act'[d].at = "switch" /\ curr'[d] \in Tasks => state'[curr'[d]] # "dead"
                /\ act'[d].at = "put" /\ act'[d].dead =>
                     act'[d].prev \in Tasks /\ state'[act'[d].prev] = "dead" /\ on'[d] # act'[d].prev
    BY <2>1, <2>2 DEF Dead
  <2>. QED BY <2>1, <2>4, <2>8, <2>9, <2>10 DEF Dead, Decided, InSchedule, Last
<1>12. CASE UNCHANGED vars
  BY <1>12, DeadKept DEF vars
<1>. QED BY <1>1, <1>2, <1>3, <1>4, <1>5, <1>6, <1>7, <1>8, <1>9, <1>10, <1>11, <1>12, Steps

-----------------------------------------------------------------------------
(* A step that lets nobody leave a queue and switches nobody.              *)
LEMMA LeavingKept ==
  ASSUME Leaving, Sampled, UNCHANGED <<curr, nvcsw, seen>>, queued \subseteq queued',
         \A c \in CPUs : Decided(act[c]) => Decided(act'[c]) /\ act'[c].off = act[c].off
  PROVE  Leaving' /\ Sampled'
<1>1. ASSUME NEW c \in CPUs, curr'[c] \in Tasks, curr'[c] \notin queued' PROVE Decided(act'[c]) /\ act'[c].off
  BY <1>1 DEF Leaving
<1>2. Sampled'
  BY DEF Sampled
<1>. QED BY <1>1, <1>2 DEF Leaving, Decided, InSchedule

LEMMA LeavingStep == TypeOK /\ Locking /\ Homes /\ Leaving /\ Sampled /\ [Next]_vars => Leaving' /\ Sampled'
<1>. SUFFICES ASSUME TypeOK, Locking, Homes, Leaving, Sampled, [Next]_vars PROVE Leaving' /\ Sampled'
  OBVIOUS
<1>0. ActsOK /\ CPUs \subseteq Actors /\ Watchers \cap CPUs = {} /\ Watchers \subseteq Actors
      /\ (\A c \in CPUs : AtHome(c))
  BY RqAssumption DEF Locking, Actors, Homes
<1>1. ASSUME NEW c \in CPUs, Calm(c) PROVE Leaving' /\ Sampled'
  <2>1. UNCHANGED <<curr, nvcsw, seen, queued>>
    BY <1>1 DEF Calm, task_vars
  <2>2. PICK r \in Acts(c) : act' = [act EXCEPT ![c] = r] /\ (Decided(act[c]) => Decided(r) /\ r.off = act[c].off)
    BY <1>1 DEF Calm, Decided, InSchedule
  <2>3. act'[c] = r /\ \A d \in CPUs : d # c => act'[d] = act[d]
    BY <1>0, <2>2 DEF ActsOK
  <2>4. \A d \in CPUs : Decided(act[d]) => Decided(act'[d]) /\ act'[d].off = act[d].off
    BY <2>2, <2>3 DEF Decided, InSchedule
  <2>. QED BY <2>1, <2>4, LeavingKept
<1>2. ASSUME NEW c \in CPUs, \/ Wake(c) \/ BeginWaking(c) \/ Activate(c) \/ GoesToSleep(c) \/ Dies(c)
                             \/ ContextSwitch(c) \/ FinishTaskSwitch(c) \/ Put(c) \/ Moved(c)
                             \/ (\E d \in CPUs : SetTaskCpu(c, d)) \/ \E t \in Tasks : Pull(c, t)
      PROVE  Leaving' /\ Sampled'
  <2>1. UNCHANGED <<curr, nvcsw, seen>> /\ queued \subseteq queued'
    BY <1>2 DEF Wake, BeginWaking, Wakes, Activate, GoesToSleep, Dies, ContextSwitch, FinishTaskSwitch, Put, Moved,
                SetTaskCpu, Pull, task_vars
  <2>2. ASSUME NEW d \in CPUs, Decided(act[d]) PROVE Decided(act'[d]) /\ act'[d].off = act[d].off
    <3>1. CASE ~\E t \in Tasks : Pull(c, t)
      <4>1. \/ act'[d] = act[d]
            \/ act[d].at \in {"wake", "activate", "select", "switch", "finish", "put", "set_task_cpu"}
        BY <1>0, <1>2, <3>1 DEF ActsOK, Wake, BeginWaking, Wakes, Activate, GoesToSleep, Dies, ContextSwitch,
                                FinishTaskSwitch, Put, Moved, SetTaskCpu
      <4>. QED BY <2>2, <4>1 DEF Decided, InSchedule
    <3>2. CASE \E t \in Tasks : Pull(c, t)
      <4>1. PICK r \in Acts(c) : act' = [act EXCEPT ![c] = r] /\ r.at = "pick" /\ r.off = act[c].off
        BY <1>0, <3>2, PulledAct
      <4>2. act'[d] = IF d = c THEN r ELSE act[d]
        BY <1>0, <4>1 DEF ActsOK
      <4>. QED BY <2>2, <4>1, <4>2 DEF Decided, InSchedule
    <3>. QED BY <1>2, <3>1, <3>2
  <2>. QED BY <2>1, <2>2, LeavingKept
<1>3. ASSUME NEW w \in Watchers, Watches(w) PROVE Leaving' /\ Sampled'
  <2>1. UNCHANGED <<curr, nvcsw, seen, queued>>
    BY <1>3 DEF Watches, task_vars
  <2>2. \A d \in CPUs : act'[d] = act[d]
    BY <1>0, <1>3 DEF ActsOK, Watches
  <2>. QED BY <2>1, <2>2, LeavingKept
<1>4. ASSUME NEW w \in Watchers, WatchSample(w) PROVE Leaving' /\ Sampled'
  <2>1. UNCHANGED <<curr, nvcsw, queued>> /\ act[w].p \in Watched /\ act[w].p \in Tasks
    BY <1>0, <1>4, WatchSampleAct, RqAssumption DEF WatchSample, Samples, task_vars
  <2>2. PICK r \in Acts(w) : act' = [act EXCEPT ![w] = r]
    BY <1>0, <1>4, WatchSampleAct
  <2>3. \A d \in CPUs : act'[d] = act[d]
    BY <1>0, <2>2 DEF ActsOK
  <2>4. Leaving'
    BY <2>1, <2>3 DEF Leaving, Decided, InSchedule
  <2>5. seen' = seen \/ seen' = [seen EXCEPT ![w] = [p |-> act[w].p, count |-> nvcsw[act[w].p], ran |-> FALSE]]
    BY <1>4 DEF WatchSample, Samples
  <2>6. Sampled'
    <3>1. CASE seen' = seen
      BY <2>1, <3>1 DEF Sampled
    <3>2. CASE seen' = [seen EXCEPT ![w] = [p |-> act[w].p, count |-> nvcsw[act[w].p], ran |-> FALSE]]
      <4>1. nvcsw[act[w].p] \in Nat
        BY <2>1 DEF TypeOK
      <4>2. \A v \in Watchers : seen'[v] = IF v = w THEN [p |-> act[w].p, count |-> nvcsw[act[w].p], ran |-> FALSE]
                                           ELSE seen[v]
        BY <1>0, <3>2 DEF ActsOK
      <4>. QED BY <2>1, <4>1, <4>2 DEF Sampled
    <3>. QED BY <2>5, <3>1, <3>2
  <2>. QED BY <2>4, <2>6
<1>5. ASSUME NEW c \in CPUs, Deactivate(c) PROVE Leaving' /\ Sampled'
  <2>1. UNCHANGED <<curr, nvcsw, seen, state>> /\ act[c].at = "schedule"
    BY <1>5 DEF Deactivate
  <2>2. PICK r \in Acts(c) : /\ act' = [act EXCEPT ![c] = r] /\ r.at \in {"idle", "pick"}
                             /\ r.prev = act[c].prev
                             /\ queued' = IF r.off THEN queued \ {r.prev} ELSE queued
    <3>1. Deactivate(c) /\ TypeOK /\ ActsOK
      BY <1>0, <1>5
    <3>. QED BY <3>1, DeactivateAct, Zenon
  <2>3. act'[c] = r /\ \A d \in CPUs : d # c => act'[d] = act[d]
    BY <1>0, <2>2 DEF ActsOK
  <2>4. act[c].prev = curr[c]
    BY <1>0, <2>1 DEF AtHome, InSchedule
  <2>5. \A d \in CPUs : curr[d] \in Tasks /\ curr[d] = curr[c] => d = c
    BY <1>0 DEF AtHome
  <2>6. ASSUME NEW d \in CPUs, curr[d] \in Tasks, curr[d] \notin queued' PROVE Decided(act'[d]) /\ act'[d].off
    <3>1. CASE d = c
      <4>1. ~Decided(act[c])
        BY <2>1 DEF Decided
      <4>2. curr[c] \in queued
        BY <2>6, <3>1, <4>1 DEF Leaving
      <4>3. r.off
        BY <2>2, <2>6, <3>1, <4>2
      <4>. QED BY <2>2, <2>3, <3>1, <4>3 DEF Decided, InSchedule
    <3>2. CASE d # c
      <4>1. curr[d] \notin queued
        BY <2>2, <2>4, <2>5, <2>6, <3>2
      <4>. QED BY <2>3, <2>6, <3>2, <4>1 DEF Leaving
    <3>. QED BY <3>1, <3>2
  <2>7. \A t \in queued : t \in queued' \/ t = curr[c]
    BY <2>2, <2>4
  <2>8. Sampled'
    BY <2>1, <2>7 DEF Sampled
  <2>. QED BY <2>1, <2>6, <2>8 DEF Leaving, Decided, InSchedule
<1>6. ASSUME NEW c \in CPUs, NEW next \in Threads, Pick(c, next) PROVE Leaving' /\ Sampled'
  <2>1. /\ UNCHANGED queued /\ act[c].at = "pick" /\ act[c].prev = curr[c]
        /\ next \in Tasks => next \in queued
    BY <1>0, <1>6, Disjoint DEF Pick, OnRq, AtHome, InSchedule
  <2>2. PICK r \in Acts(c) : /\ act' = [act EXCEPT ![c] = r]
           /\ \/ next = curr[c] /\ UNCHANGED <<curr, nvcsw>>
              \/ /\ next # curr[c] /\ curr' = [curr EXCEPT ![c] = next]
                 /\ nvcsw' = IF act[c].off THEN [nvcsw EXCEPT ![curr[c]] = @ + 1] ELSE nvcsw
    <3>1. PICK r \in Acts(c) :
            /\ act' = [act EXCEPT ![c] = r]
            /\ \/ next = act[c].prev /\ UNCHANGED <<curr, nvcsw>>
               \/ /\ next # act[c].prev /\ curr' = [curr EXCEPT ![c] = next]
                  /\ nvcsw' = IF act[c].off THEN [nvcsw EXCEPT ![act[c].prev] = @ + 1] ELSE nvcsw
      <4>1. Pick(c, next) /\ ActsOK
        BY <1>0, <1>6
      <4>. QED BY <4>1, PickAct, Zenon
    <3>. QED BY <2>1, <3>1
  <2>3. /\ \A d \in CPUs : d # c => act'[d] = act[d] /\ curr'[d] = curr[d]
        /\ curr'[c] = next
    BY <1>0, <2>2 DEF ActsOK, TypeOK
  <2>4. Leaving'
    <3>1. ASSUME NEW d \in CPUs, curr'[d] \in Tasks, curr'[d] \notin queued PROVE Decided(act'[d]) /\ act'[d].off
      BY <2>1, <2>3, <3>1 DEF Leaving
    <3>. QED BY <2>1, <3>1 DEF Leaving, Decided, InSchedule
  <2>5. ASSUME NEW w \in Watchers, seen'[w].p # None
        PROVE  /\ seen'[w].count <= nvcsw'[seen'[w].p]
               /\ seen'[w].ran => \/ seen'[w].count < nvcsw'[seen'[w].p]
                                  \/ seen'[w].p \in queued'
                                  \/ \E d \in CPUs : curr'[d] = seen'[w].p
    <3>. DEFINE p == seen[w].p
                k == seen[w].count
    <3>1. /\ seen[w] \in [p : Watched \cup {None}, count : Nat, ran : BOOLEAN]
          /\ seen'[w].p = p /\ seen'[w].count = k
          /\ seen'[w].ran <=> (seen[w].ran \/ (p # None /\ p = next /\ next # curr[c]))
      <4>1. seen[w] \in [p : Watched \cup {None}, count : Nat, ran : BOOLEAN]
        BY <1>0 DEF ActsOK
      <4>2. seen'[w] = [seen[w] EXCEPT !.ran = @ \/ (seen[w].p # None /\ seen[w].p = next /\ next # act[c].prev)]
        BY <1>6 DEF Pick
      <4>. QED BY <2>1, <4>1, <4>2
    <3>2. p \in Tasks /\ k \in Nat /\ nvcsw[p] \in Nat /\ nvcsw'[p] \in Nat /\ nvcsw[p] <= nvcsw'[p]
      <4>1. p \in Tasks /\ k \in Nat /\ nvcsw[p] \in Nat
        BY <2>5, <3>1, RqAssumption DEF TypeOK
      <4>2. nvcsw'[p] = nvcsw[p] \/ nvcsw'[p] = nvcsw[p] + 1
        BY <2>2, <4>1 DEF TypeOK
      <4>. QED BY <4>1, <4>2
    <3>3. k <= nvcsw[p] /\ (seen[w].ran => k < nvcsw[p] \/ p \in queued \/ \E d \in CPUs : curr[d] = p)
      BY <2>5, <3>1 DEF Sampled
    <3>. HIDE DEF p, k
    <3>4. k <= nvcsw'[p]
      BY <3>2, <3>3
    <3>5. ASSUME p = next PROVE \E d \in CPUs : curr'[d] = p
      BY <2>3, <3>5
    <3>6. ASSUME k < nvcsw[p] PROVE k < nvcsw'[p]
      BY <3>2, <3>6
    <3>7. ASSUME NEW d \in CPUs, curr[d] = p, d # c PROVE curr'[d] = p
      BY <2>3, <3>7
    <3>8. ASSUME curr[c] = p, p \notin queued PROVE k < nvcsw'[p] \/ curr'[c] = p
      <4>1. CASE next = curr[c]
        BY <2>3, <3>8, <4>1
      <4>2. CASE next # curr[c]
        <5>1. act[c].off
          BY <3>2, <3>8 DEF Leaving
        <5>2. nvcsw'[p] = nvcsw[p] + 1
          BY <2>2, <3>2, <3>8, <4>2, <5>1 DEF TypeOK
        <5>. QED BY <3>2, <3>3, <5>2
      <4>. QED BY <4>1, <4>2
    <3>9. seen'[w].ran => k < nvcsw'[p] \/ p \in queued \/ \E d \in CPUs : curr'[d] = p
      BY <3>1, <3>3, <3>5, <3>6, <3>7, <3>8
    <3>. QED BY <2>1, <3>1, <3>4, <3>9
  <2>. QED BY <2>4, <2>5 DEF Sampled
<1>7. CASE UNCHANGED vars
  BY <1>7, LeavingKept DEF vars
<1>. QED BY <1>1, <1>2, <1>3, <1>4, <1>5, <1>6, <1>7, Steps

(* wait_task_inactive(), 2160 and 2251.                                    *)
LEMMA SampleIsTrue ==
  TypeOK /\ Locking /\ (~astray => Homes /\ Leaving /\ Sampled) /\ [Next]_vars => InactiveSample
<1>. SUFFICES ASSUME TypeOK, Locking, Homes, Leaving, Sampled, [Next]_vars,
                     NEW w \in Watchers, act[w].at = "sample", act'[w] = Free, ~Bails(w), ~astray'
              PROVE  LET t == act[w].p IN
                       /\ t \notin queued /\ \A c \in CPUs : on[c] # t
                       /\ seen[w].p = t /\ seen[w].count = nvcsw[t] => ~seen[w].ran
  BY AstrayStays DEF InactiveSample
<1>0. ActsOK /\ Locks /\ w \in Actors /\ w \notin CPUs /\ (\A c \in CPUs : AtHome(c)) /\ act'[w].at = "free"
      /\ CPUs \subseteq Actors
  BY RqAssumption DEF Locking, Actors, Homes, Free
<1>1. WatchSample(w)
  <2>1. ASSUME NEW c \in CPUs PROVE ~Calm(c)
    BY <1>0 DEF Calm, ActsOK
  <2>2. ASSUME NEW c \in CPUs
        PROVE  ~(\/ Wake(c) \/ BeginWaking(c) \/ Activate(c) \/ GoesToSleep(c) \/ Dies(c) \/ Deactivate(c)
                 \/ ContextSwitch(c) \/ FinishTaskSwitch(c) \/ Put(c) \/ Moved(c)
                 \/ (\E d \in CPUs : SetTaskCpu(c, d)) \/ \E t \in Tasks : Pull(c, t))
    BY <1>0 DEF ActsOK, Wake, BeginWaking, Activate, GoesToSleep, Dies, Deactivate, ContextSwitch, FinishTaskSwitch,
                Put, Moved, SetTaskCpu, Pull
  <2>3. ASSUME NEW c \in CPUs, NEW t \in Threads PROVE ~Pick(c, t)
    BY <1>0 DEF ActsOK, Pick
  <2>4. ASSUME NEW v \in Watchers, v # w PROVE ~Watches(v) /\ ~WatchSample(v)
    BY <1>0, <2>4 DEF ActsOK, Watches, WatchSample, Samples
  <2>5. ~Watches(w) /\ ~UNCHANGED vars
    BY <1>0 DEF Watches, vars
  <2>. QED BY <2>1, <2>2, <2>3, <2>4, <2>5, Steps
<1>2. PICK t \in Tasks : t = act[w].p
  BY <1>0, <1>1, WatchSampleAct, RqAssumption
<1>4. act[w].rq = cpu[t] /\ lock[cpu[t]] = w /\ cpu[t] \in CPUs
  <2>1. act' # [act EXCEPT ![w] = [at |-> "watch", p |-> t, rq |-> cpu[t], match |-> act[w].match]]
    BY <1>0 DEF ActsOK
  <2>2. Home(w)
    BY <1>1, <1>2, <2>1 DEF WatchSample, Samples
  <2>3. act[w].rq = cpu[t] /\ cpu[t] \in CPUs
    BY <1>2, <2>2 DEF Home, TypeOK
  <2>. QED BY <1>0, <2>3 DEF Locks, Holds
<1>3. t \notin queued /\ ~Running(t)
  <2>1. ~(Running(t) \/ t \in queued)
    <3>1. SUFFICES ASSUME Running(t) \/ t \in queued PROVE FALSE
      OBVIOUS
    <3>2. act' = [act EXCEPT ![w] = [at |-> "watch", p |-> t, rq |-> cpu[t], match |-> act[w].match]]
      BY <1>1, <1>2, <1>4, <3>1 DEF WatchSample, Samples, Running
    <3>. QED BY <1>0, <3>2 DEF ActsOK
  <2>. QED BY <2>1
<1>5. \A c \in CPUs : curr[c] # t
  BY <1>0, <1>3 DEF AtHome, Running
<1>6. \A c \in CPUs : on[c] # t
  <2>1. SUFFICES ASSUME NEW c \in CPUs, on[c] = t PROVE FALSE
    OBVIOUS
  <2>2. cpu[t] = c /\ act[c].at = "switch"
    BY <1>0, <1>5, <2>1 DEF AtHome
  <2>3. lock[c] = c
    BY <1>0, <2>2 DEF Locks, Holds
  <2>. QED BY <1>0, <1>4, <2>2, <2>3
<1>7. ASSUME seen[w].p = t, seen[w].count = nvcsw[t] PROVE ~seen[w].ran
  <2>1. t # None /\ nvcsw[t] \in Nat
    BY RqAssumption DEF TypeOK
  <2>. QED BY <1>3, <1>5, <1>7, <2>1 DEF Sampled
<1>. QED BY <1>2, <1>3, <1>6, <1>7

-----------------------------------------------------------------------------
(* The terms of MmCounted.                                                 *)
Users(m)     == IF m \notin Tasks \/ mm[m] = m THEN 1 ELSE 0
Borrowers(m) == {t \in Threads : mm[t] = None /\ active_mm[t] = m}
Pending(m)   == {c \in CPUs : prev_mm[c] = m}
Dropping(m)  == {c \in CPUs : act[c].at = "put" /\ act[c].mm = m}
References(m) == Users(m) + Cardinality(Borrowers(m)) + Cardinality(Pending(m)) + Cardinality(Dropping(m))

LEMMA MmCountedIs == MmCounted <=> \A m \in MMs : mm_count[m] = References(m)
BY DEF MmCounted, References, Users, Borrowers, Pending, Dropping

LEMMA MmCountedThen == MmCounted' <=> \A m \in MMs : mm_count'[m] = References(m)'
BY DEF MmCounted, References, Users, Borrowers, Pending, Dropping

LEMMA ThreadsFinite == IsFiniteSet(CPUs) /\ IsFiniteSet(Tasks) /\ IsFiniteSet(Idles) /\ IsFiniteSet(Threads)
                       /\ Cardinality(Idles) = Cardinality(CPUs)
<1>1. IsFiniteSet(CPUs) /\ IsFiniteSet(Tasks)
  BY RqAssumption, FS_Subset
<1>. DEFINE f == [c \in CPUs |-> idle(c)]
<1>2. f \in Bijection(CPUs, Idles)
  <2>1. f \in [CPUs -> Idles]
    BY DEF Idles
  <2>2. \A c, d \in CPUs : f[c] = f[d] => c = d
    BY Disjoint
  <2>3. \A t \in Idles : \E c \in CPUs : f[c] = t
    BY DEF Idles
  <2>. HIDE DEF f
  <2>. QED BY <2>1, <2>2, <2>3, Fun_IsBij
<1>3. IsFiniteSet(Idles) /\ Cardinality(Idles) = Cardinality(CPUs)
  <2>1. ExistsBijection(CPUs, Idles)
    BY <1>2 DEF ExistsBijection
  <2>. QED BY <1>1, <2>1, FS_Bijection
<1>. QED BY <1>1, <1>3, FS_Union DEF Threads

LEMMA CountsFinite ==
  ASSUME NEW m
  PROVE  /\ IsFiniteSet(Borrowers(m)) /\ IsFiniteSet(Pending(m)) /\ IsFiniteSet(Dropping(m))
         /\ Cardinality(Borrowers(m)) \in Nat /\ Cardinality(Pending(m)) \in Nat /\ Cardinality(Dropping(m)) \in Nat
<1>1. IsFiniteSet(Borrowers(m)) /\ IsFiniteSet(Pending(m)) /\ IsFiniteSet(Dropping(m))
  BY ThreadsFinite, FS_Subset DEF Borrowers, Pending, Dropping
<1>. QED BY <1>1, FS_CardinalityType

LEMMA OneMore ==
  ASSUME NEW S, IsFiniteSet(S), NEW x, x \notin S, NEW T, T = S \cup {x}
  PROVE  Cardinality(T) = Cardinality(S) + 1
BY FS_AddElement

LEMMA OneLess ==
  ASSUME NEW S, IsFiniteSet(S), NEW x \in S, NEW T, T = S \ {x}
  PROVE  Cardinality(T) = Cardinality(S) - 1
BY FS_RemoveElement

(* No thread is on two stacks, and what is picked is on none.              *)
LEMMA OneStack ==
  ASSUME Homes, NEW c \in CPUs, NEW d \in CPUs, on[c] = on[d] \/ curr[c] = on[d]
  PROVE  c = d
<1>1. AtHome(c) /\ AtHome(d)
  BY DEF Homes
<1>2. CASE on[d] \in Tasks
  <2>1. cpu[on[d]] = d /\ cpu[on[d]] = c
    BY <1>1, <1>2 DEF AtHome
  <2>. QED BY <2>1
<1>3. CASE on[d] = idle(d)
  <2>1. on[c] \notin Tasks => on[c] = idle(c)
    BY <1>1 DEF AtHome
  <2>2. curr[c] \notin Tasks => curr[c] = idle(c)
    BY <1>1 DEF AtHome
  <2>. QED BY <1>3, <2>1, <2>2, Disjoint
<1>. QED BY <1>1, <1>2, <1>3 DEF AtHome

LEMMA MmKept ==
  ASSUME Active, MmCounted, UNCHANGED <<on, mm_vars>>,
         \A c \in CPUs : \/ act'[c] = act[c]
                         \/ act[c].at \notin {"finish", "put"} /\ act'[c].at \notin {"finish", "put"}
  PROVE  Active' /\ MmCounted'
<1>1. UNCHANGED <<mm, active_mm, mm_count, prev_mm>>
  BY DEF mm_vars
<1>2. Active'
  BY <1>1 DEF Active
<1>3. \A m \in MMs : Dropping(m)' = Dropping(m)
  BY DEF Dropping
<1>4. \A m \in MMs : References(m)' = References(m)
  BY <1>1, <1>3 DEF References, Users, Borrowers, Pending
<1>. QED BY <1>1, <1>2, <1>4, MmCountedIs, MmCountedThen

LEMMA MmStep == TypeOK /\ Locking /\ Homes /\ Active /\ MmCounted /\ [Next]_vars => Active' /\ MmCounted'
<1>. SUFFICES ASSUME TypeOK, Locking, Homes, Active, MmCounted, [Next]_vars PROVE Active' /\ MmCounted'
  OBVIOUS
<1>0. ActsOK /\ CPUs \subseteq Actors /\ Watchers \cap CPUs = {} /\ Watchers \subseteq Actors
      /\ (\A c \in CPUs : AtHome(c)) /\ \A m \in MMs : mm_count[m] = References(m)
  BY RqAssumption, MmCountedIs DEF Locking, Actors, Homes
<1>1. ASSUME NEW c \in CPUs, Calm(c) PROVE Active' /\ MmCounted'
  <2>1. UNCHANGED <<on, mm_vars>>
    BY <1>1 DEF Calm
  <2>2. PICK r \in Acts(c) : act' = [act EXCEPT ![c] = r] /\ r.at \notin {"switch", "finish", "put"}
                             /\ act[c].at \notin {"switch", "finish", "put"}
    BY <1>1 DEF Calm
  <2>3. \A d \in CPUs : \/ act'[d] = act[d]
                        \/ act[d].at \notin {"finish", "put"} /\ act'[d].at \notin {"finish", "put"}
    BY <1>0, <2>2 DEF ActsOK
  <2>. QED BY <2>1, <2>3, MmKept
<1>2. ASSUME NEW c \in CPUs, \/ Wake(c) \/ BeginWaking(c) \/ Activate(c) \/ GoesToSleep(c) \/ Deactivate(c)
                             \/ Moved(c) \/ (\E d \in CPUs : SetTaskCpu(c, d)) \/ \E t \in Tasks : Pull(c, t)
      PROVE  Active' /\ MmCounted'
  <2>1. UNCHANGED <<on, mm_vars>>
    BY <1>2 DEF Wake, BeginWaking, Wakes, Activate, GoesToSleep, Deactivate, Moved, SetTaskCpu, Pull
  <2>2. \A d \in CPUs : \/ act'[d] = act[d]
                        \/ act[d].at \notin {"finish", "put"} /\ act'[d].at \notin {"finish", "put"}
    BY <1>0, <1>2 DEF ActsOK, Free, Wake, BeginWaking, Wakes, Activate, GoesToSleep, Deactivate, Moved, SetTaskCpu, Pull
  <2>. QED BY <2>1, <2>2, MmKept
<1>3. ASSUME NEW c \in CPUs, NEW next \in Threads, Pick(c, next) PROVE Active' /\ MmCounted'
  <2>1. UNCHANGED <<on, mm_vars>> /\ act[c].at = "pick"
    BY <1>3 DEF Pick
  <2>2. PICK r \in Acts(c) : act' = [act EXCEPT ![c] = r] /\ r.at \in {"free", "switch"}
    BY <1>0, <1>3, PickAct
  <2>3. \A d \in CPUs : \/ act'[d] = act[d]
                        \/ act[d].at \notin {"finish", "put"} /\ act'[d].at \notin {"finish", "put"}
    BY <1>0, <2>1, <2>2 DEF ActsOK
  <2>. QED BY <2>1, <2>3, MmKept
<1>4. ASSUME NEW w \in Watchers, Watches(w) \/ WatchSample(w) PROVE Active' /\ MmCounted'
  <2>1. UNCHANGED <<on, mm_vars>>
    BY <1>4 DEF Watches, WatchSample, Samples
  <2>2. \E r : act' = [act EXCEPT ![w] = r]
    BY <1>0, <1>4, WatchSampleAct DEF Watches
  <2>3. \A d \in CPUs : act'[d] = act[d]
    BY <1>0, <2>2 DEF ActsOK
  <2>. QED BY <2>1, <2>3, MmKept
<1>5. CASE UNCHANGED vars
  BY <1>5, MmKept DEF vars, mm_vars
<1>6. ASSUME NEW c \in CPUs, Dies(c) PROVE Active' /\ MmCounted'
  <2>0. PICK v \in Tasks : v = on[c]
    BY <1>6 DEF Dies
  <2>1. /\ UNCHANGED <<on, active_mm, mm_count, prev_mm, act>> /\ v \in Threads
        /\ mm' = [mm EXCEPT ![v] = None]
    BY <1>6, <2>0 DEF Dies, Threads
  <2>2. mm'[v] = None /\ \A t \in Threads : t # v => mm'[t] = mm[t]
    BY <2>1 DEF TypeOK
  <2>3. mm[v] \in {None, v} /\ (mm[v] = v => v \in WithMm /\ active_mm[v] = v)
    BY <2>1 DEF Active
  <2>4. Active'
    <3>1. ASSUME NEW t \in Threads
          PROVE  mm'[t] \in {None, t} /\ (mm'[t] = t => t \in WithMm /\ active_mm'[t] = t)
      BY <2>1, <2>2, Disjoint DEF Active
    <3>2. ASSUME NEW t \in Threads, mm'[t] = None, \A d \in CPUs : on'[d] # t PROVE active_mm'[t] = None
      <4>1. t # v
        BY <2>0, <2>1, <3>2
      <4>. QED BY <2>1, <2>2, <3>2, <4>1 DEF Active
    <3>. QED BY <2>1, <3>1, <3>2 DEF Active
  <2>5. \A m \in MMs : Pending(m)' = Pending(m) /\ Dropping(m)' = Dropping(m)
    BY <2>1 DEF Pending, Dropping
  <2>6. \A m \in MMs : m \in Tasks => m \in Threads
    BY DEF Threads
  <2>7. CASE mm[v] = None
    <3>1. \A t \in Threads : mm'[t] = mm[t]
      BY <2>2, <2>7
    <3>2. \A m \in MMs : Users(m)' = Users(m) /\ Borrowers(m)' = Borrowers(m)
      BY <2>1, <2>6, <3>1 DEF Users, Borrowers
    <3>3. \A m \in MMs : References(m)' = References(m)
      BY <2>5, <3>2 DEF References
    <3>. QED BY <1>0, <2>1, <2>4, <3>3, MmCountedThen
  <2>8. CASE mm[v] = v
    <3>0. v # None /\ v \in MMs /\ v \in WithMm /\ active_mm[v] = v
      BY <2>1, <2>3, <2>8, Disjoint
    <3>1. ASSUME NEW m \in MMs, m # v PROVE Users(m)' = Users(m) /\ Borrowers(m)' = Borrowers(m)
      <4>1. Users(m)' = Users(m)
        BY <2>2, <2>6, <3>1 DEF Users
      <4>2. Borrowers(m)' = Borrowers(m)
        BY <2>1, <2>2, <2>8, <3>0, <3>1 DEF Borrowers
      <4>. QED BY <4>1, <4>2
    <3>2. Users(v) = 1 /\ Users(v)' = 0
      <4>1. mm'[v] # v
        BY <2>2, <3>0
      <4>. QED BY <2>1, <2>8, <4>1 DEF Users
    <3>3. v \notin Borrowers(v) /\ Borrowers(v)' = Borrowers(v) \cup {v}
      <4>1. v \notin Borrowers(v)
        BY <2>8, <3>0 DEF Borrowers
      <4>. QED BY <2>1, <2>2, <3>0, <4>1 DEF Borrowers
    <3>4. Cardinality(Borrowers(v)') = Cardinality(Borrowers(v)) + 1
      BY <3>3, CountsFinite, OneMore
    <3>5. Cardinality(Borrowers(v)) \in Nat /\ Cardinality(Pending(v)) \in Nat /\ Cardinality(Dropping(v)) \in Nat
      BY CountsFinite
    <3>6. References(v)' = References(v)
      <4>1. Cardinality(Pending(v)') = Cardinality(Pending(v)) /\ Cardinality(Dropping(v)') = Cardinality(Dropping(v))
        BY <2>5, <3>0
      <4>. QED BY <3>2, <3>4, <3>5, <4>1 DEF References
    <3>7. \A m \in MMs : m # v => References(m)' = References(m)
      BY <2>5, <3>1 DEF References
    <3>. QED BY <1>0, <2>1, <2>4, <3>6, <3>7, MmCountedThen
  <2>. QED BY <2>3, <2>7, <2>8
<1>7. ASSUME NEW c \in CPUs, FinishTaskSwitch(c) PROVE Active' /\ MmCounted'
  <2>1. /\ UNCHANGED <<on, mm, active_mm, mm_count>> /\ act[c].at = "finish"
        /\ prev_mm' = [prev_mm EXCEPT ![c] = None]
    BY <1>7 DEF FinishTaskSwitch
  <2>2. PICK r \in Acts(c) : act' = [act EXCEPT ![c] = r] /\ r.at = "put" /\ r.mm = prev_mm[c]
    <3>1. FinishTaskSwitch(c) /\ TypeOK /\ ActsOK
      BY <1>0, <1>7
    <3>. QED BY <3>1, FinishAct, Zenon
  <2>3. /\ act'[c] = r /\ prev_mm'[c] = None
        /\ \A d \in CPUs : d # c => act'[d] = act[d] /\ prev_mm'[d] = prev_mm[d]
    BY <1>0, <2>1, <2>2 DEF ActsOK, TypeOK
  <2>4. Active'
    BY <2>1, <2>2, <2>3 DEF Active
  <2>5. \A m \in MMs : Users(m)' = Users(m) /\ Borrowers(m)' = Borrowers(m)
    BY <2>1 DEF Users, Borrowers
  <2>6. \A m \in MMs : m # None
    BY Disjoint
  <2>7. ASSUME NEW m \in MMs, m # prev_mm[c] PROVE References(m)' = References(m)
    <3>1. Pending(m)' = Pending(m)
      BY <2>3, <2>6, <2>7 DEF Pending
    <3>2. Dropping(m)' = Dropping(m)
      BY <2>1, <2>2, <2>3, <2>7 DEF Dropping
    <3>. QED BY <2>5, <3>1, <3>2 DEF References
  <2>8. ASSUME NEW m \in MMs, m = prev_mm[c] PROVE References(m)' = References(m)
    <3>1. c \in Pending(m) /\ Pending(m)' = Pending(m) \ {c}
      BY <2>3, <2>6, <2>8 DEF Pending
    <3>2. c \notin Dropping(m) /\ Dropping(m)' = Dropping(m) \cup {c}
      <4>1. c \notin Dropping(m)
        BY <2>1 DEF Dropping
      <4>. QED BY <2>2, <2>3, <2>8, <4>1 DEF Dropping
    <3>3. Cardinality(Pending(m)') = Cardinality(Pending(m)) - 1
      BY <3>1, CountsFinite, OneLess
    <3>4. Cardinality(Dropping(m)') = Cardinality(Dropping(m)) + 1
      BY <3>2, CountsFinite, OneMore
    <3>5. /\ Cardinality(Borrowers(m)) \in Nat /\ Cardinality(Pending(m)) \in Nat /\ Cardinality(Dropping(m)) \in Nat
          /\ Users(m) \in Nat
      BY CountsFinite DEF Users
    <3>. QED BY <2>5, <3>3, <3>4, <3>5 DEF References
  <2>. QED BY <1>0, <2>1, <2>4, <2>7, <2>8, MmCountedThen
<1>8. ASSUME NEW c \in CPUs, Put(c) PROVE Active' /\ MmCounted'
  <2>1. /\ UNCHANGED <<on, mm, active_mm, prev_mm>> /\ act[c].at = "put" /\ act' = [act EXCEPT ![c] = Free]
        /\ mm_count' = IF act[c].mm = None THEN mm_count ELSE [mm_count EXCEPT ![act[c].mm] = @ - 1]
    BY <1>8 DEF Put
  <2>2. /\ act'[c].at = "free"
        /\ \A d \in CPUs : d # c => act'[d] = act[d]
    BY <1>0, <2>1 DEF ActsOK, Free
  <2>3. Active'
    BY <2>1, <2>2 DEF Active
  <2>4. \A m \in MMs : Users(m)' = Users(m) /\ Borrowers(m)' = Borrowers(m) /\ Pending(m)' = Pending(m) /\ m # None
    BY <2>1, Disjoint DEF Users, Borrowers, Pending
  <2>5. ASSUME NEW m \in MMs, m # act[c].mm PROVE mm_count'[m] = References(m)'
    <3>1. Dropping(m)' = Dropping(m)
      BY <2>1, <2>2, <2>5 DEF Dropping
    <3>2. References(m)' = References(m)
      BY <2>4, <3>1 DEF References
    <3>3. mm_count'[m] = mm_count[m]
      BY <2>1, <2>5 DEF TypeOK
    <3>. QED BY <1>0, <3>2, <3>3
  <2>6. ASSUME NEW m \in MMs, m = act[c].mm PROVE mm_count'[m] = References(m)'
    <3>1. c \in Dropping(m) /\ Dropping(m)' = Dropping(m) \ {c}
      BY <2>1, <2>2, <2>6 DEF Dropping
    <3>2. Cardinality(Dropping(m)') = Cardinality(Dropping(m)) - 1
      BY <3>1, CountsFinite, OneLess
    <3>3. /\ Cardinality(Borrowers(m)) \in Nat /\ Cardinality(Pending(m)) \in Nat /\ Cardinality(Dropping(m)) \in Nat
          /\ Users(m) \in Nat
      BY CountsFinite DEF Users
    <3>4. References(m)' = References(m) - 1
      BY <2>4, <3>2, <3>3 DEF References
    <3>5. mm_count'[m] = mm_count[m] - 1
      BY <2>1, <2>4, <2>6 DEF TypeOK
    <3>. QED BY <1>0, <3>4, <3>5
  <2>. QED BY <2>3, <2>5, <2>6, MmCountedThen
<1>9. ASSUME NEW c \in CPUs, ContextSwitch(c) PROVE Active' /\ MmCounted'
  <2>1. PICK prev \in Threads, next \in Threads, old \in MMs : prev = on[c] /\ next = curr[c] /\ old = active_mm[prev]
    <3>1. on[c] \in Threads /\ curr[c] \in Threads /\ active_mm[on[c]] \in MMs \cup {None} /\ active_mm[on[c]] # None
      BY DEF TypeOK, Active
    <3>. QED BY <3>1
  <2>2. act[c].at = "switch" /\ act[c].prev = prev /\ prev # next
    BY <1>0, <1>9, <2>1 DEF ContextSwitch, AtHome
  <2>3. /\ UNCHANGED mm /\ on' = [on EXCEPT ![c] = next]
        /\ active_mm' = [active_mm EXCEPT ![next] = IF mm[next] = None THEN old ELSE mm[next],
                                          ![prev] = IF mm[prev] = None THEN None ELSE @]
        /\ mm_count' = IF mm[next] = None THEN [mm_count EXCEPT ![old] = @ + 1] ELSE mm_count
        /\ prev_mm' = IF mm[prev] = None THEN [prev_mm EXCEPT ![c] = old] ELSE prev_mm
    BY <1>9, <2>1, <2>2 DEF ContextSwitch
  <2>4. PICK r \in Acts(c) : act' = [act EXCEPT ![c] = r] /\ r.at = "finish"
    BY <1>0, <1>9, ContextSwitchAct
  <2>5. act'[c] = r /\ \A d \in CPUs : d # c => act'[d] = act[d]
    BY <1>0, <2>4 DEF ActsOK
  <2>6. /\ on'[c] = next /\ \A d \in CPUs : d # c => on'[d] = on[d] /\ on[d] # prev /\ on[d] # next
    BY <2>1, <2>3, OneStack DEF TypeOK
  <2>7. /\ active_mm'[next] = IF mm[next] = None THEN old ELSE mm[next]
        /\ active_mm'[prev] = IF mm[prev] = None THEN None ELSE old
        /\ \A t \in Threads : t # next /\ t # prev => active_mm'[t] = active_mm[t]
    BY <2>1, <2>2, <2>3 DEF TypeOK
  <2>8. prev_mm[c] = None /\ \A d \in CPUs : prev_mm'[d] = IF d = c /\ mm[prev] = None THEN old ELSE prev_mm[d]
    BY <2>2, <2>3 DEF Active, TypeOK
  <2>9. mm[next] = None => active_mm[next] = None
    <3>1. \A d \in CPUs : on[d] # next
      BY <2>1, <2>2, <2>6
    <3>. QED BY <3>1 DEF Active
  <2>10. Active'
    <3>1. ASSUME NEW t \in Threads
          PROVE  mm'[t] \in {None, t} /\ (mm'[t] = t => t \in WithMm /\ active_mm'[t] = t)
      <4>1. mm[t] \in {None, t} /\ (mm[t] = t => t \in WithMm /\ active_mm[t] = t) /\ t # None
        BY Disjoint DEF Active
      <4>2. CASE t = next
        BY <2>3, <2>7, <4>1, <4>2
      <4>3. CASE t = prev /\ t # next
        BY <2>1, <2>3, <2>7, <4>1, <4>3
      <4>4. CASE t # prev /\ t # next
        BY <2>3, <2>7, <4>1, <4>4
      <4>. QED BY <4>2, <4>3, <4>4
    <3>2. ASSUME NEW d \in CPUs PROVE active_mm'[on'[d]] # None
      <4>1. CASE d = c
        BY <2>6, <2>7, <4>1, Disjoint
      <4>2. CASE d # c
        <5>1. on[d] \in Threads /\ active_mm[on[d]] # None
          BY DEF TypeOK, Active
        <5>. QED BY <2>6, <2>7, <4>2, <5>1
      <4>. QED BY <4>1, <4>2
    <3>3. ASSUME NEW t \in Threads, mm'[t] = None, \A d \in CPUs : on'[d] # t PROVE active_mm'[t] = None
      <4>1. CASE t = prev
        BY <2>3, <2>7, <3>3, <4>1
      <4>2. CASE t # prev
        <5>1. t # next /\ \A d \in CPUs : on[d] # t
          BY <2>1, <2>6, <3>3, <4>2
        <5>2. active_mm[t] = None
          BY <2>3, <3>3, <5>1 DEF Active
        <5>. QED BY <2>7, <4>2, <5>1, <5>2
      <4>. QED BY <4>1, <4>2
    <3>4. ASSUME NEW d \in CPUs, prev_mm'[d] # None PROVE act'[d].at = "finish"
      BY <2>4, <2>5, <2>8, <3>4 DEF Active
    <3>. QED BY <3>1, <3>2, <3>3, <3>4 DEF Active
  <2>11. \A m \in MMs : Users(m)' = Users(m) /\ Dropping(m)' = Dropping(m) /\ m # None
    BY <2>2, <2>3, <2>4, <2>5, Disjoint DEF Users, Dropping
  <2>12. ASSUME NEW m \in MMs, m # old PROVE mm_count'[m] = References(m)'
    <3>1. Pending(m)' = Pending(m)
      BY <2>8, <2>11, <2>12 DEF Pending
    <3>2. Borrowers(m)' = Borrowers(m)
      <4>1. ASSUME NEW t \in Threads
            PROVE  mm[t] = None => (active_mm'[t] = m <=> active_mm[t] = m)
        BY <2>1, <2>7, <2>9, <2>11, <2>12
      <4>. QED BY <2>3, <4>1 DEF Borrowers
    <3>3. mm_count'[m] = mm_count[m]
      BY <2>3, <2>12 DEF TypeOK
    <3>. QED BY <1>0, <2>11, <3>1, <3>2, <3>3 DEF References
  <2>13. mm_count'[old] = References(old)'
    <3>. DEFINE lent == IF mm[next] = None THEN 1 ELSE 0
                back == IF mm[prev] = None THEN 1 ELSE 0
    <3>1. mm_count'[old] = mm_count[old] + lent
      BY <2>3 DEF TypeOK
    <3>2. Cardinality(Pending(old)') = Cardinality(Pending(old)) + back
      <4>1. c \notin Pending(old)
        BY <2>8, <2>11 DEF Pending
      <4>2. CASE mm[prev] = None
        <5>1. Pending(old)' = Pending(old) \cup {c}
          BY <2>8, <4>2 DEF Pending
        <5>. QED BY <4>1, <4>2, <5>1, CountsFinite, OneMore
      <4>3. CASE mm[prev] # None
        <5>1. Pending(old)' = Pending(old)
          BY <2>8, <4>3 DEF Pending
        <5>. QED BY <4>3, <5>1, CountsFinite
      <4>. QED BY <4>2, <4>3
    <3>3. Cardinality(Borrowers(old)') = Cardinality(Borrowers(old)) + lent - back
      <4>. DEFINE rest == Borrowers(old) \ {prev}
      <4>1. next \notin Borrowers(old) /\ next \notin rest
        BY <2>9, <2>11 DEF Borrowers
      <4>2. prev \in Borrowers(old) <=> mm[prev] = None
        BY <2>1 DEF Borrowers
      <4>3. IsFiniteSet(rest) /\ Cardinality(rest) = Cardinality(Borrowers(old)) - back
        <5>1. CASE mm[prev] = None
          BY <4>2, <5>1, CountsFinite, FS_RemoveElement
        <5>2. CASE mm[prev] # None
          <6>1. rest = Borrowers(old)
            BY <4>2, <5>2
          <6>. QED BY <5>2, <6>1, CountsFinite
        <5>. QED BY <5>1, <5>2
      <4>4. Borrowers(old)' = {t \in Threads : mm[t] = None /\ active_mm'[t] = old}
        BY <2>3 DEF Borrowers
      <4>5. prev \notin {t \in Threads : mm[t] = None /\ active_mm'[t] = old}
        BY <2>7, <2>11
      <4>6. \A t \in Threads : t # prev /\ t # next =>
              (t \in Borrowers(old) <=> mm[t] = None /\ active_mm'[t] = old)
        BY <2>7 DEF Borrowers
      <4>7. CASE mm[next] = None
        <5>1. Borrowers(old)' = rest \cup {next}
          <6>1. active_mm'[next] = old
            BY <2>7, <4>7
          <6>. QED BY <2>2, <4>4, <4>5, <4>6, <4>7, <6>1 DEF Borrowers
        <5>2. Cardinality(Borrowers(old)') = Cardinality(rest) + 1
          BY <4>1, <4>3, <5>1, OneMore
        <5>. QED BY <4>3, <4>7, <5>2, CountsFinite
      <4>8. CASE mm[next] # None
        <5>1. Borrowers(old)' = rest
          BY <2>2, <4>1, <4>4, <4>5, <4>6, <4>8 DEF Borrowers
        <5>. QED BY <4>3, <4>8, <5>1, CountsFinite
      <4>. QED BY <4>7, <4>8
    <3>4. /\ Cardinality(Borrowers(old)) \in Nat /\ Cardinality(Pending(old)) \in Nat
          /\ Cardinality(Dropping(old)) \in Nat /\ Users(old) \in Nat /\ lent \in Nat /\ back \in Nat
      BY CountsFinite DEF Users
    <3>. HIDE DEF lent, back
    <3>. QED BY <1>0, <2>11, <3>1, <3>2, <3>3, <3>4 DEF References
  <2>. QED BY <2>10, <2>12, <2>13, MmCountedThen
<1>. QED BY <1>1, <1>2, <1>3, <1>4, <1>5, <1>6, <1>7, <1>8, <1>9, Steps

-----------------------------------------------------------------------------
Promised ==
  Homes /\ Waking /\ Unpinned /\ LockedTaskStays /\ Dead /\ Leaving /\ Sampled /\ Active /\ MmCounted
RqInv == TypeOK /\ Locking /\ (~astray => Promised)

LEMMA InitCounts == Init => MmCounted
<1>. SUFFICES ASSUME Init, NEW m \in MMs PROVE mm_count[m] = References(m)
  BY MmCountedIs
<1>1. /\ \A c \in CPUs : prev_mm[c] = None /\ act[c] = Free
      /\ mm = [t \in Threads |-> IF t \in WithMm THEN t ELSE None]
      /\ active_mm = [t \in Threads |-> IF t \in WithMm THEN t ELSE IF t \in Idles THEN "init_mm" ELSE None]
      /\ mm_count = [k \in MMs |-> IF k \in Tasks THEN 1 ELSE 1 + Cardinality(CPUs)]
  BY DEF Init, Actors
<1>2. m # None /\ WithMm \subseteq Tasks /\ Tasks \subseteq Threads /\ Idles \subseteq Threads
  BY RqAssumption, ThreadsAssumption DEF MMs, Threads
<1>3. Pending(m) = {} /\ Dropping(m) = {}
  BY <1>1, <1>2 DEF Pending, Dropping, Free
<1>4. Cardinality({}) = 0 /\ Cardinality(CPUs) \in Nat
  BY ThreadsFinite, FS_EmptySet, FS_CardinalityType
<1>5. CASE m \in WithMm
  <2>1. Borrowers(m) = {}
    BY <1>1, <1>2, <1>5, ThreadsAssumption DEF Borrowers, Threads
  <2>2. Users(m) = 1 /\ mm_count[m] = 1
    BY <1>1, <1>2, <1>5 DEF Users
  <2>. QED BY <1>3, <1>4, <2>1, <2>2 DEF References
<1>6. CASE m = "init_mm"
  <2>1. Borrowers(m) = Idles
    BY <1>1, <1>2, <1>6, ThreadsAssumption DEF Borrowers, Threads
  <2>2. Users(m) = 1 /\ mm_count[m] = 1 + Cardinality(CPUs)
    BY <1>1, <1>6, ThreadsAssumption DEF Users
  <2>. QED BY <1>3, <1>4, <2>1, <2>2, ThreadsFinite DEF References
<1>. QED BY <1>5, <1>6 DEF MMs

LEMMA InitInv == Init => RqInv
<1>. SUFFICES ASSUME Init PROVE RqInv
  OBVIOUS
<1>0. /\ \A a \in Actors : act[a] = Free
      /\ act \in [Actors -> CpuActs \cup WatchActs]
      /\ CPUs \subseteq Actors /\ None \notin Actors
      /\ \A c \in CPUs : lock[c] = None /\ curr[c] = idle(c) /\ on[c] = idle(c) /\ idle(c) \in Idles
      /\ \A t \in Tasks : state[t] = "running" /\ dropped[t] = 0 /\ t \in queued
  BY RqAssumption DEF Init, Actors, Idles, CpuActs
<1>1. TypeOK
  <2>1. \E c \in CPUs : \A d \in CPUs : c <= d
    <3>. CPUs \subseteq Nat /\ CPUs # {} /\ CPUs \in SUBSET Nat
      BY RqAssumption
    <3>1. PICK c \in CPUs : \A d \in CPUs : <<d, c>> \notin OpToRel(<, Nat)
      BY NatLessThanWellFounded, WFMin, Zenon
    <3>2. \A d \in CPUs : ~(d < c)
      BY <3>1 DEF OpToRel
    <3>. QED BY <3>2
  <2>2. cpu \in [Tasks -> CPUs]
    BY <2>1 DEF Init
  <2>3. Cardinality(CPUs) \in Nat
    BY ThreadsFinite, FS_CardinalityType
  <2>4. lock \in [CPUs -> Actors \cup {None}] /\ curr \in [CPUs -> Threads] /\ on \in [CPUs -> Threads]
    BY DEF Init, Threads, Idles
  <2>5. mm \in [Threads -> MMs \cup {None}] /\ active_mm \in [Threads -> MMs \cup {None}]
        /\ mm_count \in [MMs -> Int] /\ prev_mm \in [CPUs -> MMs \cup {None}]
    BY <2>3 DEF Init, MMs
  <2>. QED BY <2>2, <2>4, <2>5 DEF Init, TypeOK
<1>2. Locking
  <2>1. ActsOK
    BY <1>0 DEF ActsOK, Acts, CpuActs, WatchActs, Init
  <2>2. Ordered
    BY <1>0 DEF Ordered, InOrder, Free
  <2>3. Locks
    BY <1>0 DEF Locks, Holds, Free
  <2>. QED BY <2>1, <2>2, <2>3 DEF Locking
<1>3. Homes
  BY <1>0, ThreadsAssumption DEF Homes, AtHome, InSchedule, Moves, Free
<1>4. LockedTaskStays /\ Waking /\ Unpinned
  BY <1>0 DEF LockedTaskStays, Waking, Unpinned, Carries, Free, Init
<1>5. Dead
  BY <1>0 DEF Dead, Free
<1>6. Leaving
  BY <1>0 DEF Leaving
<1>7. Sampled
  BY DEF Sampled, Init
<1>8. Active
  <2>1. \A t \in Threads : mm[t] = IF t \in WithMm THEN t ELSE None
    BY DEF Init
  <2>2. \A t \in Threads : active_mm[t] = IF t \in WithMm THEN t ELSE IF t \in Idles THEN "init_mm" ELSE None
    BY DEF Init
  <2>3. \A t \in Idles : \E c \in CPUs : on[c] = t
    BY <1>0 DEF Idles
  <2>. QED BY <1>0, <2>1, <2>2, <2>3, RqAssumption, ThreadsAssumption DEF Active, Threads, Init
<1>9. MmCounted
  BY InitCounts
<1>. QED BY <1>1, <1>2, <1>3, <1>4, <1>5, <1>6, <1>7, <1>8, <1>9 DEF RqInv, Promised

LEMMA RqStep == RqInv /\ [Next]_vars => RqInv'
<1>. SUFFICES ASSUME RqInv, [Next]_vars PROVE RqInv'
  OBVIOUS
<1>1. TypeOK' /\ Locking'
  BY TypeStep, LockingInvariant DEF RqInv, Locking
<1>2. ASSUME ~astray' PROVE Promised'
  <2>1. TypeOK /\ Locking /\ Promised
    BY <1>2, AstrayStays DEF RqInv
  <2>. QED BY <1>2, <2>1, HomesStep, LockedStays, WakingStep, DeadStep, LeavingStep, MmStep DEF Promised
<1>. QED BY <1>1, <1>2 DEF RqInv

LEMMA Once == Dead /\ TypeOK => DroppedOnce
<1>. SUFFICES ASSUME Dead, TypeOK, NEW t \in Tasks
              PROVE  dropped[t] <= 1 /\ (dropped[t] = 1 => \A c \in CPUs : on[c] # t)
  BY DEF DroppedOnce
<1>1. CASE state[t] = "dead"
  BY <1>1 DEF Dead, Last
<1>2. CASE state[t] # "dead"
  BY <1>2 DEF Dead
<1>. QED BY <1>1, <1>2

-----------------------------------------------------------------------------
(* The groups in use are a tree below the root, and all that is named by   *)
(* tasks and writers is in it.                                             *)
NoLoops == \A X \in SUBSET RG!Used : X # {} => \E g \in X : parent[g] \notin X
Tree ==
  /\ Root \in RG!Used /\ \A g \in RG!Used : parent[g] \in RG!Used \/ (g = Root /\ parent[g] = None)
  /\ NoLoops
  /\ \A g \in Groups : status[g] = "hidden" <=> sharing = g
  /\ \A t \in RtTasks : /\ cgroup[t] \in RG!Used /\ rq_tg[t] \in RG!Used
                        /\ attach[t] \in Groups => attach[t] \in RG!Used
  /\ \A w \in Writers : set[w] # None => set[w].g \in RG!Used

(* def_rt_bandwidth keeps the old values until the handler has decided.    *)
Kept == def_rt = IF handler = None THEN sysctl ELSE handler

(* The groups fit below what new groups start from.                        *)
Fits ==
  ~unsure => \A g \in RG!Used :
    /\ RG!to_ratio(band[g]) <= RG!to_ratio(def_rt)
    /\ RG!SumRatio({c \in RG!Used : parent[c] = g}, band) <= RG!to_ratio(band[g])

(* A task whose check was not overtaken is, and will be, where it may run. *)
Runs ==
  /\ \A t \in RtTasks :
       /\ attach[t] # "moving" => rq_tg[t] = cgroup[t]
       /\ t \in setsched => ~rt_task[t]
  /\ \A t \in RtTasks \ stale : rt_task[t] =>
       /\ attach[t] \in Groups => RG!CanRun(attach[t])
       /\ attach[t] = "moving" => RG!CanRun(cgroup[t])
  /\ ~unsure /\ def_rt.runtime # INF => \A t \in RtTasks \ stale :
       /\ rt_task[t] /\ attach[t] = None => RG!CanRun(rq_tg[t])
       /\ t \in setsched => RG!CanRun(cgroup[t])
  /\ handler # None /\ handler.runtime = INF /\ sysctl.runtime # INF => setsched \subseteq stale

BandInv == RG!TypeOK /\ Tree /\ Kept /\ Fits /\ Runs

LEMMA RatioType ==
  ASSUME NEW b \in RG!Bandwidths
  PROVE  RG!to_ratio(b) \in Nat /\ (b.runtime = 0 => RG!to_ratio(b) = 0)
<1>1. b.period \in Nat \ {0} /\ b.runtime \in Nat /\ INF # 0
  BY GroupsAssumption DEF RG!Bandwidths
<1>2. \A x \in Nat : x \div b.period \in Nat /\ 0 \div b.period = 0
  BY <1>1
<1>3. Full * b.runtime \in Nat /\ Full * 0 = 0
  BY <1>1, GroupsAssumption
<1>. QED BY <1>1, <1>2, <1>3, GroupsAssumption DEF RG!to_ratio

Units(S, b) == UNION {{c} \X (1..RG!to_ratio(b[c])) : c \in S}

LEMMA SumIs ==
  ASSUME NEW S, NEW b
  PROVE  RG!SumRatio(S, b) = Cardinality(Units(S, b))
BY DEF RG!SumRatio, Units, RG!Cardinality, Cardinality

LEMMA NoSum ==
  ASSUME NEW b
  PROVE  RG!SumRatio({}, b) = 0
<1>1. Units({}, b) = {}
  BY DEF Units
<1>. QED BY <1>1, SumIs, FS_EmptySet

(* Leaving out groups and adding some with nothing gives no larger sum.    *)
LEMMA SumLess ==
  ASSUME NEW S \in SUBSET Groups, NEW T, NEW b \in [Groups -> RG!Bandwidths], NEW d,
         \A c \in T : (c \in S /\ d[c] = b[c]) \/ RG!to_ratio(d[c]) = 0
  PROVE  /\ RG!SumRatio(T, d) \in Nat /\ RG!SumRatio(S, b) \in Nat
         /\ RG!SumRatio(T, d) <= RG!SumRatio(S, b)
<1>1. IsFiniteSet(S)
  BY GroupsAssumption, FS_Subset
<1>2. ASSUME NEW c \in S PROVE IsFiniteSet({c} \X (1..RG!to_ratio(b[c])))
  <2>1. RG!to_ratio(b[c]) \in Nat
    BY RatioType
  <2>2. IsFiniteSet({c})
    BY FS_Singleton
  <2>3. \A n \in Nat : IsFiniteSet(1..n)
    BY FS_Interval
  <2>. QED BY <2>1, <2>2, <2>3, FS_Product
<1>3. IsFiniteSet(Units(S, b))
  <2>. DEFINE f == [c \in S |-> {c} \X (1..RG!to_ratio(b[c]))]
  <2>2. f \in Surjection(S, {f[c] : c \in S})
    BY DEF Surjection
  <2>3. IsFiniteSet({f[c] : c \in S})
    BY <1>1, <2>2, FS_Surjection
  <2>1. IsFiniteSet({{c} \X (1..RG!to_ratio(b[c])) : c \in S})
    BY <2>3
  <2>. QED BY <1>2, <2>1, FS_UNION DEF Units
<1>4. Units(T, d) \in SUBSET Units(S, b)
  <2>1. ASSUME NEW c \in T PROVE {c} \X (1..RG!to_ratio(d[c])) \subseteq Units(S, b)
    <3>1. CASE c \in S /\ d[c] = b[c]
      BY <3>1 DEF Units
    <3>2. CASE RG!to_ratio(d[c]) = 0
      <4>1. 1..0 = {}
        OBVIOUS
      <4>. QED BY <3>2, <4>1
    <3>. QED BY <2>1, <3>1, <3>2
  <2>. QED BY <2>1 DEF Units
<1>5. /\ Cardinality(Units(T, d)) \in Nat /\ Cardinality(Units(S, b)) \in Nat
      /\ Cardinality(Units(T, d)) <= Cardinality(Units(S, b))
  BY <1>3, <1>4, FS_Subset, FS_CardinalityType
<1>. QED BY <1>5, SumIs

(* With every group on its list the walk meets all that are in use.        *)
LEMMA WalkMeetsAll ==
  ASSUME Tree, ~\E g \in Groups : status[g] = "hidden"
  PROVE  /\ RG!Used \subseteq RG!walk_tg_tree
         /\ \A g \in Groups : RG!Children(g) = {c \in RG!Used : parent[c] = g}
<1>1. ASSUME NEW g \in RG!Used, NEW S \in SUBSET Groups, Root \in S,
             \A c \in Groups : status[c] = "listed" /\ parent[c] \in S => c \in S
      PROVE  g \in S
  <2>. SUFFICES ASSUME g \notin S PROVE FALSE
    OBVIOUS
  <2>. DEFINE X == RG!Used \ S
  <2>1. PICK h \in X : parent[h] \notin X
    BY DEF Tree, NoLoops
  <2>2. h # Root /\ parent[h] \in S
    BY <1>1, <2>1 DEF Tree
  <2>3. h \in Groups /\ status[h] = "listed"
    BY DEF RG!Used
  <2>. QED BY <1>1, <2>2, <2>3
<1>2. RG!Used \subseteq Groups
  BY DEF RG!Used
<1>3. RG!Used \subseteq RG!walk_tg_tree
  BY <1>1, <1>2 DEF RG!walk_tg_tree
<1>4. \A g \in Groups : RG!Children(g) = {c \in RG!Used : parent[c] = g}
  BY DEF RG!Children, RG!Used
<1>. QED BY <1>3, <1>4

-----------------------------------------------------------------------------
LEMMA GroupsTypeStep == RG!TypeOK /\ [RG!Next]_RG!vars => RG!TypeOK'
<1>. SUFFICES ASSUME RG!TypeOK, [RG!Next]_RG!vars PROVE RG!TypeOK'
  OBVIOUS
<1>. USE DEF RG!TypeOK, RG!group_vars, RG!glob_vars, RG!task_vars
<1>1. ASSUME NEW g \in Groups, NEW p \in Groups, RG!sched_create_group(g, p) PROVE RG!TypeOK'
  <2>1. RG!alloc_rt_sched_group \in RG!Bandwidths
    BY GroupsAssumption DEF RG!alloc_rt_sched_group, RG!Bandwidths
  <2>. QED BY <1>1, <2>1 DEF RG!sched_create_group
<1>2. ASSUME NEW g \in Groups, RG!sched_destroy_group(g) PROVE RG!TypeOK'
  BY <1>2 DEF RG!sched_destroy_group
<1>3. ASSUME NEW g \in Groups, RG!free_sched_group_rcu(g) \/ RG!SharesUnlink(g) PROVE RG!TypeOK'
  BY <1>3 DEF RG!free_sched_group_rcu, RG!SharesUnlink
<1>4. CASE RG!SharesRelink
  BY <1>4 DEF RG!SharesRelink
<1>5. CASE RG!SysctlDecide
  BY <1>5 DEF RG!SysctlDecide, RG!EnabledAgain, RG!Unsure
<1>6. ASSUME NEW w \in Writers, NEW g \in Groups,
             \/ \E r \in Runtimes \cup {INF} : RG!SetRuntime(w, g, r)
             \/ \E p \in Periods : RG!SetPeriod(w, g, p)
      PROVE  RG!TypeOK'
  <2>1. band[g].period \in Periods /\ band[g].runtime \in Runtimes \cup {INF}
    BY DEF RG!Bandwidths
  <2>. QED BY <1>6, <2>1 DEF RG!SetRuntime, RG!SetPeriod
<1>7. ASSUME NEW w \in Writers, RG!tg_set_bandwidth(w) PROVE RG!TypeOK'
  <2>1. [period |-> set[w].period, runtime |-> set[w].runtime] \in RG!Bandwidths
    BY <1>7 DEF RG!tg_set_bandwidth, RG!Bandwidths
  <2>2. RG!OnTheirWay(set[w].g) \subseteq RtTasks
    BY DEF RG!OnTheirWay
  <2>3. band' \in [Groups -> RG!Bandwidths]
    BY <1>7, <2>1 DEF RG!tg_set_bandwidth
  <2>4. stale' \subseteq RtTasks /\ unsure' \in BOOLEAN
    BY <1>7, <2>2 DEF RG!tg_set_bandwidth, RG!Unsure
  <2>. QED BY <1>7, <2>3, <2>4 DEF RG!tg_set_bandwidth
<1>8. ASSUME NEW s \in RG!Bandwidths, RG!SysctlWrite(s) PROVE RG!TypeOK'
  BY <1>8 DEF RG!SysctlWrite, RG!EnabledAgain
<1>9. ASSUME NEW t \in RtTasks, RG!SetschedCheck(t) \/ RG!SetschedCommit(t) \/ RG!BecomeFair(t) PROVE RG!TypeOK'
  BY <1>9 DEF RG!SetschedCheck, RG!SetschedCommit, RG!BecomeFair
<1>10. ASSUME NEW t \in RtTasks, RG!AttachCss(t) \/ RG!sched_move_task(t) \/ RG!Migrated(t) PROVE RG!TypeOK'
  BY <1>10 DEF RG!AttachCss, RG!sched_move_task, RG!Migrated, RG!set_task_rq
<1>11. ASSUME NEW t \in RtTasks, NEW g \in Groups, RG!CanAttach(t, g) PROVE RG!TypeOK'
  BY <1>11 DEF RG!CanAttach
<1>12. CASE UNCHANGED RG!vars
  BY <1>12 DEF RG!vars
<1>. QED BY <1>1, <1>2, <1>3, <1>4, <1>5, <1>6, <1>7, <1>8, <1>9, <1>10, <1>11, <1>12 DEF RG!Next

(* A group is added as a leaf and removed when nothing refers to it.       *)
LEMMA TreeKept ==
  ASSUME Tree, RG!Used' = RG!Used, parent' = parent,
         \A g \in Groups : status'[g] = "hidden" <=> sharing' = g,
         \A t \in RtTasks : /\ cgroup'[t] \in RG!Used /\ rq_tg'[t] \in RG!Used
                            /\ attach'[t] \in Groups => attach'[t] \in RG!Used,
         \A w \in Writers : set'[w] # None => set'[w].g \in RG!Used
  PROVE  Tree'
BY DEF Tree, NoLoops

LEMMA TreeStep == RG!TypeOK /\ Tree /\ [RG!Next]_RG!vars => Tree'
<1>. SUFFICES ASSUME RG!TypeOK, Tree, [RG!Next]_RG!vars PROVE Tree'
  OBVIOUS
<1>. USE DEF RG!group_vars, RG!glob_vars, RG!task_vars
<1>0. /\ RG!Used \subseteq Groups /\ \A g \in Groups : status[g] = "hidden" => g \in RG!Used
      /\ None \notin Groups /\ "moving" \notin Groups
  BY GroupsAssumption DEF RG!Used
<1>1. ASSUME NEW g \in Groups, NEW p \in Groups, RG!sched_create_group(g, p) PROVE Tree'
  <2>1. /\ RG!Used' = RG!Used \cup {g} /\ g \notin RG!Used /\ p \in RG!Used
        /\ parent' = [parent EXCEPT ![g] = p]
    BY <1>1 DEF RG!sched_create_group, RG!Used, RG!TypeOK
  <2>2. \A h \in RG!Used : parent[h] # g /\ parent'[h] = parent[h]
    BY <1>0, <2>1 DEF Tree, RG!TypeOK
  <2>3. parent'[g] = p
    BY <2>1 DEF RG!TypeOK
  <2>4. NoLoops'
    <3>1. SUFFICES ASSUME NEW X \in SUBSET (RG!Used \cup {g}), X # {}
                   PROVE  \E h \in X : parent'[h] \notin X
      BY <2>1 DEF NoLoops
    <3>2. CASE X \ {g} = {}
      BY <2>1, <2>3, <3>1, <3>2
    <3>3. CASE X \ {g} # {}
      <4>1. PICK h \in X \ {g} : parent[h] \notin X \ {g}
        BY <3>3 DEF Tree, NoLoops
      <4>. QED BY <2>2, <3>1, <4>1
    <3>. QED BY <3>2, <3>3
  <2>5. \A h \in RG!Used' : parent'[h] \in RG!Used' \/ (h = Root /\ parent'[h] = None)
    BY <2>1, <2>2, <2>3 DEF Tree
  <2>6. \A h \in Groups : status'[h] = "hidden" <=> sharing' = h
    BY <1>1 DEF Tree, RG!sched_create_group, RG!TypeOK
  <2>7. UNCHANGED <<cgroup, rq_tg, attach, set>>
    BY <1>1 DEF RG!sched_create_group
  <2>. QED BY <2>1, <2>4, <2>5, <2>6, <2>7 DEF Tree
<1>2. ASSUME NEW g \in Groups, RG!sched_destroy_group(g) PROVE Tree'
  <2>1. /\ RG!Used' = RG!Used \ {g} /\ g # Root /\ \A h \in RG!Used \ {g} : parent'[h] = parent[h]
        /\ UNCHANGED <<cgroup, rq_tg, attach, set, sharing>> /\ ~RG!InUse(g)
    BY <1>2 DEF RG!sched_destroy_group, RG!Used, RG!TypeOK
  <2>2. \A h \in RG!Used : parent[h] # g
    BY <2>1 DEF RG!InUse
  <2>3. /\ \A t \in RtTasks : cgroup[t] # g /\ rq_tg[t] # g /\ attach[t] # g
        /\ \A w \in Writers : set[w] # None => set[w].g # g
        /\ sharing # g
    BY <2>1 DEF RG!InUse
  <2>4. NoLoops'
    BY <2>1 DEF Tree, NoLoops
  <2>5. \A h \in Groups : status'[h] = "hidden" <=> sharing' = h
    BY <1>2, <2>1, <2>3 DEF Tree, RG!sched_destroy_group, RG!TypeOK
  <2>. QED BY <2>1, <2>2, <2>3, <2>4, <2>5 DEF Tree
<1>3. ASSUME NEW g \in Groups, RG!free_sched_group_rcu(g) PROVE Tree'
  <2>1. RG!Used' = RG!Used /\ UNCHANGED <<parent, cgroup, rq_tg, attach, set, sharing>>
    BY <1>3 DEF RG!free_sched_group_rcu, RG!Used, RG!TypeOK
  <2>2. \A h \in Groups : status'[h] = "hidden" <=> status[h] = "hidden"
    BY <1>3 DEF RG!free_sched_group_rcu, RG!TypeOK
  <2>. QED BY <2>1, <2>2, TreeKept DEF Tree
<1>4. ASSUME NEW g \in Groups, RG!SharesUnlink(g) PROVE Tree'
  <2>1. RG!Used' = RG!Used /\ UNCHANGED <<parent, cgroup, rq_tg, attach, set>>
    BY <1>4 DEF RG!SharesUnlink, RG!Used, RG!TypeOK
  <2>2. \A h \in Groups : status'[h] = "hidden" <=> sharing' = h
    BY <1>0, <1>4 DEF RG!SharesUnlink, RG!TypeOK, Tree
  <2>. QED BY <2>1, <2>2, TreeKept DEF Tree
<1>5. CASE RG!SharesRelink
  <2>1. sharing \in Groups /\ status[sharing] = "hidden"
    BY <1>5 DEF RG!SharesRelink, RG!TypeOK, Tree
  <2>2. RG!Used' = RG!Used /\ UNCHANGED <<parent, cgroup, rq_tg, attach, set>>
    BY <1>5, <2>1 DEF RG!SharesRelink, RG!Used, RG!TypeOK
  <2>3. \A h \in Groups : status'[h] = "hidden" <=> sharing' = h
    BY <1>0, <1>5, <2>1 DEF RG!SharesRelink, RG!TypeOK, Tree
  <2>. QED BY <2>2, <2>3, TreeKept DEF Tree
<1>6. ASSUME UNCHANGED <<status, parent, sharing>>, UNCHANGED <<cgroup, rq_tg, attach>>,
             \A w \in Writers : set'[w] # None => set'[w].g \in RG!Used
      PROVE  Tree'
  <2>1. RG!Used' = RG!Used
    BY <1>6 DEF RG!Used
  <2>. QED BY <1>6, <2>1, TreeKept DEF Tree
<1>7. ASSUME NEW w \in Writers, NEW g \in Groups,
             \/ \E r \in Runtimes \cup {INF} : RG!SetRuntime(w, g, r)
             \/ \E p \in Periods : RG!SetPeriod(w, g, p)
      PROVE  Tree'
  <2>1. \A v \in Writers : set'[v] # None => set'[v].g \in RG!Used
    BY <1>7 DEF RG!SetRuntime, RG!SetPeriod, RG!TypeOK, Tree
  <2>2. UNCHANGED <<status, parent, sharing>> /\ UNCHANGED <<cgroup, rq_tg, attach>>
    BY <1>7 DEF RG!SetRuntime, RG!SetPeriod
  <2>. QED BY <1>6, <2>1, <2>2
<1>8. ASSUME NEW w \in Writers, RG!tg_set_bandwidth(w) PROVE Tree'
  <2>1. UNCHANGED <<status, parent, sharing, cgroup, rq_tg, attach>> /\ set' = [set EXCEPT ![w] = None]
    BY <1>8 DEF RG!tg_set_bandwidth
  <2>2. \A v \in Writers : set'[v] # None => set'[v].g \in RG!Used
    BY <2>1 DEF RG!TypeOK, Tree
  <2>. QED BY <1>6, <2>1, <2>2
<1>9. CASE RG!SysctlDecide \/ \E s \in RG!Bandwidths : RG!SysctlWrite(s)
  BY <1>6, <1>9 DEF RG!SysctlWrite, RG!SysctlDecide, Tree
<1>10. ASSUME NEW t \in RtTasks, RG!SetschedCheck(t) \/ RG!SetschedCommit(t) \/ RG!BecomeFair(t) PROVE Tree'
  BY <1>6, <1>10 DEF RG!SetschedCheck, RG!SetschedCommit, RG!BecomeFair, Tree
<1>11. ASSUME UNCHANGED <<status, parent, sharing, set>>,
              \A t \in RtTasks : /\ cgroup'[t] \in RG!Used /\ rq_tg'[t] \in RG!Used
                                 /\ attach'[t] \in Groups => attach'[t] \in RG!Used
       PROVE  Tree'
  <2>1. RG!Used' = RG!Used
    BY <1>11 DEF RG!Used
  <2>. QED BY <1>11, <2>1, TreeKept DEF Tree
<1>12. ASSUME NEW t \in RtTasks, RG!AttachCss(t) PROVE Tree'
  BY <1>0, <1>11, <1>12 DEF RG!AttachCss, RG!TypeOK, Tree
<1>13. ASSUME NEW t \in RtTasks, RG!sched_move_task(t) \/ RG!Migrated(t) PROVE Tree'
  BY <1>0, <1>11, <1>13, SMTT(30) DEF RG!sched_move_task, RG!Migrated, RG!set_task_rq, RG!TypeOK, Tree
<1>14. ASSUME NEW t \in RtTasks, NEW g \in Groups, RG!CanAttach(t, g) PROVE Tree'
  BY <1>11, <1>14 DEF RG!CanAttach, RG!TypeOK, Tree
<1>15. CASE UNCHANGED RG!vars
  BY <1>6, <1>15 DEF RG!vars, Tree
<1>. QED BY <1>1, <1>2, <1>3, <1>4, <1>5, <1>7, <1>8, <1>9, <1>10, <1>12, <1>13, <1>14, <1>15 DEF RG!Next

-----------------------------------------------------------------------------
LEMMA KeptStep == RG!TypeOK /\ Kept /\ [RG!Next]_RG!vars => Kept'
<1>. SUFFICES ASSUME RG!TypeOK, Kept, [RG!Next]_RG!vars PROVE Kept'
  OBVIOUS
<1>1. CASE RG!SysctlDecide
  BY <1>1 DEF RG!SysctlDecide, Kept
<1>2. ASSUME NEW s \in RG!Bandwidths, RG!SysctlWrite(s) PROVE Kept'
  <2>1. handler' # None
    BY <1>2, GroupsAssumption DEF RG!SysctlWrite, RG!TypeOK, RG!Bandwidths
  <2>. QED BY <1>2, <2>1 DEF RG!SysctlWrite, Kept
<1>3. CASE UNCHANGED <<sysctl, handler, def_rt>>
  BY <1>3 DEF Kept
<1>. QED BY <1>1, <1>2, <1>3
         DEF RG!Next, RG!vars, RG!glob_vars, RG!sched_create_group, RG!sched_destroy_group,
             RG!free_sched_group_rcu, RG!SharesUnlink, RG!SharesRelink, RG!SetRuntime, RG!SetPeriod,
             RG!tg_set_bandwidth, RG!SetschedCheck, RG!SetschedCommit, RG!BecomeFair, RG!AttachCss,
             RG!sched_move_task, RG!Migrated, RG!CanAttach

(* What an admission test says of every group when none is off its list.   *)
LEMMA TestedAll ==
  ASSUME RG!TypeOK, Tree, ~\E g \in Groups : status[g] = "hidden",
         NEW b, RG!__rt_schedulable(b), NEW g \in RG!Used
  PROVE  /\ RG!to_ratio(b[g]) <= RG!to_ratio(sysctl)
         /\ RG!SumRatio({c \in RG!Used : parent[c] = g}, b) <= RG!to_ratio(b[g])
         /\ sysctl.runtime # INF /\ b[g].runtime = 0 => \A t \in RtTasks : ~(rt_task[t] /\ rq_tg[t] = g)
<1>1. RG!tg_schedulable(g, b)
  BY WalkMeetsAll DEF RG!__rt_schedulable
<1>2. RG!Children(g) = {c \in RG!Used : parent[c] = g}
  BY WalkMeetsAll DEF RG!Used
<1>. QED BY <1>1, <1>2 DEF RG!tg_schedulable, RG!tg_has_rt_tasks, RG!rt_bandwidth_enabled

LEMMA FitsKept ==
  ASSUME Fits, UNCHANGED <<parent, band, def_rt>>, RG!Used' = RG!Used, ~unsure' => ~unsure
  PROVE  Fits'
BY DEF Fits

LEMMA SumStillFits ==
  ASSUME RG!TypeOK, Fits, ~unsure, NEW g \in RG!Used, NEW T, NEW d,
         \A c \in T : (c \in RG!Used /\ parent[c] = g /\ d[c] = band[c]) \/ RG!to_ratio(d[c]) = 0
  PROVE  RG!SumRatio(T, d) <= RG!to_ratio(band[g])
<1>. DEFINE S == {c \in RG!Used : parent[c] = g}
<1>1. RG!SumRatio(S, band) <= RG!to_ratio(band[g])
  BY DEF Fits
<1>2. S \in SUBSET Groups /\ band \in [Groups -> RG!Bandwidths] /\ g \in Groups
  BY DEF RG!Used, RG!TypeOK
<1>3. \A c \in T : (c \in S /\ d[c] = band[c]) \/ RG!to_ratio(d[c]) = 0
  OBVIOUS
<1>. HIDE DEF S
<1>4. /\ RG!SumRatio(T, d) \in Nat /\ RG!SumRatio(S, band) \in Nat
      /\ RG!SumRatio(T, d) <= RG!SumRatio(S, band)
  BY <1>2, <1>3, SumLess
<1>5. RG!to_ratio(band[g]) \in Nat
  BY <1>2, RatioType
<1>. QED BY <1>1, <1>4, <1>5

LEMMA FitsStep == RG!TypeOK /\ Tree /\ Kept /\ Fits /\ [RG!Next]_RG!vars => Fits'
<1>. SUFFICES ASSUME RG!TypeOK, Tree, Kept, Fits, [RG!Next]_RG!vars PROVE Fits'
  OBVIOUS
<1>. USE DEF RG!group_vars, RG!glob_vars, RG!task_vars
<1>0. RG!Used \subseteq Groups /\ band \in [Groups -> RG!Bandwidths]
  BY DEF RG!Used, RG!TypeOK
<1>1. ASSUME NEW g \in Groups, NEW p \in Groups, RG!sched_create_group(g, p) PROVE Fits'
  <2>1. /\ RG!Used' = RG!Used \cup {g} /\ g \notin RG!Used /\ p \in RG!Used /\ def_rt' = def_rt
        /\ unsure' = unsure /\ \A h \in RG!Used : band'[h] = band[h] /\ parent'[h] = parent[h]
    BY <1>0, <1>1 DEF RG!sched_create_group, RG!Used, RG!TypeOK
  <2>2. RG!to_ratio(band'[g]) = 0 /\ RG!to_ratio(def_rt) \in Nat
    <3>1. band'[g] = RG!alloc_rt_sched_group /\ def_rt \in RG!Bandwidths
      BY <1>1 DEF RG!sched_create_group, RG!TypeOK
    <3>2. RG!alloc_rt_sched_group \in RG!Bandwidths /\ RG!alloc_rt_sched_group.runtime = 0
      BY <3>1, GroupsAssumption DEF RG!alloc_rt_sched_group, RG!Bandwidths
    <3>. QED BY <3>1, <3>2, RatioType
  <2>3. \A h \in RG!Used : parent[h] # g
    BY <1>0, <2>1, GroupsAssumption DEF Tree
  <2>4. parent'[g] = p
    BY <1>1 DEF RG!sched_create_group, RG!TypeOK
  <2>5. PICK d : d = band'
    OBVIOUS
  <2>. SUFFICES ASSUME ~unsure, NEW h \in RG!Used \cup {g}
                PROVE  /\ RG!to_ratio(band'[h]) <= RG!to_ratio(def_rt)
                       /\ RG!SumRatio({c \in RG!Used \cup {g} : parent'[c] = h}, d) <= RG!to_ratio(band'[h])
    BY <2>1, <2>5 DEF Fits
  <2>6. CASE h = g
    <3>1. {c \in RG!Used \cup {g} : parent'[c] = h} = {}
      BY <2>1, <2>3, <2>4, <2>6
    <3>2. RG!SumRatio({}, d) = 0
      BY NoSum
    <3>. QED BY <2>2, <2>6, <3>1, <3>2
  <2>7. CASE h \in RG!Used
    <3>1. \A c \in {c \in RG!Used \cup {g} : parent'[c] = h} :
            (c \in RG!Used /\ parent[c] = h /\ d[c] = band[c]) \/ RG!to_ratio(d[c]) = 0
      BY <2>1, <2>2, <2>5
    <3>2. RG!SumRatio({c \in RG!Used \cup {g} : parent'[c] = h}, d) <= RG!to_ratio(band[h])
      BY <2>7, <3>1, SumStillFits
    <3>. QED BY <2>1, <2>7, <3>2 DEF Fits
  <2>. QED BY <2>6, <2>7
<1>2. ASSUME NEW g \in Groups, RG!sched_destroy_group(g) PROVE Fits'
  <2>1. /\ RG!Used' = RG!Used \ {g} /\ def_rt' = def_rt /\ unsure' = unsure
        /\ \A h \in RG!Used \ {g} : band'[h] = band[h] /\ parent'[h] = parent[h]
    BY <1>0, <1>2 DEF RG!sched_destroy_group, RG!Used, RG!TypeOK
  <2>2. PICK d : d = band'
    OBVIOUS
  <2>. SUFFICES ASSUME ~unsure, NEW h \in RG!Used \ {g}
                PROVE  /\ RG!to_ratio(band'[h]) <= RG!to_ratio(def_rt)
                       /\ RG!SumRatio({c \in RG!Used \ {g} : parent'[c] = h}, d) <= RG!to_ratio(band'[h])
    BY <2>1, <2>2 DEF Fits
  <2>3. \A c \in {c \in RG!Used \ {g} : parent'[c] = h} :
          (c \in RG!Used /\ parent[c] = h /\ d[c] = band[c]) \/ RG!to_ratio(d[c]) = 0
    BY <2>1, <2>2
  <2>4. RG!SumRatio({c \in RG!Used \ {g} : parent'[c] = h}, d) <= RG!to_ratio(band[h])
    BY <2>3, SumStillFits
  <2>. QED BY <2>1, <2>4 DEF Fits
<1>3. ASSUME NEW g \in Groups, RG!free_sched_group_rcu(g) \/ RG!SharesUnlink(g) PROVE Fits'
  <2>1. RG!Used' = RG!Used
    BY <1>3 DEF RG!free_sched_group_rcu, RG!SharesUnlink, RG!Used, RG!TypeOK
  <2>. QED BY <1>3, <2>1, FitsKept DEF RG!free_sched_group_rcu, RG!SharesUnlink
<1>4. CASE RG!SharesRelink
  <2>1. RG!Used' = RG!Used
    BY <1>4 DEF RG!SharesRelink, RG!Used, RG!TypeOK, Tree
  <2>. QED BY <1>4, <2>1, FitsKept DEF RG!SharesRelink
<1>5. ASSUME UNCHANGED <<status, parent, band, def_rt, unsure>> PROVE Fits'
  <2>1. RG!Used' = RG!Used
    BY <1>5 DEF RG!Used
  <2>. QED BY <1>5, <2>1, FitsKept
<1>6. ASSUME NEW b, RG!__rt_schedulable(b), band' = b, def_rt' = sysctl, UNCHANGED <<status, parent>>,
             ~unsure' => ~\E g \in Groups : status[g] = "hidden"
      PROVE  Fits'
  <2>1. RG!Used' = RG!Used
    BY <1>6 DEF RG!Used
  <2>. SUFFICES ASSUME ~unsure', NEW g \in RG!Used
                PROVE  /\ RG!to_ratio(b[g]) <= RG!to_ratio(sysctl)
                       /\ RG!SumRatio({c \in RG!Used : parent[c] = g}, b) <= RG!to_ratio(b[g])
    BY <1>6, <2>1 DEF Fits
  <2>. QED BY <1>6, TestedAll
<1>7. CASE RG!SysctlDecide
  <2>1. CASE RG!sched_rt_global_constraints
    <3>1. RG!__rt_schedulable(band) /\ band' = band /\ def_rt' = sysctl /\ UNCHANGED <<status, parent>>
      BY <1>7, <2>1 DEF RG!SysctlDecide, RG!sched_rt_global_constraints
    <3>2. ~unsure' => ~\E g \in Groups : status[g] = "hidden"
      BY <1>7, <2>1 DEF RG!SysctlDecide, RG!Unsure
    <3>. QED BY <1>6, <3>1, <3>2
  <2>2. CASE ~RG!sched_rt_global_constraints
    BY <1>5, <1>7, <2>2 DEF RG!SysctlDecide
  <2>. QED BY <2>1, <2>2
<1>8. ASSUME NEW w \in Writers, RG!tg_set_bandwidth(w) PROVE Fits'
  <2>1. PICK b : b = [band EXCEPT ![set[w].g] = [period |-> set[w].period, runtime |-> set[w].runtime]]
    OBVIOUS
  <2>2. CASE RG!__rt_schedulable(b)
    <3>1. band' = b /\ UNCHANGED <<status, parent, def_rt>>
      BY <1>8, <2>1, <2>2 DEF RG!tg_set_bandwidth
    <3>2. unsure' = (unsure \/ RG!Unsure(FALSE))
      BY <1>8, <2>1, <2>2 DEF RG!tg_set_bandwidth
    <3>3. CASE unsure'
      BY <3>3 DEF Fits
    <3>4. CASE ~unsure'
      <4>1. handler = None /\ ~\E g \in Groups : status[g] = "hidden"
        BY <3>2, <3>4 DEF RG!Unsure
      <4>2. def_rt' = sysctl
        BY <3>1, <4>1 DEF Kept
      <4>. QED BY <1>6, <2>2, <3>1, <4>1, <4>2
    <3>. QED BY <3>3, <3>4
  <2>3. CASE ~RG!__rt_schedulable(b)
    BY <1>5, <1>8, <2>1, <2>3 DEF RG!tg_set_bandwidth
  <2>. QED BY <2>2, <2>3
<1>9. CASE UNCHANGED RG!vars
  BY <1>5, <1>9 DEF RG!vars
<1>10. ASSUME NEW t \in RtTasks,
              \/ RG!SetschedCheck(t) \/ RG!SetschedCommit(t) \/ RG!BecomeFair(t) \/ RG!AttachCss(t)
              \/ RG!sched_move_task(t) \/ RG!Migrated(t) \/ \E g \in Groups : RG!CanAttach(t, g)
       PROVE  Fits'
  BY <1>5, <1>10 DEF RG!SetschedCheck, RG!SetschedCommit, RG!BecomeFair, RG!AttachCss,
                     RG!sched_move_task, RG!Migrated, RG!CanAttach
<1>11. ASSUME NEW w \in Writers, NEW g \in Groups,
              \/ \E r \in Runtimes \cup {INF} : RG!SetRuntime(w, g, r)
              \/ \E p \in Periods : RG!SetPeriod(w, g, p)
       PROVE  Fits'
  BY <1>5, <1>11 DEF RG!SetRuntime, RG!SetPeriod
<1>12. ASSUME NEW s \in RG!Bandwidths, RG!SysctlWrite(s) PROVE Fits'
  BY <1>5, <1>12 DEF RG!SysctlWrite
<1>. QED BY <1>1, <1>2, <1>3, <1>4, <1>7, <1>8, <1>9, <1>10, <1>11, <1>12 DEF RG!Next

-----------------------------------------------------------------------------
(* Nothing that the tasks or the values in force say has changed, and what *)
(* has become of a group that may no longer run anybody is none of theirs. *)
LEMMA RunsKept ==
  ASSUME RG!TypeOK, Tree, Runs, UNCHANGED <<sysctl, handler, def_rt, RG!task_vars, unsure, stale>>,
         \A g \in RG!Used : RG!CanRun(g) => band'[g].runtime # 0
  PROVE  Runs'
BY DEF Runs, RG!CanRun, RG!task_vars, Tree

LEMMA RunsStep == RG!TypeOK /\ Tree /\ Kept /\ Runs /\ [RG!Next]_RG!vars => Runs'
<1>. SUFFICES ASSUME RG!TypeOK, Tree, Kept, Runs, [RG!Next]_RG!vars PROVE Runs'
  OBVIOUS
<1>. USE DEF RG!group_vars, RG!glob_vars, RG!task_vars
<1>0. /\ \A t \in RtTasks : /\ cgroup[t] \in RG!Used /\ rq_tg[t] \in RG!Used
                            /\ attach[t] \in Groups => attach[t] \in RG!Used
                            /\ attach[t] \in Groups \cup {None, "moving"}
      /\ None \notin Groups \cup {"moving"} /\ "moving" \notin Groups /\ RG!Used \subseteq Groups
  BY GroupsAssumption DEF Tree, RG!TypeOK, RG!Used
<1>1. ASSUME NEW g \in Groups, \/ \E p \in Groups : RG!sched_create_group(g, p)
                               \/ RG!sched_destroy_group(g) \/ RG!free_sched_group_rcu(g) \/ RG!SharesUnlink(g)
                               \/ RG!SharesRelink
      PROVE  Runs'
  <2>1. UNCHANGED <<sysctl, handler, def_rt, RG!task_vars, unsure, stale>>
    BY <1>1 DEF RG!sched_create_group, RG!sched_destroy_group, RG!free_sched_group_rcu, RG!SharesUnlink, RG!SharesRelink
  <2>2. CASE band' = band
    BY <2>1, <2>2, RunsKept DEF RG!CanRun
  <2>3. CASE \E p \in Groups : RG!sched_create_group(g, p)
    <3>1. \A h \in RG!Used : band'[h] = band[h]
      BY <2>3 DEF RG!sched_create_group, RG!Used, RG!TypeOK
    <3>. QED BY <2>1, <3>1, RunsKept DEF RG!CanRun
  <2>4. CASE RG!sched_destroy_group(g)
    <3>1. \A h \in RG!Used \ {g} : band'[h] = band[h]
      BY <2>4 DEF RG!sched_destroy_group, RG!Used, RG!TypeOK
    <3>2. \A t \in RtTasks : cgroup[t] # g /\ rq_tg[t] # g /\ attach[t] # g
      BY <2>4 DEF RG!sched_destroy_group, RG!InUse
    <3>3. UNCHANGED <<cgroup, rq_tg, rt_task, attach, setsched>>
      BY <2>1
    <3>4. \A t \in RtTasks : /\ band'[cgroup[t]] = band[cgroup[t]] /\ band'[rq_tg[t]] = band[rq_tg[t]]
                             /\ attach[t] \in Groups => band'[attach[t]] = band[attach[t]]
      BY <1>0, <3>1, <3>2
    <3>. QED BY <2>1, <3>3, <3>4 DEF Runs, RG!CanRun
  <2>. QED BY <1>1, <2>2, <2>3, <2>4 DEF RG!free_sched_group_rcu, RG!SharesUnlink, RG!SharesRelink
<1>2. ASSUME NEW w \in Writers, NEW g \in Groups,
             \/ \E r \in Runtimes \cup {INF} : RG!SetRuntime(w, g, r)
             \/ \E p \in Periods : RG!SetPeriod(w, g, p)
      PROVE  Runs'
  BY <1>2, RunsKept DEF RG!SetRuntime, RG!SetPeriod, RG!CanRun
<1>3. ASSUME NEW w \in Writers, RG!tg_set_bandwidth(w) PROVE Runs'
  <2>1. PICK g, b : g = set[w].g /\ b = [band EXCEPT ![g] = [period |-> set[w].period, runtime |-> set[w].runtime]]
    OBVIOUS
  <2>2. UNCHANGED <<sysctl, handler, def_rt, cgroup, rq_tg, rt_task, attach, setsched>> /\ g \in RG!Used
    BY <1>3, <2>1 DEF RG!tg_set_bandwidth, Tree
  <2>3. CASE ~RG!__rt_schedulable(b)
    <3>1. UNCHANGED <<band, unsure, stale>>
      BY <1>3, <2>1, <2>3 DEF RG!tg_set_bandwidth
    <3>. QED BY <2>2, <3>1, RunsKept DEF RG!CanRun
  <2>4. CASE RG!__rt_schedulable(b)
    <3>1. /\ band' = b /\ unsure' = (unsure \/ RG!Unsure(FALSE))
          /\ stale' = IF b[g].runtime = 0 THEN stale \cup RG!OnTheirWay(g) ELSE stale
      BY <1>3, <2>1, <2>4 DEF RG!tg_set_bandwidth
    <3>2. \A h \in RG!Used \ {g} : b[h] = band[h]
      BY <1>0, <2>1 DEF RG!TypeOK
    <3>3. CASE b[g].runtime # 0
      <4>1. \A h \in RG!Used : RG!CanRun(h) => b[h].runtime # 0
        BY <3>2, <3>3 DEF RG!CanRun
      <4>2. stale' = stale /\ (~unsure' => ~unsure)
        BY <3>1, <3>3
      <4>. QED BY <1>0, <2>2, <3>1, <4>1, <4>2 DEF Runs, RG!CanRun
    <3>4. CASE b[g].runtime = 0
      <4>1. /\ stale \subseteq stale'
            /\ \A t \in RtTasks \ stale' : /\ t \notin stale /\ attach[t] # g
                                           /\ cgroup[t] = g => attach[t] # "moving" /\ t \notin setsched
        BY <3>1, <3>4 DEF RG!OnTheirWay
      <4>2. ASSUME ~unsure', def_rt.runtime # INF, NEW t \in RtTasks, rt_task[t] PROVE rq_tg[t] # g
        <5>1. handler = None /\ ~\E h \in Groups : status[h] = "hidden"
          BY <3>1, <4>2 DEF RG!Unsure
        <5>2. sysctl.runtime # INF
          BY <4>2, <5>1 DEF Kept
        <5>. QED BY <2>2, <2>4, <3>4, <4>2, <5>1, <5>2, TestedAll
      <4>3. \A h \in RG!Used \ {g} : RG!CanRun(h) => b[h].runtime # 0
        BY <3>2 DEF RG!CanRun
      <4>4. ~unsure' => ~unsure
        BY <3>1
      <4>5. \A t \in RtTasks \ stale' : rt_task[t] =>
              /\ attach[t] \in Groups => b[attach[t]].runtime # 0
              /\ attach[t] = "moving" => b[cgroup[t]].runtime # 0
        BY <1>0, <4>1, <4>3 DEF Runs
      <4>6. ~unsure' /\ def_rt.runtime # INF => \A t \in RtTasks \ stale' :
              /\ rt_task[t] /\ attach[t] = None => b[rq_tg[t]].runtime # 0
              /\ t \in setsched => b[cgroup[t]].runtime # 0
        BY <1>0, <4>1, <4>2, <4>3, <4>4 DEF Runs
      <4>7. handler # None /\ handler.runtime = INF /\ sysctl.runtime # INF => setsched \subseteq stale'
        BY <4>1 DEF Runs
      <4>. QED BY <2>2, <3>1, <4>5, <4>6, <4>7 DEF Runs, RG!CanRun
    <3>. QED BY <3>3, <3>4
  <2>. QED BY <2>3, <2>4
<1>4. ASSUME NEW s \in RG!Bandwidths, RG!SysctlWrite(s) PROVE Runs'
  <2>1. /\ UNCHANGED <<def_rt, band, cgroup, rq_tg, rt_task, attach, setsched, unsure>>
        /\ handler' = sysctl /\ stale \subseteq stale'
        /\ sysctl.runtime = INF /\ sysctl'.runtime # INF => stale' = stale \cup setsched
    BY <1>4 DEF RG!SysctlWrite, RG!EnabledAgain, RG!rt_bandwidth_enabled
  <2>. QED BY <2>1 DEF Runs, RG!CanRun
<1>5. CASE RG!SysctlDecide
  <2>1. /\ UNCHANGED <<band, cgroup, rq_tg, rt_task, attach, setsched>> /\ handler' = None
        /\ stale \subseteq stale'
    BY <1>5 DEF RG!SysctlDecide, RG!EnabledAgain
  <2>2. CASE ~RG!sched_rt_global_constraints
    BY <1>5, <2>1, <2>2 DEF RG!SysctlDecide, Runs, RG!CanRun
  <2>3. CASE RG!sched_rt_global_constraints
    <3>1. def_rt' = sysctl /\ unsure' = (unsure \/ RG!Unsure(TRUE)) /\ RG!__rt_schedulable(band)
          /\ handler # None
      BY <1>5, <2>3 DEF RG!SysctlDecide, RG!sched_rt_global_constraints
    <3>2. ASSUME ~unsure', sysctl.runtime # INF
          PROVE  \A t \in RtTasks \ stale' : /\ rt_task[t] /\ attach[t] = None => RG!CanRun(rq_tg[t])
                                             /\ t \in setsched => RG!CanRun(cgroup[t])
      <4>1. ~unsure /\ ~\E g \in Groups : status[g] = "hidden"
        BY <3>1, <3>2 DEF RG!Unsure
      <4>2. CASE handler.runtime # INF
        BY <2>1, <3>1, <4>1, <4>2 DEF Kept, Runs
      <4>3. CASE handler.runtime = INF
        <5>1. setsched \subseteq stale
          BY <3>1, <3>2, <4>3 DEF Runs
        <5>2. ASSUME NEW t \in RtTasks, rt_task[t] PROVE RG!CanRun(rq_tg[t])
          <6>1. rq_tg[t] \in RG!Used
            BY <1>0
          <6>. QED BY <3>1, <3>2, <4>1, <5>2, <6>1, TestedAll DEF RG!CanRun
        <5>. QED BY <2>1, <5>1, <5>2
      <4>. QED BY <4>2, <4>3
    <3>. QED BY <2>1, <3>1, <3>2 DEF Runs, RG!CanRun
  <2>. QED BY <2>2, <2>3
<1>6. ASSUME NEW t \in RtTasks, RG!SetschedCheck(t) PROVE Runs'
  BY <1>6 DEF RG!SetschedCheck, RG!TypeOK, RG!rt_bandwidth_enabled, Runs, Kept, RG!CanRun
<1>7. ASSUME NEW t \in RtTasks, RG!SetschedCommit(t) PROVE Runs'
  <2>1. attach[t] # "moving" => rq_tg[t] = cgroup[t]
    BY DEF Runs
  <2>2. /\ UNCHANGED <<cgroup, rq_tg, attach, band, sysctl, handler, def_rt, unsure>>
        /\ t \in setsched /\ setsched' = setsched \ {t}
        /\ \A u \in RtTasks \ {t} : rt_task'[u] = rt_task[u]
        /\ stale \subseteq stale' /\ (attach[t] # None => t \in stale')
    BY <1>7 DEF RG!SetschedCommit, RG!TypeOK
  <2>3. ~unsure /\ def_rt.runtime # INF /\ t \notin stale' => RG!CanRun(rq_tg[t])
    BY <1>0, <2>1, <2>2 DEF Runs
  <2>. QED BY <1>0, <2>2, <2>3 DEF Runs, RG!CanRun
<1>8. ASSUME NEW t \in RtTasks, RG!BecomeFair(t) PROVE Runs'
  BY <1>8 DEF RG!BecomeFair, RG!TypeOK, Runs, RG!CanRun
<1>9. ASSUME NEW t \in RtTasks, RG!AttachCss(t) PROVE Runs'
  <2>1. /\ UNCHANGED <<rq_tg, rt_task, setsched, band, sysctl, handler, def_rt, unsure>>
        /\ attach[t] \in Groups /\ attach'[t] = "moving" /\ cgroup'[t] = attach[t]
        /\ \A u \in RtTasks \ {t} : attach'[u] = attach[u] /\ cgroup'[u] = cgroup[u]
        /\ stale \subseteq stale' /\ (t \in setsched => t \in stale')
    BY <1>9 DEF RG!AttachCss, RG!TypeOK
  <2>2. t \notin stale' /\ rt_task[t] => RG!CanRun(cgroup'[t])
    BY <2>1 DEF Runs
  <2>. QED BY <1>0, <2>1, <2>2 DEF Runs, RG!CanRun
<1>10. ASSUME NEW t \in RtTasks, RG!sched_move_task(t) PROVE Runs'
  BY <1>0, <1>10 DEF RG!sched_move_task, RG!set_task_rq, RG!TypeOK, Runs, RG!CanRun
<1>11. ASSUME NEW t \in RtTasks, RG!Migrated(t) PROVE Runs'
  BY <1>0, <1>11 DEF RG!Migrated, RG!set_task_rq, RG!TypeOK, Runs, RG!CanRun
<1>12. ASSUME NEW t \in RtTasks, NEW g \in Groups, RG!CanAttach(t, g) PROVE Runs'
  <2>1. /\ UNCHANGED <<cgroup, rq_tg, rt_task, setsched, band, sysctl, handler, def_rt, unsure, stale>>
        /\ attach[t] = None /\ attach'[t] = g /\ (rt_task[t] => RG!CanRun(g))
        /\ \A u \in RtTasks \ {t} : attach'[u] = attach[u]
    BY <1>12 DEF RG!CanAttach, RG!TypeOK
  <2>. QED BY <1>0, <2>1 DEF Runs, RG!CanRun
<1>13. CASE UNCHANGED RG!vars
  BY <1>13, RunsKept DEF RG!vars, RG!CanRun
<1>14. CASE RG!SharesRelink
  BY <1>1, <1>14, GroupsAssumption
<1>. QED BY <1>1, <1>2, <1>3, <1>4, <1>5, <1>6, <1>7, <1>8, <1>9, <1>10, <1>11, <1>12, <1>13, <1>14 DEF RG!Next

LEMMA BandInit == RG!Init => BandInv
<1>. SUFFICES ASSUME RG!Init PROVE BandInv
  OBVIOUS
<1>1. PICK p \in Periods, r \in Runtimes \ {0} :
        /\ r <= p /\ sysctl = [period |-> p, runtime |-> r] /\ def_rt = sysctl
        /\ band = [g \in Groups |-> [period |-> p, runtime |-> IF g = Root THEN r ELSE 0]]
  BY DEF RG!Init
<1>2. /\ status = [g \in Groups |-> IF g = Root THEN "listed" ELSE "free"]
      /\ parent = [g \in Groups |-> None]
      /\ handler = None /\ sharing = None
      /\ cgroup = [t \in RtTasks |-> Root] /\ rq_tg = [t \in RtTasks |-> Root]
      /\ rt_task = [t \in RtTasks |-> FALSE]
      /\ attach = [t \in RtTasks |-> None] /\ setsched = {} /\ set = [w \in Writers |-> None]
      /\ unsure = FALSE /\ stale = {}
  BY DEF RG!Init
<1>3. RG!Used = {Root} /\ None \notin Groups /\ "moving" \notin Groups /\ Root \in Groups
  BY <1>2, GroupsAssumption DEF RG!Used
<1>4. /\ def_rt \in RG!Bandwidths /\ band[Root] = def_rt
      /\ band \in [Groups -> RG!Bandwidths]
  BY <1>1, <1>3, GroupsAssumption DEF RG!Bandwidths
<1>5. RG!TypeOK
  BY <1>1, <1>2, <1>3, <1>4 DEF RG!TypeOK
<1>6. Tree
  <2>1. NoLoops
    BY <1>2, <1>3 DEF NoLoops
  <2>. QED BY <1>2, <1>3, <2>1 DEF Tree
<1>7. Kept
  BY <1>1, <1>2 DEF Kept
<1>8. Fits
  <2>1. {c \in RG!Used : parent[c] = Root} = {}
    BY <1>2, <1>3
  <2>2. RG!SumRatio({}, band) = 0 /\ RG!to_ratio(def_rt) \in Nat
    BY <1>4, NoSum, RatioType
  <2>. QED BY <1>3, <1>4, <2>1, <2>2 DEF Fits
<1>9. Runs
  BY <1>2 DEF Runs
<1>. QED BY <1>5, <1>6, <1>7, <1>8, <1>9 DEF BandInv

LEMMA BandStep == BandInv /\ [RG!Next]_RG!vars => BandInv'
BY GroupsTypeStep, TreeStep, KeptStep, FitsStep, RunsStep DEF BandInv

(* What the invariant says of the properties.                              *)
LEMMA BandMeans ==
  BandInv => RG!Admitted /\ RG!RefusedLeavesNothing /\ RG!NobodyStarves
<1>. SUFFICES ASSUME BandInv PROVE RG!Admitted /\ RG!RefusedLeavesNothing /\ RG!NobodyStarves
  OBVIOUS
<1>1. RG!RefusedLeavesNothing
  BY DEF BandInv, Kept, RG!RefusedLeavesNothing
<1>2. RG!Admitted
  BY DEF BandInv, Kept, Fits, RG!Admitted, RG!SumWithinParent
<1>3. RG!NobodyStarves
  BY DEF BandInv, Kept, Runs, RG!NobodyStarves, RG!rt_bandwidth_enabled
<1>. QED BY <1>1, <1>2, <1>3

-----------------------------------------------------------------------------
(* The locks and the groups share no variable: a step of QueuesSpec is a   *)
(* step of the part that moves.                                            *)
LEMMA PartSteps ==
  ASSUME [QueuesNext]_<<part, vars, group_state>>
  PROVE  /\ part' = part
         /\ part = "RunQueue" => [Next]_vars
         /\ part = "RtGroups" => [RG!Next]_RG!vars
<1>1. CASE UNCHANGED <<part, vars, group_state>>
  BY <1>1 DEF group_state, RG!vars
<1>2. CASE QueuesNext
  BY <1>2 DEF QueuesNext
<1>. QED BY <1>1, <1>2

LocksInv == part = "RunQueue" => RqInv

LEMMA LocksInvStep == LocksInv /\ [QueuesNext]_<<part, vars, group_state>> => LocksInv'
BY PartSteps, RqStep DEF LocksInv

(* The whole invariant of the run queues: types, who holds which lock,     *)
(* where every thread is, and what is counted.                             *)
THEOREM LocksInvariant == QueuesSpec => []LocksInv
<1>1. QueuesInit => LocksInv
  BY InitInv DEF QueuesInit, LocksInv
<1>. QED BY <1>1, LocksInvStep, PTL DEF QueuesSpec

(* task_rq_lock(), 876, and comment 2194: whoever holds what it returned   *)
(* holds the lock of the run queue the task is on, unless the task was in  *)
(* TASK_WAKING when it was locked; its waker finds it where it put it.     *)
THEOREM LockHoldsTaskHolds == QueuesSpec => []LockHoldsTask
<1>1. LocksInv => LockHoldsTask
  BY DEF LocksInv, RqInv, Promised, LockHoldsTask
<1>. QED BY <1>1, LocksInvariant, PTL

(* double_rq_lock() and double_lock_balance(): no two actors ever wait for *)
(* the run queue lock that the other holds.                                *)
THEOREM LocksAcyclicHolds == QueuesSpec => []LocksAcyclic
<1>1. LocksInv => LocksAcyclic
  BY NoCycle DEF LocksInv, RqInv, LocksAcyclic
<1>. QED BY <1>1, LocksInvariant, PTL

(* finish_task_switch(), 2756: a dead task is dropped once, off every      *)
(* stack, and an mm is counted once for every user and every loan.         *)
THEOREM SwitchCountsReferencesHolds == QueuesSpec => []SwitchCountsReferences
<1>1. LocksInv => SwitchCountsReferences
  BY Once DEF LocksInv, RqInv, Promised, SwitchCountsReferences
<1>. QED BY <1>1, LocksInvariant, PTL

(* wait_task_inactive(), 2160 and 2251: what it samples is off every stack *)
(* and queue, and equal results mean that the task has not run in between. *)
THEOREM InactiveStaysOffHolds == QueuesSpec => InactiveStaysOff
<1>1. LocksInv /\ [QueuesNext]_<<part, vars, group_state>> => [part = "RunQueue" => InactiveSample]_vars
  <2>. SUFFICES ASSUME LocksInv, [QueuesNext]_<<part, vars, group_state>>, part = "RunQueue"
                PROVE  InactiveSample
    OBVIOUS
  <2>. QED BY PartSteps, SampleIsTrue DEF LocksInv, RqInv, Promised
<1>. QED BY <1>1, LocksInvariant, PTL DEF QueuesSpec, InactiveStaysOff

BandsInv == part = "RtGroups" => BandInv

(* The whole invariant of the groups: a tree of those in use, bandwidths   *)
(* that fit below def_rt_bandwidth, tasks that may run where they are.     *)
THEOREM BandsInvariant == QueuesSpec => []BandsInv
<1>1. QueuesInit => BandsInv
  BY BandInit DEF QueuesInit, BandsInv
<1>2. BandsInv /\ [QueuesNext]_<<part, vars, group_state>> => BandsInv'
  BY PartSteps, BandStep DEF BandsInv
<1>. QED BY <1>1, <1>2, PTL DEF QueuesSpec

(* tg_schedulable(), 10210 and 10216: unless a test missed a group or used *)
(* values that were not final, no group has more than the global setting   *)
(* and its children no more than it; sched_rt_handler() takes back what it *)
(* refuses.                                                                *)
THEOREM BandwidthAdmittedHolds == QueuesSpec => []BandwidthAdmitted
<1>1. BandsInv => BandwidthAdmitted
  BY BandMeans DEF BandsInv, BandwidthAdmitted
<1>. QED BY <1>1, BandsInvariant, PTL

(* Comments 6322 and 10202: no real-time task is filed on a group without  *)
(* runtime, unless its check was overtaken before it was used.             *)
THEOREM NobodyStarvesHolds == QueuesSpec => []NobodyStarves
<1>1. BandsInv => NobodyStarves
  BY BandMeans DEF BandsInv, NobodyStarves
<1>. QED BY <1>1, BandsInvariant, PTL
=============================================================================
