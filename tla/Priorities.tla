----------------------------- MODULE Priorities -----------------------------
(***************************************************************************)
(* Priorities and policies of tasks (scheduler_mod/sched_mod.c 1836-2000,  *)
(* 6018-6500, 9660-9716): setscheduler, nice, priority inheritance, SysRq  *)
(* normalization and fork, on one run queue whose classes file a task      *)
(* under its priority (real-time) or its load weight (fair).               *)
(*                                                                         *)
(* What runs under the run queue lock is one step.  SCHED_RR and           *)
(* SCHED_BATCH are to this file what FIFO and NORMAL are.                  *)
(***************************************************************************)
EXTENDS Integers

CONSTANTS
  Tasks,        \* the tasks
  First,        \* those that exist at the start
  UserTasks,    \* those with an mm
  Callers,      \* those that call setscheduler and nice
  MAX_RT_PRIO,  \* priorities below it are real-time
  NICE_0,       \* static priority of nice 0; smaller ones are negative nice
  MaxStatic,    \* static priority of the largest nice value
  WaiterPrios,  \* priorities a waiter for a PI mutex may have
  Params,       \* values of sched_priority that callers pass
  None

ASSUME TasksAssumption == First \subseteq Tasks /\ UserTasks \subseteq Tasks /\ Callers \subseteq Tasks
                           /\ None \notin Tasks
ASSUME PrioAssumption  ==
  /\ MAX_RT_PRIO \in Nat \ {0, 1} /\ NICE_0 \in Nat /\ MaxStatic \in Nat
  /\ MAX_RT_PRIO <= NICE_0 /\ NICE_0 <= MaxStatic
  /\ WaiterPrios \subseteq 0..MaxStatic /\ Params \subseteq Int

StaticPrios == MAX_RT_PRIO..MaxStatic
MAX_PRIO    == MaxStatic + 1       \* no waiter at all
Policies    == {"NORMAL", "IDLE", "FIFO"}
rt_prio(n)      == n < MAX_RT_PRIO
rt_policy(name) == name = "FIFO"

VARIABLES
  task,      \* the fields of each task_struct that say how it is scheduled
  alive,     \* tasks that exist
  entry,     \* where a queued task is filed: class and key, or None
  curr,      \* rq->curr, None for the idle task
  held,      \* the class that was told that curr runs
  waiter,    \* priority of the first waiter for a PI mutex of each task
  call,      \* the call of __sched_setscheduler or nice each task is in
  leaked     \* history: children of a reset on fork

vars == <<task, alive, entry, curr, held, waiter, call, leaked>>

Classes == {"rt", "fair"}
RtWeight   == MaxStatic + 1  \* the weight of a real-time task, and of an idle one
IdleWeight == MaxStatic + 2  \* the others are numbered by their static priority
Weights == {RtWeight, IdleWeight} \cup StaticPrios
Fields  == [policy : Policies, rt_priority : 0..(MAX_RT_PRIO - 1),
            static : StaticPrios, normal : 0..MaxStatic, prio : 0..MaxStatic,
            class : Classes, weight : Weights, reset : BOOLEAN]
Entries == {None} \cup [class : Classes, key : Weights \cup (0..MaxStatic)]

(* A call in progress: what it was asked for and what it has read.         *)
NoCall == [at |-> "none"]
Calls == {NoCall} \cup [at : {"nice"}, nice : StaticPrios]
         \cup [at : {"recheck", "lock"}, p : Tasks, want : Policies \cup {"keep"},
               policy : Policies, param : Int, reset : BOOLEAN]

TypeOK ==
  /\ task \in [Tasks -> Fields]
  /\ alive \subseteq Tasks
  /\ entry \in [Tasks -> Entries]
  /\ curr \in Tasks \cup {None} /\ held \in Classes \cup {None}
  /\ waiter \in [Tasks -> WaiterPrios \cup {MAX_PRIO}]
  /\ call \in [Callers -> Calls]
  /\ leaked \subseteq Tasks

-----------------------------------------------------------------------------
(* Operators over the fields t of a task.                                  *)
normal_prio(t)    == IF rt_policy(t.policy) THEN MAX_RT_PRIO - 1 - t.rt_priority ELSE t.static
load_weight(t)    == IF rt_policy(t.policy) THEN RtWeight
                     ELSE IF t.policy = "IDLE" THEN IdleWeight ELSE t.static
Least(m, n)       == IF m < n THEN m ELSE n
rt_mutex_getprio(p, t) == Least(waiter[p], t.normal)

(* The entry a class makes for a task.                                     *)
Filed(t) == [class |-> t.class, key |-> IF t.class = "rt" THEN t.prio ELSE t.weight]

Fresh == [policy |-> "NORMAL", rt_priority |-> 0, static |-> NICE_0, normal |-> NICE_0,
          prio |-> NICE_0, class |-> "fair", weight |-> NICE_0, reset |-> FALSE]

Init ==
  /\ task = [p \in Tasks |-> Fresh]
  /\ alive = First
  /\ entry = [p \in Tasks |-> IF p \in First THEN Filed(Fresh) ELSE None]
  /\ curr = None /\ held = None
  /\ waiter = [p \in Tasks |-> MAX_PRIO]
  /\ call = [c \in Callers |-> NoCall]
  /\ leaked = {}

RefileNotTold(p, t) == \* mutant: the class is not told that the task runs
  /\ task' = [task EXCEPT ![p] = t]
  /\ entry' = IF entry[p] = None THEN entry ELSE [entry EXCEPT ![p] = Filed(t)]
  /\ held' = held

(* Task p gets the fields t under the run queue lock: it is taken off the  *)
(* queue, changed, and filed again; the class that runs it is told.        *)
Refile(p, t) ==
  /\ task' = [task EXCEPT ![p] = t]
  /\ entry' = IF entry[p] = None THEN entry ELSE [entry EXCEPT ![p] = Filed(t)]
  /\ held' = IF curr = p THEN t.class ELSE held

-----------------------------------------------------------------------------
(* __setscheduler().                                                       *)
__setscheduler(p, t, policy, param) ==
  LET u == [t EXCEPT !.policy = policy, !.rt_priority = param,
                     !.class = IF rt_policy(policy) THEN "rt" ELSE "fair"]
      v == [u EXCEPT !.normal = normal_prio(u), !.weight = load_weight(u)]
  IN  [v EXCEPT !.prio = rt_mutex_getprio(p, v)]

(* sched_setscheduler, sched_setparam ("keep") and the _nocheck variant    *)
(* enter __sched_setscheduler.                                             *)
SetschedCall(c, p, want, param, reset) ==
  /\ c \in alive /\ p \in alive /\ call[c] = NoCall
  /\ want = "keep" => ~reset
  /\ call' = [call EXCEPT ![c] = [at |-> "recheck", p |-> p, want |-> want,
                                 policy |-> "NORMAL", param |-> param, reset |-> reset]]
  /\ UNCHANGED <<task, alive, entry, curr, held, waiter, leaked>>

(* recheck: the policy to be kept is read without a lock and the arguments *)
(* are validated; a user may be refused for want of permission.            *)
Recheck(c) ==
  /\ call[c].at = "recheck"
  /\ LET r      == call[c]
         t      == task[r.p]
         keep   == r.want = "keep"
         policy == IF keep THEN t.policy ELSE r.want
         valid  == /\ r.param \in 0..(MAX_RT_PRIO - 1)
                   /\ rt_policy(policy) = (r.param # 0)
     IN  \/ /\ valid
            /\ call' = [call EXCEPT ![c] = [r EXCEPT
                 !.at = "lock", !.policy = policy, !.reset = IF keep THEN t.reset ELSE @]]
         \/ call' = [call EXCEPT ![c] = NoCall]
  /\ UNCHANGED <<task, alive, entry, curr, held, waiter, leaked>>

CommitBlindly(c) == \* mutant: the policy is not checked again
  /\ call[c].at = "lock"
  /\ LET r == call[c]
         p == r.p
     IN  /\ Refile(p, [__setscheduler(p, task[p], r.policy, r.param) EXCEPT !.reset = r.reset])
         /\ leaked' = leaked \ {p}
  /\ call' = [call EXCEPT ![c] = NoCall]
  /\ UNCHANGED <<alive, curr, waiter>>

(* Both locks are held: go back when the policy that was to be kept has    *)
(* changed, else set.                                                      *)
Commit(c) ==
  /\ call[c].at = "lock"
  /\ LET r == call[c]
         p == r.p
     IN  \/ /\ r.want = "keep" /\ r.policy # task[p].policy
            /\ call' = [call EXCEPT ![c] = [r EXCEPT !.at = "recheck", !.policy = "NORMAL",
                                                    !.reset = FALSE]]
            /\ UNCHANGED <<task, entry, held, leaked>>
         \/ /\ r.want # "keep" \/ r.policy = task[p].policy
            /\ Refile(p, [__setscheduler(p, task[p], r.policy, r.param) EXCEPT !.reset = r.reset])
            /\ leaked' = leaked \ {p}
            /\ call' = [call EXCEPT ![c] = NoCall]
  /\ UNCHANGED <<alive, curr, waiter>>

-----------------------------------------------------------------------------
NicedUnboosts(t, nice) == \* mutant: a boosted task loses its priority
  IF nice = t.static THEN t
  ELSE IF rt_policy(t.policy) THEN [t EXCEPT !.static = nice]
  ELSE LET u == [t EXCEPT !.static = nice]
           v == [u EXCEPT !.normal = normal_prio(u), !.weight = load_weight(u)]
       IN  [v EXCEPT !.prio = v.normal]

(* set_user_nice(): what it makes of the fields t; effective_prio() keeps  *)
(* a real-time priority.                                                   *)
Niced(t, nice) ==
  IF nice = t.static THEN t
  ELSE IF rt_policy(t.policy) THEN [t EXCEPT !.static = nice]
  ELSE LET u == [t EXCEPT !.static = nice]
           v == [u EXCEPT !.normal = normal_prio(u), !.weight = load_weight(u)]
       IN  IF rt_prio(t.prio) THEN v ELSE [v EXCEPT !.prio = v.normal]

(* setpriority(): set_user_nice() of any task.                             *)
SetUserNice(p, nice) ==
  /\ p \in alive
  /\ Refile(p, Niced(task[p], nice))
  /\ UNCHANGED <<alive, curr, waiter, call, leaked>>

(* nice(): the new value is computed from an unlocked look at one's own,   *)
(* clamped, and set later.                                                 *)
NiceCall(c, increment) ==
  /\ c \in alive /\ call[c] = NoCall
  /\ LET n == task[c].static + increment
     IN  call' = [call EXCEPT ![c] =
           [at |-> "nice", nice |-> IF n < MAX_RT_PRIO THEN MAX_RT_PRIO
                                    ELSE IF n > MaxStatic THEN MaxStatic ELSE n]]
  /\ UNCHANGED <<task, alive, entry, curr, held, waiter, leaked>>

NiceSets(c) ==
  /\ call[c].at = "nice"
  /\ Refile(c, Niced(task[c], call[c].nice))
  /\ call' = [call EXCEPT ![c] = NoCall]
  /\ UNCHANGED <<alive, curr, waiter, leaked>>

-----------------------------------------------------------------------------
(* The first waiter for a PI mutex of p changes; the rt_mutex code calls   *)
(* rt_mutex_setprio() when that changes the priority of p.                 *)
rt_mutex_setprio(p, prio) ==
  Refile(p, [task[p] EXCEPT !.prio = prio, !.class = IF rt_prio(prio) THEN "rt" ELSE "fair"])

WaiterChanges(p, w) ==
  /\ p \in alive /\ w # waiter[p]
  /\ waiter' = [waiter EXCEPT ![p] = w]
  /\ LET prio == Least(w, task[p].normal)
     IN  IF prio = task[p].prio THEN UNCHANGED <<task, entry, held>>
         ELSE rt_mutex_setprio(p, prio)
  /\ UNCHANGED <<alive, curr, call, leaked>>

(* SysRq: one turn of the loop of normalize_rt_tasks().                    *)
NormalizeTask(p) ==
  /\ p \in alive \cap UserTasks
  /\ IF rt_prio(task[p].prio)
     THEN Refile(p, __setscheduler(p, task[p], "NORMAL", 0)) /\ leaked' = leaked \ {p}
     ELSE /\ Refile(p, IF task[p].static < NICE_0 THEN Niced(task[p], NICE_0) ELSE task[p])
          /\ UNCHANGED leaked
  /\ UNCHANGED <<alive, curr, waiter, call>>

-----------------------------------------------------------------------------
(* sched_fork(): the child's fields.                                       *)
sched_fork(t) ==
  LET norm == IF t.reset /\ rt_policy(t.policy)
              THEN [t EXCEPT !.policy = "NORMAL", !.normal = t.static] ELSE t
      nice == IF t.reset /\ t.static < NICE_0
              THEN [norm EXCEPT !.static = NICE_0, !.normal = NICE_0,
                                !.weight = load_weight([norm EXCEPT !.static = NICE_0])]
              ELSE norm
      child == [nice EXCEPT !.reset = FALSE, !.prio = t.normal]
  IN  IF rt_prio(child.prio) THEN child ELSE [child EXCEPT !.class = "fair"]

Fork(p, child) ==
  /\ curr = p /\ child \notin alive
  /\ task' = [task EXCEPT ![child] = sched_fork(task[p])]
  /\ waiter' = [waiter EXCEPT ![child] = MAX_PRIO]
  /\ alive' = alive \cup {child}
  /\ leaked' = IF task[p].reset \/ p \in leaked THEN leaked \cup {child} ELSE leaked \ {child}
  /\ UNCHANGED <<entry, curr, held, call>>

(* wake_up_new_task() and try_to_wake_up().                                *)
Activate(p) ==
  /\ p \in alive /\ entry[p] = None
  /\ entry' = [entry EXCEPT ![p] = Filed(task[p])]
  /\ UNCHANGED <<task, alive, curr, held, waiter, call, leaked>>

(* schedule(): the previous task is put by its class, and another one is   *)
(* taken; a task that sleeps leaves the queue.                             *)
Schedule(next, sleeps) ==
  /\ next # curr /\ next \in {None} \cup {p \in Tasks : entry[p] # None}
  /\ curr = None => ~sleeps
  /\ entry' = IF sleeps THEN [entry EXCEPT ![curr] = None] ELSE entry
  /\ curr' = next
  /\ held' = IF next = None THEN None ELSE task[next].class
  /\ UNCHANGED <<task, alive, waiter, call, leaked>>

Exit ==
  /\ curr # None /\ (curr \in Callers => call[curr] = NoCall) /\ waiter[curr] = MAX_PRIO
  /\ \A c \in Callers : call[c].at \in {"recheck", "lock"} => call[c].p # curr
  /\ alive' = alive \ {curr}
  /\ entry' = [entry EXCEPT ![curr] = None]
  /\ leaked' = leaked \ {curr}
  /\ curr' = None /\ held' = None
  /\ UNCHANGED <<task, waiter, call>>

Next ==
  \/ \E c \in Callers, p \in Tasks, want \in Policies \cup {"keep"}, param \in Params,
        reset \in BOOLEAN : SetschedCall(c, p, want, param, reset)
  \/ \E c \in Callers : Recheck(c) \/ Commit(c) \/ NiceSets(c)
  \/ \E c \in Callers, increment \in {-1, 1} : NiceCall(c, increment)
  \/ \E p \in Tasks, nice \in StaticPrios : SetUserNice(p, nice)
  \/ \E p \in Tasks, w \in WaiterPrios \cup {MAX_PRIO} : WaiterChanges(p, w)
  \/ \E p \in Tasks : NormalizeTask(p) \/ Activate(p)
  \/ \E p, child \in Tasks : Fork(p, child)
  \/ \E next \in Tasks \cup {None}, sleeps \in BOOLEAN : Schedule(next, sleeps)
  \/ Exit

Spec == Init /\ [][Next]_vars

-----------------------------------------------------------------------------
(* A queued task is filed under the class and the key it has now, and the  *)
(* running one is held by its class: whoever dequeues or puts it finds it. *)
FiledAsIs ==
  /\ \A p \in Tasks : entry[p] # None => entry[p] = Filed(task[p])
  /\ curr # None => held = task[curr].class

(* Comment 1918: the priority in force is the task's own or, when that is  *)
(* a real-time one, what it inherits; it runs in the real-time class then, *)
(* unless its policy was set while it was boosted.  Children of a reset on *)
(* fork are left out: they keep the parent's priority, see ForkReverts.    *)
PrioInForce ==
  \A p \in alive \ leaked :
    LET t == task[p] IN
    /\ t.normal = normal_prio(t) /\ t.weight = load_weight(t)
    /\ rt_prio(t.prio) \/ rt_prio(rt_mutex_getprio(p, t)) => t.prio = rt_mutex_getprio(p, t)
    /\ t.class = "rt" => rt_prio(t.prio)
    /\ t.class = "fair" /\ rt_prio(t.prio) => waiter[p] = t.prio /\ ~rt_policy(t.policy)

(* With TypeOK, an inductive invariant: what runs or is queued exists, and *)
(* a call that got as far as the lock has a valid parameter.               *)
QueuedExist  == curr \in alive \cup {None} /\ \A p \in Tasks : entry[p] # None => p \in alive
ParamChecked == \A c \in Callers : call[c].at = "lock" => call[c].param \in 0..(MAX_RT_PRIO - 1)
PrioInv      == TypeOK /\ QueuedExist /\ ParamChecked /\ FiledAsIs /\ PrioInForce

(* Comments 6275 and 6349: a call that changes the parameter alone does    *)
(* not bring back a policy that another call has replaced since.           *)
PolicyKept ==
  \A c \in Callers :
    /\ call[c].at = "lock" /\ call[c].want = "keep" /\ call'[c] = NoCall
    => task'[call[c].p].policy = task[call[c].p].policy

(* The same as a property of every step of a behaviour.                   *)
ParamKeepsPolicy == [][PolicyKept]_vars

(* Comment 2545: a child whose parent asked for it reverts to the default  *)
(* policy and priority.                                                    *)
ForkReverts ==
  [][\A p, child \in Tasks :
       /\ curr = p /\ child \in alive' \ alive /\ task[p].reset
       => ~rt_prio(task'[child].prio)]_vars
=============================================================================
