----------------------------- MODULE WaitQueue -----------------------------
(***************************************************************************)
(* Wait queues, completions and sleep_on() of sched_mod.c.  Threads wait   *)
(* for a completion or sleep on a plain queue, with timeouts and signals,  *)
(* while others complete it and wake the queue.                            *)
(*                                                                         *)
(* What runs under a queue's lock is one step; the lock is dropped around  *)
(* schedule(), so a wake-up, a signal or a timeout comes at any point of   *)
(* the way to sleep.  schedule() is taken here by what its caller sees: it *)
(* returns once the state is TASK_RUNNING (Schedule shows that no wake-up  *)
(* is lost in it) - or at once, state unchanged, in the thread the patch   *)
(* has locked the scheduler to.                                            *)
(***************************************************************************)
EXTENDS Naturals, Sequences, FiniteSets, SequencesExt

CONSTANTS
  Waiters,      \* the threads that wait for the completion
  Sleepers,     \* the threads that call sleep_on()
  Forcible,     \* the threads the scheduler may be locked to
  Half,         \* UINT_MAX / 2: done holds 0 .. 2 * Half + 1
  MaxPosts      \* bound on the calls of complete() between two resets

Threads == Waiters \cup Sleepers

ASSUME ThreadsAssumption == IsFiniteSet(Threads) /\ Forcible \subseteq Threads
ASSUME HalfAssumption    == {Half, MaxPosts} \subseteq Nat /\ MaxPosts <= Half

VARIABLES
  done,      \* x->done of the completion
  xwait,     \* its queue, x->wait
  queue,     \* the queue of sleep_on()
  state,     \* task state of each thread
  pc,        \* where each thread is
  call,      \* what it is doing: nothing, wait for the completion, sleep_on
  mode,      \* the state it sleeps in
  timed,     \* it gave a timeout
  expired,   \* the timeout is over
  signal,    \* a signal is pending
  forced,    \* the thread the scheduler is locked to, if any
  posts,     \* calls of complete() since the last INIT_COMPLETION
  all,       \* complete_all() has been called since
  taken      \* history: tokens taken since

sleeper == <<call, mode, timed>>
token   == <<done, posts, all, taken>>
vars    == <<token, xwait, queue, state, pc, sleeper, expired, signal, forced>>

Modes  == {"INTERRUPTIBLE", "UNINTERRUPTIBLE"}
Uint(k) == k % (2 * Half + 2)

TypeOK ==
  /\ done \in 0 .. 2 * Half + 1
  /\ xwait \in Seq(Threads) /\ queue \in Seq(Threads)
  /\ state \in [Threads -> Modes \cup {"RUNNING"}]
  /\ pc \in [Threads -> {"run", "enqueue", "schedule", "asleep", "woken"}]
  /\ call \in [Threads -> {"none", "wait", "sleep_on"}]
  /\ mode \in [Threads -> Modes]
  /\ {timed, expired, signal} \subseteq [Threads -> BOOLEAN]
  /\ forced \in {{}} \cup {{t} : t \in Forcible}
  /\ posts \in 0 .. MaxPosts /\ all \in BOOLEAN /\ taken \in Nat

Init ==
  /\ done = 0 /\ xwait = <<>> /\ queue = <<>>
  /\ state = [t \in Threads |-> "RUNNING"]
  /\ pc = [t \in Threads |-> "run"]
  /\ call = [t \in Threads |-> "none"]
  /\ mode = [t \in Threads |-> "INTERRUPTIBLE"]
  /\ timed = [t \in Threads |-> FALSE]
  /\ expired = [t \in Threads |-> FALSE]
  /\ signal = [t \in Threads |-> FALSE]
  /\ forced = {}
  /\ posts = 0 /\ all = FALSE /\ taken = 0

-----------------------------------------------------------------------------
(* __wake_up_common(): walk the queue, wake who sleeps in one of the given *)
(* modes, and stop behind the nr-th exclusive entry that was woken; nr = 0 *)
(* wakes all.  Only the entries of completions are exclusive.              *)
Exclusive(t) == call[t] = "wait"

WokenOnlyFirst(q, modes, nr) == \* mutant: the walk counts entries that were not asleep
  LET before(i) == {j \in 1 .. i - 1 : Exclusive(q[j])}
  IN  {q[i] : i \in {k \in 1 .. Len(q) :
                       state[q[k]] \in modes /\ (nr = 0 \/ Cardinality(before(k)) < nr)}}

Woken(q, modes, nr) ==
  LET matches(i) == state[q[i]] \in modes
      before(i)  == {j \in 1 .. i - 1 : matches(j) /\ Exclusive(q[j])}
  IN  {q[i] : i \in {k \in 1 .. Len(q) :
                       matches(k) /\ (nr = 0 \/ Cardinality(before(k)) < nr)}}

Wake(S) == state' = [t \in Threads |-> IF t \in S THEN "RUNNING" ELSE state[t]]

(* complete() and complete_all().                                          *)
Complete ==
  /\ posts < MaxPosts
  /\ done' = Uint(done + 1)
  /\ posts' = posts + 1
  /\ Wake(Woken(xwait, Modes, 1))
  /\ UNCHANGED <<xwait, queue, pc, sleeper, expired, signal, forced, all, taken>>

CompleteAllWakesOne == \* mutant: nr_exclusive is 1
  /\ ~all
  /\ done' = Uint(done + Half)
  /\ all' = TRUE
  /\ Wake(Woken(xwait, Modes, 1))
  /\ UNCHANGED <<xwait, queue, pc, sleeper, expired, signal, forced, posts, taken>>

CompleteAllOverflows == \* mutant: done += UINT_MAX
  /\ ~all
  /\ done' = Uint(done + 2 * Half + 1)
  /\ all' = TRUE
  /\ Wake(Woken(xwait, Modes, 0))
  /\ UNCHANGED <<xwait, queue, pc, sleeper, expired, signal, forced, posts, taken>>

CompleteAll ==
  /\ ~all
  /\ done' = Uint(done + Half)
  /\ all' = TRUE
  /\ Wake(Woken(xwait, Modes, 0))
  /\ UNCHANGED <<xwait, queue, pc, sleeper, expired, signal, forced, posts, taken>>

(* INIT_COMPLETION: the owner uses the completion again.                   *)
Reuse ==
  /\ xwait = <<>>
  /\ done' = 0 /\ posts' = 0 /\ all' = FALSE /\ taken' = 0
  /\ UNCHANGED <<xwait, queue, state, pc, sleeper, expired, signal, forced>>

(* __wake_up() of the plain queue.                                         *)
WakeUp(modes) ==
  /\ queue # <<>>
  /\ Wake(Woken(queue, modes, 1))
  /\ UNCHANGED <<token, xwait, queue, pc, sleeper, expired, signal, forced>>

-----------------------------------------------------------------------------
(* Where the entry of a thread is, and its unlinking.                      *)
At(q, t)       == CHOOSE i \in 1 .. Len(q) : q[i] = t
Unlinked(q, t) == RemoveAt(q, At(q, t))

(* wait_for_common().  Return leaves the function, Sleep goes on to        *)
(* schedule_timeout() behind __set_current_state(), outside the lock.  A   *)
(* wait that a pending signal ends before the first sleep changes nothing. *)
Running(t) == pc[t] = "run"

Return(t) ==
  /\ pc' = [pc EXCEPT ![t] = "run"]
  /\ call' = [call EXCEPT ![t] = "none"]
  /\ mode' = [mode EXCEPT ![t] = "INTERRUPTIBLE"]
  /\ timed' = [timed EXCEPT ![t] = FALSE]
  /\ expired' = [expired EXCEPT ![t] = FALSE]
  /\ UNCHANGED signal

Sleep(t, m) ==
  /\ pc' = [pc EXCEPT ![t] = "schedule"]
  /\ state' = [state EXCEPT ![t] = m]

TakeUnguarded == done' = done - 1 /\ taken' = taken + 1 \* mutant: x->done is not tested

Take == done > 0 /\ done' = Uint(done - 1) /\ taken' = taken + 1

(* signal_pending_state().                                                 *)
Interrupted(t, m) == signal[t] /\ m = "INTERRUPTIBLE"

(* try_wait_for_completion(), and a wait that finds the token there.       *)
TakeAtOnce(t) ==
  /\ Running(t)
  /\ Take
  /\ UNCHANGED <<xwait, queue, state, pc, sleeper, expired, signal, forced, posts, all>>

WaitAtHead(t, m, limited) == \* mutant: __add_wait_queue()
  /\ Running(t) /\ done = 0 /\ ~Interrupted(t, m)
  /\ xwait' = <<t>> \o xwait
  /\ call' = [call EXCEPT ![t] = "wait"]
  /\ mode' = [mode EXCEPT ![t] = m]
  /\ timed' = [timed EXCEPT ![t] = limited]
  /\ expired' = [expired EXCEPT ![t] = FALSE]
  /\ Sleep(t, m)
  /\ UNCHANGED <<token, queue, signal, forced>>

Wait(t, m, limited) ==
  /\ Running(t) /\ done = 0 /\ ~Interrupted(t, m)
  /\ xwait' = Append(xwait, t)
  /\ call' = [call EXCEPT ![t] = "wait"]
  /\ mode' = [mode EXCEPT ![t] = m]
  /\ timed' = [timed EXCEPT ![t] = limited]
  /\ expired' = [expired EXCEPT ![t] = FALSE]
  /\ Sleep(t, m)
  /\ UNCHANGED <<token, queue, signal, forced>>

(* The callers of wait_for_common().                                       *)
wait_for_completion(t)                       == Wait(t, "UNINTERRUPTIBLE", FALSE)
wait_for_completion_timeout(t)               == Wait(t, "UNINTERRUPTIBLE", TRUE)
wait_for_completion_interruptible(t)         == Wait(t, "INTERRUPTIBLE", FALSE)
wait_for_completion_interruptible_timeout(t) == Wait(t, "INTERRUPTIBLE", TRUE)

LoopSetsStateFirst(t) == \* mutant: the state is set before the signal is tested
  /\ pc[t] = "woken" /\ call[t] = "wait"
  /\ \/ /\ done = 0 /\ ~expired[t] /\ ~Interrupted(t, mode[t])
        /\ Sleep(t, mode[t])
        /\ UNCHANGED <<token, xwait, sleeper, expired, signal>>
     \/ /\ xwait' = Unlinked(xwait, t)
        /\ Return(t)
        /\ \/ /\ done = 0 /\ ~expired[t] /\ Interrupted(t, mode[t])
              /\ state' = [state EXCEPT ![t] = mode[t]] /\ UNCHANGED token
           \/ done = 0 /\ expired[t] /\ UNCHANGED <<token, state>>
           \/ Take /\ UNCHANGED <<posts, all, state>>
  /\ UNCHANGED <<queue, forced>>

(* The loop behind schedule_timeout(): go round again, or leave because of *)
(* a signal, a timeout or the token, which counts in any case.             *)
Loop(t) ==
  /\ pc[t] = "woken" /\ call[t] = "wait"
  /\ \/ /\ done = 0 /\ ~expired[t] /\ ~Interrupted(t, mode[t])
        /\ Sleep(t, mode[t])
        /\ UNCHANGED <<token, xwait, sleeper, expired, signal>>
     \/ /\ xwait' = Unlinked(xwait, t)
        /\ Return(t)
        /\ \/ done = 0 /\ (expired[t] \/ Interrupted(t, mode[t])) /\ UNCHANGED token
           \/ Take /\ UNCHANGED <<posts, all>>
        /\ UNCHANGED state
  /\ UNCHANGED <<queue, forced>>

-----------------------------------------------------------------------------
(* sleep_on_common(): the state is set before the queue's lock is taken,   *)
(* and nothing is tested behind schedule_timeout().                        *)
SleepOn(t, m, limited) ==
  /\ Running(t)
  /\ pc' = [pc EXCEPT ![t] = "enqueue"]
  /\ state' = [state EXCEPT ![t] = m]
  /\ call' = [call EXCEPT ![t] = "sleep_on"]
  /\ mode' = [mode EXCEPT ![t] = m]
  /\ timed' = [timed EXCEPT ![t] = limited]
  /\ expired' = [expired EXCEPT ![t] = FALSE]
  /\ UNCHANGED <<token, xwait, queue, signal, forced>>

Enqueue(t) ==
  /\ pc[t] = "enqueue"
  /\ queue' = <<t>> \o queue
  /\ pc' = [pc EXCEPT ![t] = "schedule"]
  /\ UNCHANGED <<token, xwait, state, sleeper, expired, signal, forced>>

DequeueForgets(t) == \* mutant: no __remove_wait_queue() when the timeout is over
  /\ pc[t] = "woken" /\ call[t] = "sleep_on"
  /\ queue' = IF expired[t] THEN queue ELSE Unlinked(queue, t)
  /\ Return(t)
  /\ UNCHANGED <<token, xwait, state, forced>>

Dequeue(t) ==
  /\ pc[t] = "woken" /\ call[t] = "sleep_on"
  /\ queue' = Unlinked(queue, t)
  /\ Return(t)
  /\ UNCHANGED <<token, xwait, state, forced>>

-----------------------------------------------------------------------------
(* schedule(), for its caller.                                             *)
Schedule(t) ==
  /\ pc[t] = "schedule"
  /\ \/ /\ t \in forced \/ state[t] = "RUNNING"
        /\ pc' = [pc EXCEPT ![t] = "woken"]
        /\ UNCHANGED state
     \/ /\ Interrupted(t, state[t])
        /\ pc' = [pc EXCEPT ![t] = "woken"]
        /\ state' = [state EXCEPT ![t] = "RUNNING"]
     \/ /\ t \notin forced /\ state[t] # "RUNNING" /\ ~Interrupted(t, state[t])
        /\ pc' = [pc EXCEPT ![t] = "asleep"]
        /\ UNCHANGED state
  /\ UNCHANGED <<token, xwait, queue, sleeper, expired, signal, forced>>

Resume(t) ==
  /\ pc[t] = "asleep" /\ state[t] = "RUNNING"
  /\ pc' = [pc EXCEPT ![t] = IF call[t] = "none" THEN "run" ELSE "woken"]
  /\ UNCHANGED <<token, xwait, queue, state, sleeper, expired, signal, forced>>

(* A reschedule, on the way to user space, of a thread that left its wait  *)
(* in a sleeping state.                                                    *)
Preempt(t) ==
  /\ pc[t] = "run" /\ state[t] # "RUNNING" /\ t \notin forced
  /\ \/ /\ Interrupted(t, state[t])
        /\ Wake({t}) /\ UNCHANGED pc
     \/ /\ ~Interrupted(t, state[t])
        /\ pc' = [pc EXCEPT ![t] = "asleep"] /\ UNCHANGED state
  /\ UNCHANGED <<token, xwait, queue, sleeper, expired, signal, forced>>

(* The timer of schedule_timeout() wakes the thread; the time left is read *)
(* behind schedule(), when the timer may be deleted and yet be over.       *)
Expire(t) ==
  /\ timed[t] /\ ~expired[t] /\ pc[t] \in {"schedule", "asleep", "woken"} /\ call[t] # "none"
  /\ expired' = [expired EXCEPT ![t] = TRUE]
  /\ \/ Wake({t})
     \/ pc[t] = "woken" /\ UNCHANGED state
  /\ UNCHANGED <<token, xwait, queue, pc, sleeper, signal, forced>>

(* A signal wakes an interruptible sleeper; it is handled when the thread  *)
(* goes back to user space.                                                *)
Signal(t) ==
  /\ ~signal[t] /\ mode[t] = "INTERRUPTIBLE"
  /\ signal' = [signal EXCEPT ![t] = TRUE]
  /\ Wake(IF state[t] = "INTERRUPTIBLE" THEN {t} ELSE {})
  /\ UNCHANGED <<token, xwait, queue, pc, sleeper, expired, forced>>

HandleSignal(t) ==
  /\ signal[t] /\ pc[t] = "run"
  /\ signal' = [signal EXCEPT ![t] = FALSE]
  /\ UNCHANGED <<token, xwait, queue, state, pc, sleeper, expired, forced>>

(* set_pid_force_run().                                                    *)
LockScheduler ==
  /\ forced' \in {{}} \cup {{t} : t \in Forcible} /\ forced' # forced
  /\ UNCHANGED <<token, xwait, queue, state, pc, sleeper, expired, signal>>

Progress(t) ==
  Loop(t) \/ Enqueue(t) \/ Dequeue(t) \/ Schedule(t) \/ Resume(t)

Next ==
  \/ Complete \/ CompleteAll \/ Reuse \/ LockScheduler
  \/ \E modes \in {{"INTERRUPTIBLE"}, Modes} : WakeUp(modes)
  \/ \E t \in Threads : Progress(t) \/ Preempt(t) \/ Expire(t) \/ Signal(t) \/ HandleSignal(t)
  \/ \E t \in Waiters :
       \/ TakeAtOnce(t) \/ wait_for_completion(t) \/ wait_for_completion_timeout(t)
       \/ wait_for_completion_interruptible(t) \/ wait_for_completion_interruptible_timeout(t)
  \/ \E t \in Sleepers, m \in Modes, limited \in BOOLEAN : SleepOn(t, m, limited)

Fairness == \A t \in Threads : WF_vars(Progress(t))

Spec == Init /\ [][Next]_vars /\ Fairness

-----------------------------------------------------------------------------
(* A thread that is on its way to look at x->done, not asleep.             *)
WillLook(t) ==
  state[t] = "RUNNING" \/ pc[t] = "woken" \/ (pc[t] = "schedule" /\ t \in forced)

(* While there are tokens, as many waiters as there are tokens (or all) are*)
(* on their way to look at x->done: no complete() is lost on a waiter that *)
(* was woken by a timeout or a signal at the same time.                    *)
NoLostToken ==
  LET waiting == ToSet(xwait)
      looking == {t \in waiting : WillLook(t)}
  IN  Cardinality(looking) >= done \/ looking = waiting

(* Every token ends in exactly one successful wait or is still there.      *)
TokensKept == done + taken = posts + IF all THEN Half ELSE 0

(* The wait_queue_t is on the stack of its thread: it is never linked      *)
(* behind the return of the function, nor twice.                           *)
LinkedWhileWaiting ==
  /\ \A i, j \in 1 .. Len(xwait) : xwait[i] = xwait[j] => i = j
  /\ \A i, j \in 1 .. Len(queue) : queue[i] = queue[j] => i = j
  /\ ToSet(xwait) = {t \in Threads : call[t] = "wait"}
  /\ ToSet(queue) = {t \in Threads : call[t] = "sleep_on" /\ pc[t] # "enqueue"}

(* A thread never leaves a wait in a sleeping state, from which nothing    *)
(* would wake it; the patch breaks this for a thread that is forced.       *)
LeavesRunning ==
  \A t \in Threads \ Forcible : pc[t] = "run" => state[t] = "RUNNING"

(* Tokens, waiters and list entries belong to each other.                  *)
WaitersSound == TypeOK /\ NoLostToken /\ TokensKept /\ LinkedWhileWaiting /\ LeavesRunning

(* complete(), 5760: threads are awakened in the order in which they were  *)
(* queued: who joins goes behind all who wait, and a complete() that lets  *)
(* a sleeper sleep wakes nobody behind it.                                 *)
InOrder ==
  [][\A t, u \in Threads :
       t \in ToSet(xwait) =>
         /\ u \in ToSet(xwait') \ ToSet(xwait) => At(xwait', t) < At(xwait', u)
         /\ /\ posts' = posts + 1
            /\ u \in ToSet(xwait) /\ At(xwait, t) < At(xwait, u)
            /\ state[t] # "RUNNING" /\ state'[t] # "RUNNING"
            => state'[u] = state[u]]_vars

(* A token is taken by somebody as long as somebody waits for it.          *)
Delivered == done > 0 /\ xwait # <<>> ~> done = 0 \/ xwait = <<>>
=============================================================================
