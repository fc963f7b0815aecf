----------------------------- MODULE Expedited -----------------------------
(***************************************************************************)
(* synchronize_sched_expedited() (scheduler_mod/sched_mod.c 10884-10947)   *)
(* with the requests the migration threads answer (7219-7243), the         *)
(* sections with preemption off it waits for, and processor hotplug.       *)
(*                                                                         *)
(* External: synchronize_sched() waits for the sections that have begun,   *)
(* and a processor comes or goes only while nobody holds it back.          *)
(***************************************************************************)
EXTENDS Integers, FiniteSets

CONSTANTS
  CPUs, Removable,
  Callers,
  TRIES  \* how often the mutex is tried again; 10 in the code

VARIABLES
  online,
  section,    \* processors that are in a section with preemption off
  refcount,   \* get_online_cpus()
  mutex,      \* who holds rcu_sched_expedited_mutex, or 0
  dest_cpu,   \* of rcu_migration_req of each processor
  done,       \* of the request: completed
  queued,     \* processors with the request in migration_queue
  answering,  \* processors whose migration thread has answered and will complete
  call        \* where each caller is

vars == <<online, section, refcount, mutex, dest_cpu, done, queued, answering, call>>

synchronize_sched_expedited_count == 0  \* nothing in the code increments it

Idle == [at |-> "idle"]
Init ==
  /\ online = CPUs /\ section = {} /\ refcount = 0 /\ mutex = 0
  /\ dest_cpu = [c \in CPUs |-> "IDLE"] /\ done = [c \in CPUs |-> FALSE]
  /\ queued = {} /\ answering = {}
  /\ call = [k \in Callers |-> Idle]

At(k, pc)   == call[k].at = pc
Lowest(S)   == CHOOSE c \in S : \A d \in S : c <= d
Go(k, pc)   == call' = [call EXCEPT ![k].at = pc]

-----------------------------------------------------------------------------
(* old: the sections that had begun when the call was made.                *)
Enter(k) ==
  /\ At(k, "idle")
  /\ call' = [call EXCEPT ![k] =
       [at |-> "try", tries |-> 0, snap |-> synchronize_sched_expedited_count + 1,
        todo |-> {}, old |-> section, wait |-> {}]]
  /\ refcount' = refcount + 1
  /\ UNCHANGED <<online, section, mutex, dest_cpu, done, queued, answering>>

TryLock(k) ==
  /\ At(k, "try") /\ mutex = 0
  /\ mutex' = k
  /\ call' = [call EXCEPT ![k].at = "post", ![k].todo = online]
  /\ UNCHANGED <<online, section, refcount, dest_cpu, done, queued, answering>>

Contended(k) ==
  /\ At(k, "try") /\ mutex # 0
  /\ refcount' = refcount - 1
  /\ call' = [call EXCEPT ![k] =
       IF call[k].tries < TRIES THEN [call[k] EXCEPT !.at = "delayed", !.tries = call[k].tries + 1]
                                ELSE [call[k] EXCEPT !.at = "sync", !.wait = section]]
  /\ UNCHANGED <<online, section, mutex, dest_cpu, done, queued, answering>>

Delayed(k) ==
  /\ At(k, "delayed")
  /\ IF synchronize_sched_expedited_count - call[k].snap > 0
     THEN Go(k, "return") /\ UNCHANGED refcount
     ELSE Go(k, "try") /\ refcount' = refcount + 1
  /\ UNCHANGED <<online, section, mutex, dest_cpu, done, queued, answering>>

(* A fresh request for the migration thread of the next processor.         *)
Post(k) ==
  /\ At(k, "post") /\ call[k].todo # {}
  /\ LET c == Lowest(call[k].todo) IN
       /\ done' = [done EXCEPT ![c] = FALSE]
       /\ dest_cpu' = [dest_cpu EXCEPT ![c] = "NEED_QS"]
       /\ queued' = queued \cup {c}
       /\ call' = [call EXCEPT ![k].todo = @ \ {c}]
  /\ UNCHANGED <<online, section, refcount, mutex, answering>>

Posted(k) ==
  /\ At(k, "post") /\ call[k].todo = {}
  /\ call' = [call EXCEPT ![k].at = "collect", ![k].todo = online]
  /\ UNCHANGED <<online, section, refcount, mutex, dest_cpu, done, queued, answering>>

CollectUnanswered(k) == \* mutant: the answer is not waited for
  /\ At(k, "collect") /\ call[k].todo # {}
  /\ LET c == Lowest(call[k].todo) IN
       /\ dest_cpu' = [dest_cpu EXCEPT ![c] = "IDLE"]
       /\ call' = [call EXCEPT ![k].todo = @ \ {c}]
  /\ UNCHANGED <<online, section, refcount, mutex, done, queued, answering>>

(* wait_for_completion() of the next processor.                            *)
Collect(k) ==
  /\ At(k, "collect") /\ call[k].todo # {}
  /\ LET c == Lowest(call[k].todo) IN
       /\ done[c]
       /\ dest_cpu' = [dest_cpu EXCEPT ![c] = "IDLE"]
       /\ call' = [call EXCEPT ![k].todo = @ \ {c}]
  /\ UNCHANGED <<online, section, refcount, mutex, done, queued, answering>>

Unlock(k) ==
  /\ At(k, "collect") /\ call[k].todo = {}
  /\ mutex' = 0 /\ refcount' = refcount - 1
  /\ Go(k, "return")
  /\ UNCHANGED <<online, section, dest_cpu, done, queued, answering>>

synchronize_sched(k) ==
  /\ At(k, "sync") /\ call[k].wait = {}
  /\ Go(k, "return")
  /\ UNCHANGED <<online, section, refcount, mutex, dest_cpu, done, queued, answering>>

Return(k) ==
  /\ At(k, "return")
  /\ call' = [call EXCEPT ![k] = Idle]
  /\ UNCHANGED <<online, section, refcount, mutex, dest_cpu, done, queued, answering>>

-----------------------------------------------------------------------------
(* The migration thread of c runs when preemption is on.  It is bound to   *)
(* its processor while that is online, so it answers GOT_QS.               *)
Answer(c) ==
  /\ c \in queued \ section
  /\ queued' = queued \ {c} /\ answering' = answering \cup {c}
  /\ dest_cpu' = [dest_cpu EXCEPT ![c] = "GOT_QS"]
  /\ UNCHANGED <<online, section, refcount, mutex, done, call>>

complete(c) ==
  /\ c \in answering \ section
  /\ answering' = answering \ {c}
  /\ done' = [done EXCEPT ![c] = TRUE]
  /\ UNCHANGED <<online, section, refcount, mutex, dest_cpu, queued, call>>

Begin(c) ==
  /\ c \in online \ section
  /\ section' = section \cup {c}
  /\ UNCHANGED <<online, refcount, mutex, dest_cpu, done, queued, answering, call>>

End(c) ==
  /\ c \in section
  /\ section' = section \ {c}
  /\ call' = [k \in Callers |-> IF At(k, "idle") THEN Idle
                ELSE [call[k] EXCEPT !.old = @ \ {c}, !.wait = @ \ {c}]]
  /\ UNCHANGED <<online, refcount, mutex, dest_cpu, done, queued, answering>>

(* migration_call(CPU_DEAD) completes whatever is in the queue (7723).     *)
Hotplug(c) ==
  /\ refcount = 0 /\ c \in Removable \ (section \cup answering)
  /\ online' = IF c \in online THEN online \ {c} ELSE online \cup {c}
  /\ queued' = queued \ {c}
  /\ done' = IF c \in queued THEN [done EXCEPT ![c] = TRUE] ELSE done
  /\ UNCHANGED <<section, refcount, mutex, dest_cpu, answering, call>>

Next ==
  \/ \E k \in Callers : \/ Enter(k) \/ TryLock(k) \/ Contended(k) \/ Delayed(k) \/ Post(k) \/ Posted(k)
                        \/ Collect(k) \/ Unlock(k) \/ synchronize_sched(k) \/ Return(k)
  \/ \E c \in CPUs : Answer(c) \/ complete(c) \/ Begin(c) \/ End(c) \/ Hotplug(c)

Spec == Init /\ [][Next]_vars

-----------------------------------------------------------------------------
(* 10884 to 10886: when a call returns, a grace period has passed: every   *)
(* section that had begun before the call has ended.                       *)
GracePeriod == \A k \in Callers : At(k, "return") => call[k].old = {}

(* 10924 to 10929: a request is only made anew when nothing is left of the *)
(* last one: it is in no queue and nobody is about to complete it.         *)
RequestSpent ==
  \A k \in Callers : At(k, "post") => call[k].todo \cap (queued \cup answering) = {}

(* With them, an inductive invariant.  Processors stay while a call counts *)
(* on them; a section that was open at the call is still in the way of the *)
(* request of its processor, which so cannot have been answered; and who   *)
(* gives up the mutex leaves no request behind.                            *)
InProgress == [at : {"try", "delayed", "post", "collect", "sync", "return"}, tries : Nat, snap : {1},
               todo : SUBSET CPUs, old : SUBSET CPUs, wait : SUBSET CPUs]
TypeOK ==
  /\ online \subseteq CPUs /\ section \subseteq online
  /\ mutex \in Callers \cup {0} /\ done \in [CPUs -> BOOLEAN]
  /\ queued \subseteq CPUs /\ answering \subseteq CPUs
  /\ call \in [Callers -> {Idle} \cup InProgress]
Holding     == {k \in Callers : call[k].at \in {"try", "post", "collect"}}
HeldBack    == refcount = Cardinality(Holding)
MutexOwned  == \A k \in Callers : call[k].at \in {"post", "collect"} <=> mutex = k
Unanswered  == queued \cap answering = {} /\ \A c \in queued \cup answering : ~done[c]
NobodyAsked == mutex = 0 => queued \cup answering = {}
OldInTheWay ==
  \A k \in Callers : call[k].at # "idle" =>
    /\ call[k].old \subseteq section
    /\ At(k, "sync") => call[k].old \subseteq call[k].wait
    /\ At(k, "post") => /\ call[k].todo \subseteq online /\ queued \cup answering \subseteq online \ call[k].todo
                        /\ call[k].old \subseteq call[k].todo \cup queued
    /\ At(k, "collect") => /\ queued \cup answering \subseteq call[k].todo /\ call[k].todo \subseteq online
                           /\ call[k].old \subseteq queued
    /\ At(k, "return") => call[k].old = {}
GraceInv == TypeOK /\ HeldBack /\ MutexOwned /\ Unanswered /\ NobodyAsked /\ OldInTheWay
=============================================================================
