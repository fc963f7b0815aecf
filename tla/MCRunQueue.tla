----------------------------- MODULE MCRunQueue -----------------------------
(* Locks: two processors, three tasks, of which one has an mm, sleeps      *)
(* twice and may die, and two always want to run; the first is watched.    *)
(* Groups: two below the root, which may be siblings or nested, one task   *)
(* and one writer; a group may ask for none, half or INF.                  *)
EXTENDS Queues

CONSTANTS t1, t2, t3, w1, root, g1, g2

const_CPUs     == {0, 1}
const_Tasks    == {t1, t2, t3}
const_Watchers == {w1}
const_WithMm   == {t1}
const_Watched  == {t1}
const_Switches == t1 :> 2 @@ t2 :> 0 @@ t3 :> 0
const_Groups   == {root, g1, g2}
const_RtTasks  == {t1}
const_Writers  == {w1}
const_Periods  == {2}
const_Runtimes == {0, 1}

(* A wake-up of a task that never sleeps only takes a lock: such calls are *)
(* left out.                                                               *)
SleepersWoken == part = "RunQueue" =>
  \A c \in CPUs : act[c].at = "task_rq_lock" /\ act[c].then = "wake" => MaxSwitches[act[c].p] > 0

Alike == Permutations({t2, t3}) \cup Permutations({g1, g2})
=============================================================================
