----------------------------- MODULE TaskTimes -----------------------------
(***************************************************************************)
(* The times of a task as user space sees them (scheduler_mod/sched_mod.c  *)
(* 5178-5215): the precise run time, split in the proportion of the ticks, *)
(* and never taken back.  Readers take no lock here, so their steps mix    *)
(* with each other and with the task that runs: of the run time, 64 bits   *)
(* that a 32-bit machine moves in two halves, they may get one half from   *)
(* before and the other from after a change.                               *)
(*                                                                         *)
(* External: update_curr(), which adds to the run time.                    *)
(***************************************************************************)
EXTENDS Integers

CONSTANTS
  Readers,
  MaxRun,  \* bound on the run time
  HALF,    \* what the low half holds before it carries, 2^32 in the code
  WIDTH    \* cputime_t is unsigned, modulo 2^WIDTH

VARIABLES
  utime, stime,            \* p->utime and p->stime, in ticks
  runtime,                 \* p->se.sum_exec_runtime, all of it,
  high, low,               \* and its halves in memory
  prev_utime, prev_stime,
  reader                   \* where each reader is, and what it has loaded and computed

vars == <<utime, stime, runtime, high, low, prev_utime, prev_stime, reader>>

Bigger(x, y) == IF x > y THEN x ELSE y
Idle == [at |-> "utime", half |-> "none", had |-> 0, rtime |-> 0, val |-> 0]

Init ==
  /\ utime = 0 /\ stime = 0 /\ runtime = 0 /\ high = 0 /\ low = 0
  /\ prev_utime = 0 /\ prev_stime = 0
  /\ reader = [r \in Readers |-> Idle]

-----------------------------------------------------------------------------
(* The task runs: one half of its run time is stored, in either order, and *)
(* then the other; a tick finds it in user or in kernel mode.              *)
Stored == high * HALF + low = runtime
StoresHigh == high' = runtime' \div HALF /\ UNCHANGED low
StoresLow == low' = runtime' % HALF /\ UNCHANGED high
Runs ==
  /\ Stored /\ runtime < MaxRun /\ runtime' = runtime + 1
  /\ StoresHigh \/ StoresLow
  /\ UNCHANGED <<utime, stime, prev_utime, prev_stime, reader>>

RunsOn ==
  /\ ~Stored /\ UNCHANGED runtime
  /\ high' = runtime \div HALF /\ low' = runtime % HALF
  /\ UNCHANGED <<utime, stime, prev_utime, prev_stime, reader>>

Tick ==
  /\ utime + stime < MaxRun
  /\ \/ utime' = utime + 1 /\ UNCHANGED stime
     \/ stime' = stime + 1 /\ UNCHANGED utime
  /\ UNCHANGED <<runtime, high, low, prev_utime, prev_stime, reader>>

(* A reader of both calls task_utime(), then task_stime(), which calls it  *)
(* again.  Where the run time is to be read, one half of it is.            *)
LoadHalf(r) ==
  /\ \/ reader[r].at \in {"utime", "stime", "utime2"}
     \/ reader[r].at = "diff" /\ reader[r].rtime = -1
  /\ reader[r].half = "none"
  /\ \/ reader' = [reader EXCEPT ![r].half = "high", ![r].had = high]
     \/ reader' = [reader EXCEPT ![r].half = "low", ![r].had = low]
  /\ UNCHANGED <<utime, stime, runtime, high, low, prev_utime, prev_stime>>

Loaded(r) == IF reader[r].half = "high" THEN reader[r].had * HALF + low ELSE high * HALF + reader[r].had

(* sum_exec_runtime is read before or after the call: C leaves it open.    *)
BeginStime(r) ==
  /\ reader[r].at = "stime"
  /\ reader' = [reader EXCEPT ![r].at = "utime2", ![r].half = "none", ![r].had = 0,
                              ![r].rtime = IF reader[r].half = "none" THEN -1 ELSE Loaded(r)]
  /\ UNCHANGED <<utime, stime, runtime, high, low, prev_utime, prev_stime>>

(* task_utime() loads what it needs and the maximum, then stores it.       *)
scaled(total) == IF utime + stime = 0 THEN total ELSE (total * utime) \div (utime + stime)
LoadUtime(r) ==
  /\ reader[r].at \in {"utime", "utime2"} /\ reader[r].half # "none"
  /\ reader' = [reader EXCEPT ![r].at = IF @ = "utime" THEN "put" ELSE "put2",
                              ![r].half = "none", ![r].had = 0,
                              ![r].val = Bigger(prev_utime, scaled(Loaded(r)))]
  /\ UNCHANGED <<utime, stime, runtime, high, low, prev_utime, prev_stime>>

StoreUtime(r) ==
  /\ reader[r].at \in {"put", "put2"}
  /\ prev_utime' = reader[r].val
  /\ reader' = [reader EXCEPT ![r].at = IF @ = "put" THEN "stime" ELSE "diff",
                              ![r].val = IF reader[r].at = "put" THEN 0 ELSE @]
  /\ UNCHANGED <<utime, stime, runtime, high, low, prev_stime>>

(* The rest of task_stime(), which reads the run time if it has not yet.   *)
Difference(r) == (IF reader[r].rtime = -1 THEN Loaded(r) ELSE reader[r].rtime) - reader[r].val
Has(r) == reader[r].at = "diff" /\ (reader[r].rtime = -1 => reader[r].half # "none")
LoadStimeAlways(r) == \* mutant: a negative difference is a large time
  /\ Has(r)
  /\ reader' = [reader EXCEPT
       ![r] = [Idle EXCEPT !.at = "puts", !.val = Bigger(prev_stime, Difference(r) % 2^WIDTH)]]
  /\ UNCHANGED <<utime, stime, runtime, high, low, prev_utime, prev_stime>>

LoadStime(r) ==
  /\ Has(r)
  /\ LET diff == Difference(r) IN
       reader' = [reader EXCEPT ![r] = IF diff >= 0
         THEN [Idle EXCEPT !.at = "puts", !.val = Bigger(prev_stime, diff % 2^WIDTH)]
         ELSE Idle]
  /\ UNCHANGED <<utime, stime, runtime, high, low, prev_utime, prev_stime>>

StoreStime(r) ==
  /\ reader[r].at = "puts"
  /\ prev_stime' = reader[r].val
  /\ reader' = [reader EXCEPT ![r] = Idle]
  /\ UNCHANGED <<utime, stime, runtime, high, low, prev_utime>>

Next ==
  \/ Runs \/ RunsOn \/ Tick
  \/ \E r \in Readers : \/ LoadHalf(r) \/ BeginStime(r) \/ LoadUtime(r) \/ StoreUtime(r)
                        \/ LoadStime(r) \/ StoreStime(r)

Spec == Init /\ [][Next]_vars

-----------------------------------------------------------------------------
(* 5211: neither part is ever more than the task has run by as much as a   *)
(* half, however the readers mix, with each other and with the task, and   *)
(* whichever halves they get.                                              *)
PartsWithinRuntime == prev_utime < runtime + HALF /\ prev_stime < runtime + HALF

(* Run times that nobody tears would be within it: false.                  *)
PartsWithinExactly == prev_utime <= runtime /\ prev_stime <= runtime

(* With PartsWithinRuntime, an inductive invariant: what is in memory, what*)
(* a reader holds, and what it may still store, is as little above.        *)
Near == 0..(runtime + HALF - 1)
TimesInv ==
  /\ {utime, stime, runtime, high} \subseteq Nat /\ low \in 0..(HALF - 1)
  /\ high * HALF <= runtime
  /\ {prev_utime, prev_stime} \subseteq Near
  /\ reader \in [Readers -> [at : {"utime", "put", "stime", "utime2", "put2", "diff", "puts"},
                            half : {"none", "high", "low"}, had : Nat,
                            rtime : {-1} \cup Near, val : Near]]
  /\ \A r \in Readers : /\ reader[r].half = "high" => reader[r].had * HALF <= runtime
                        /\ reader[r].half = "low" => reader[r].had < HALF

(* 5204: what user space is told in all never shrinks, as apps rely on:    *)
(* false, with two readers that mix.                                       *)
TotalGrows == [][prev_utime' + prev_stime' >= prev_utime + prev_stime]_vars
=============================================================================
