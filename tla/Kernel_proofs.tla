---------------------------- MODULE Kernel_proofs ----------------------------
(***************************************************************************)
(* Theorems about the parts of the kernel, for any processors, tasks,      *)
(* groups, callers and pids.  A step of KernelSpec is a step of the part   *)
(* that moves (PartMoves); each part has an inductive invariant, defined   *)
(* next to the property in its module.  In the lemmas about a part, x1,    *)
(* x2, ... are its variables in the order in which they are declared.      *)
(***************************************************************************)
EXTENDS Kernel, WellFoundedInduction, FiniteSetTheorems, SequenceTheorems, TLAPS

LEMMA PartMoves ==
  ASSUME [KernelNext]_<<vars, part, slots>>
  PROVE  /\ part' = part
         /\ part = "Priorities" => [Next]_vars
         /\ part = "HrTick" => [HT!Next]_HT!vars
         /\ part = "NoHz" => [NZ!Next]_NZ!vars
         /\ part = "ForceRun" => [FR!DisciplinedNext]_FR!vars
         /\ part = "Affinity" => [AF!Next]_AF!vars
         /\ part = "Expedited" => [EX!Next]_EX!vars
         /\ part = "GroupMemory" => [GM!Next]_GM!vars
         /\ part = "CpuAcct" => [CA!Next]_CA!vars
         /\ part = "Shares" => [SH!Next]_SH!vars
         /\ part = "TaskTimes" => [TT!Next]_TT!vars
         /\ part = "CpuTime" => [CT!Next]_CT!vars
         /\ part = "RtPower" => [RP!Next]_RP!vars
         /\ part = "CpuLoad" => [CL!Next]_CL!vars
         /\ part = "LoadAvg" => [LA!Next]_LA!vars
         /\ part = "Domains" => [DO!Next]_DO!vars
         /\ part = "L1Invalidator" => [L1!Next]_L1!vars
<1>1. CASE UNCHANGED <<vars, part, slots>>
  BY <1>1 DEF slots, HT!vars, FR!vars, NZ!vars, AF!vars, EX!vars, GM!vars, CA!vars, SH!vars, TT!vars, CT!vars, RP!vars, CL!vars, LA!vars, DO!vars, L1!vars
<1>2. CASE KernelNext
  BY <1>2 DEF KernelNext
<1>. QED BY <1>1, <1>2

LEMMA PartStarts ==
  ASSUME KernelInit
  PROVE  /\ part = "Priorities" => Init
         /\ part = "HrTick" => HT!Init
         /\ part = "NoHz" => NZ!Init
         /\ part = "ForceRun" => FR!Init
         /\ part = "Affinity" => AF!Init
         /\ part = "Expedited" => EX!Init
         /\ part = "GroupMemory" => GM!Init
         /\ part = "CpuAcct" => CA!Init
         /\ part = "Shares" => SH!Init
         /\ part = "TaskTimes" => TT!Init
         /\ part = "CpuTime" => CT!Init
         /\ part = "RtPower" => RP!Init
         /\ part = "CpuLoad" => CL!Init
         /\ part = "LoadAvg" => LA!Init
         /\ part = "Domains" => DO!Init
         /\ part = "L1Invalidator" => L1!Init
BY DEF KernelInit

-----------------------------------------------------------------------------
LEMMA TickInit == HT!Init => HT!IInv
BY DEF HT!Init, HT!IInv, HT!TimesOK, HT!PendingIsSent, HT!TickComes

LEMMA TickStep == HT!IInv /\ [HT!Next]_HT!vars => HT!IInv'
<1>. SUFFICES ASSUME HT!IInv, [HT!Next]_HT!vars PROVE HT!IInv'
  OBVIOUS
<1>. USE DEF HT!IInv, HT!TimesOK, HT!PendingIsSent, HT!TickComes
<1>1. ASSUME NEW c \in CPUs, NEW delay \in 1..Horizon, HT!hrtick_start(c, delay)
      PROVE  HT!IInv'
  <2>1. x1 + delay \in Nat
    OBVIOUS
  <2>2. CASE c = Here
    BY <1>1, <2>1, <2>2 DEF HT!hrtick_start
  <2>3. CASE c # Here
    BY <1>1, <2>1, <2>3 DEF HT!hrtick_start
  <2>. QED BY <2>2, <2>3
<1>2. CASE HT!__hrtick_start
  BY <1>2 DEF HT!__hrtick_start
<1>3. CASE HT!Expire
  BY <1>3 DEF HT!Expire
<1>4. CASE HT!hrtick
  BY <1>4 DEF HT!hrtick
<1>5. CASE HT!hrtick_clear
  BY <1>5 DEF HT!hrtick_clear
<1>6. CASE HT!hotplug_hrtick
  BY <1>6 DEF HT!hotplug_hrtick, HT!hrtick_clear
<1>7. CASE HT!Hotplug
  BY <1>7 DEF HT!Hotplug
<1>8. CASE HT!Time
  BY <1>8 DEF HT!Time
<1>9. CASE UNCHANGED HT!vars
  BY <1>9 DEF HT!vars
<1>. QED BY <1>1, <1>2, <1>3, <1>4, <1>5, <1>6, <1>7, <1>8, <1>9 DEF HT!Next


(* hrtick_start(), 1093: a tick that was asked for is queued, running, or  *)
(* the interrupt that queues it is on its way.                             *)
THEOREM TickComesHolds == KernelSpec => []TickComes
<1>. DEFINE I == part = "HrTick" => HT!IInv
<1>1. KernelInit => I
  BY PartStarts, TickInit
<1>2. I /\ [KernelNext]_<<vars, part, slots>> => I'
  BY PartMoves, TickStep
<1>3. I => TickComes
  BY DEF TickComes, HT!IInv
<1>. QED BY <1>1, <1>2, <1>3, PTL DEF KernelSpec

-----------------------------------------------------------------------------
(* A set of natural numbers that is not empty has a least element.         *)
LEMMA LeastNumber ==
  ASSUME NEW S \in SUBSET Nat, S # {}
  PROVE  \E n \in S : \A m \in S : n <= m
<1>1. PICK n \in S : \A m \in S : <<m, n>> \notin OpToRel(<, Nat)
  BY NatLessThanWellFounded, WFMin, Zenon
<1>2. \A m \in S : ~(m < n)
  BY <1>1 DEF OpToRel
<1>. QED BY <1>2

(* find_new_ilb() names a processor whose tick is stopped, or none.        *)
LEMMA NewIlb ==
  ASSUME x5 \subseteq CPUs, NEW c \in CPUs
  PROVE  NZ!find_new_ilb(c) \in x5 \cup {None}
<1>1. ASSUME NEW S \in SUBSET x5, S # {}
      PROVE  NZ!Lowest(S) \in x5
  <2>1. \E n \in S : \A m \in S : n <= m
    BY <1>1, LeastNumber, ProcessorsAssumption
  <2>. QED BY <2>1 DEF NZ!Lowest
<1>. DEFINE semi == {g \in Packages : NZ!is_semi_idle_group(g)}
            own  == {g \in semi : c \in g}
            g    == IF own # {} THEN CHOOSE h \in own : TRUE ELSE CHOOSE h \in semi : TRUE
<1>2. CASE x5 = {}
  BY <1>2 DEF NZ!find_new_ilb
<1>3. CASE x5 # {} /\ (~x10 \/ NZ!Cardinality(x5) < 2 \/ semi = {})
  BY <1>1, <1>3 DEF NZ!find_new_ilb
<1>4. CASE x5 # {} /\ ~(~x10 \/ NZ!Cardinality(x5) < 2 \/ semi = {})
  <2>1. g \in semi
    BY <1>4
  <2>2. g \cap x5 # {}
    BY <2>1 DEF NZ!is_semi_idle_group
  <2>3. NZ!find_new_ilb(c) = NZ!Lowest(g \cap x5)
    BY <1>4 DEF NZ!find_new_ilb
  <2>. QED BY <1>1, <2>2, <2>3
<1>. QED BY <1>2, <1>3, <1>4

(* resched_cpu() by a processor that sends nothing and stays awake.        *)
LEMMA ReschedKeeps ==
  ASSUME NZ!SendInv, NEW c \in CPUs, NEW d \in CPUs, NZ!Free(c), NZ!resched_cpu(c, d)
  PROVE  /\ x7' \subseteq CPUs
         /\ x9' \in [CPUs -> {None} \cup NZ!Sent]
         /\ \A e \in CPUs \ {c} : x9'[e] = x9[e]
         /\ x9'[c] # None => x9'[c].at # "nominate"
         /\ \A e \in x7' \ x7 :
              e = c \/ (x9'[c] # None /\ x9'[c].cpu = e /\ x9'[c].at = "resched")
<1>1. CASE NZ!Locked(d) \/ d \in x7 \/ x1[d] = "busy"
  BY <1>1 DEF NZ!resched_cpu, NZ!SendInv, NZ!TypeOK, NZ!Free
<1>2. CASE ~(NZ!Locked(d) \/ d \in x7 \/ x1[d] = "busy")
  <2>1. NZ!Resched(c, d) \in NZ!Sent
    BY DEF NZ!Resched, NZ!Sent
  <2>2. NZ!Resched(c, d) # None
    BY <2>1, ProcessorsAssumption
  <2>. QED BY <1>2, <2>1, <2>2 DEF NZ!resched_cpu, NZ!SendInv, NZ!TypeOK, NZ!Free, NZ!Resched
<1>. QED BY <1>1, <1>2

LEMMA SendInit == ASSUME NZ!Init PROVE NZ!SendInv
BY ProcessorsAssumption DEF NZ!Init, NZ!SendInv, NZ!TypeOK, NZ!SendersAwake, NZ!NoLostResched

LEMMA SendStep == ASSUME NZ!SendInv, [NZ!Next]_NZ!vars PROVE NZ!SendInv'
<1>. USE DEF NZ!SendInv, NZ!TypeOK, NZ!Sent, NZ!SendersAwake, NZ!NoLostResched, NZ!Free, NZ!Do
<1>1. ASSUME NEW c \in CPUs, NEW d \in CPUs, NZ!Wake(c, d)
      PROVE  NZ!SendInv'
  BY <1>1, ReschedKeeps DEF NZ!Wake
<1>2. ASSUME NEW c \in CPUs, NEW d \in CPUs, NZ!wake_up_idle_cpu(c, d)
      PROVE  NZ!SendInv'
  BY <1>2 DEF NZ!wake_up_idle_cpu
<1>3. ASSUME NEW c \in CPUs, NZ!SetNeedResched(c)
      PROVE  NZ!SendInv'
  BY <1>3, ProcessorsAssumption DEF NZ!SetNeedResched
<1>4. ASSUME NEW c \in CPUs, NZ!TestPolling(c)
      PROVE  NZ!SendInv'
  BY <1>4 DEF NZ!TestPolling, NZ!Polling
<1>5. ASSUME NEW c \in CPUs, NZ!EnterSkips(c) \/ NZ!Enter(c) \/ NZ!Weigh(c)
      PROVE  NZ!SendInv'
  BY <1>5 DEF NZ!EnterSkips, NZ!Enter, NZ!Weigh
<1>6. ASSUME NEW c \in CPUs, NZ!Claim(c)
      PROVE  NZ!SendInv'
  <2>1. NZ!find_new_ilb(c) \in CPUs \cup {None} /\ NZ!Free(c)
    BY <1>6, NewIlb DEF NZ!Claim
  <2>2. CASE UNCHANGED <<x7, x9>>
    BY <1>6, <2>1, <2>2 DEF NZ!Claim
  <2>3. CASE NZ!find_new_ilb(c) \notin {c, None} /\ NZ!resched_cpu(c, NZ!find_new_ilb(c))
    BY <1>6, <2>1, <2>3, ReschedKeeps DEF NZ!Claim
  <2>. QED BY <1>6, <2>2, <2>3 DEF NZ!Claim
<1>7. ASSUME NEW c \in CPUs, NZ!Leave(c) \/ NZ!Switch(c) \/ NZ!Arm(c) \/ NZ!Halt(c) \/ NZ!Interrupted(c)
      PROVE  NZ!SendInv'
  BY <1>7 DEF NZ!Leave, NZ!Switch, NZ!Arm, NZ!Halt, NZ!Interrupted
<1>8. ASSUME NEW c \in CPUs, NZ!TickBusy(c)
      PROVE  NZ!SendInv'
  BY <1>8 DEF NZ!TickBusy
<1>9. ASSUME NEW c \in CPUs, NZ!Nominate(c)
      PROVE  NZ!SendInv'
  <2>1. NZ!find_new_ilb(c) \in CPUs \cup {None} /\ x1[c] = "busy"
    BY <1>9, NewIlb DEF NZ!Nominate
  <2>2. CASE x7' = x7 /\ x9' = [x9 EXCEPT ![c] = None]
    BY <1>9, <2>1, <2>2 DEF NZ!Nominate
  <2>3. CASE /\ NZ!find_new_ilb(c) \in CPUs \ {c}
             /\ x7' = x7 \cup {NZ!find_new_ilb(c)}
             /\ x9' = [x9 EXCEPT ![c] = NZ!Resched(c, NZ!find_new_ilb(c))]
    <3>1. NZ!Resched(c, NZ!find_new_ilb(c)) \in NZ!Sent
      BY <2>3 DEF NZ!Resched
    <3>2. NZ!Resched(c, NZ!find_new_ilb(c)) # None
      BY <3>1, ProcessorsAssumption
    <3>. QED BY <1>9, <2>1, <2>3, <3>1, <3>2 DEF NZ!Nominate, NZ!Resched
  <2>. QED BY <1>9, <2>1, <2>2, <2>3 DEF NZ!Nominate
<1>10. ASSUME NEW c \in CPUs, NZ!TickIdle(c)
       PROVE  NZ!SendInv'
  <2>1. x1' = [x1 EXCEPT ![c] = IF c \in x7' THEN "poll" ELSE "enter"] /\ x8' = x8 /\ x5' = x5
    BY <1>10 DEF NZ!TickIdle
  <2>2. CASE UNCHANGED <<x7, x9>>
    BY <1>10, <2>1, <2>2 DEF NZ!TickIdle
  <2>3. CASE NZ!resched_cpu(c, c)
    BY <1>10, <2>1, <2>3 DEF NZ!TickIdle, NZ!resched_cpu
  <2>. QED BY <1>10, <2>2, <2>3 DEF NZ!TickIdle
<1>11. ASSUME NEW c \in CPUs, NZ!DownPrepare(c) \/ NZ!StopMachine(c) \/ NZ!PlayDead(c) \/ NZ!Up(c)
       PROVE  NZ!SendInv'
  BY <1>11 DEF NZ!DownPrepare, NZ!StopMachine, NZ!PlayDead, NZ!Up
<1>12. CASE UNCHANGED NZ!vars
  BY <1>12 DEF NZ!vars
<1>. QED BY <1>1, <1>2, <1>3, <1>4, <1>5, <1>6, <1>7, <1>8, <1>9, <1>10, <1>11, <1>12 DEF NZ!Next


(* wake_up_idle_cpu() and resched_task(), 1169 and 1240: no processor      *)
(* halts, or stays halted, over a request that nobody is about to announce.*)
THEOREM NoLostReschedHolds == KernelSpec => []NoLostResched
<1>. DEFINE I == part = "NoHz" => NZ!SendInv
<1>1. KernelInit => I
  BY PartStarts, SendInit
<1>2. I /\ [KernelNext]_<<vars, part, slots>> => I'
  BY PartMoves, SendStep
<1>3. I => NoLostResched
  BY DEF NoLostResched, NZ!SendInv
<1>. QED BY <1>1, <1>2, <1>3, PTL DEF KernelSpec

-----------------------------------------------------------------------------
LEMMA CoverInit == ASSUME NZ!Init PROVE NZ!CoverInv
BY DEF NZ!Init, NZ!CoverInv

LEMMA CoverStep == ASSUME NZ!SendInv, NZ!CoverInv, [NZ!Next]_NZ!vars PROVE NZ!CoverInv'
<1>. USE DEF NZ!CoverInv, NZ!SendInv, NZ!TypeOK, NZ!Free, NZ!Do
<1>1. ASSUME NEW c \in CPUs, NEW d \in CPUs, NZ!Wake(c, d) \/ NZ!wake_up_idle_cpu(c, d)
      PROVE  NZ!CoverInv'
  BY <1>1 DEF NZ!Wake, NZ!wake_up_idle_cpu
<1>2. ASSUME NEW c \in CPUs, NZ!SetNeedResched(c) \/ NZ!TestPolling(c)
      PROVE  NZ!CoverInv'
  BY <1>2 DEF NZ!SetNeedResched, NZ!TestPolling
<1>3. ASSUME NEW c \in CPUs, NZ!EnterSkips(c) \/ NZ!Enter(c)
      PROVE  NZ!CoverInv'
  BY <1>3, ProcessorsAssumption DEF NZ!EnterSkips, NZ!Enter
<1>4. ASSUME NEW c \in CPUs, NZ!Weigh(c)
      PROVE  NZ!CoverInv'
  <2>1. /\ x1[c] = "weigh" /\ UNCHANGED <<x2, x4, x5, x7, x8, x9, x10>>
        /\ \/ /\ x6' = IF x6 = c THEN None ELSE x6
              /\ x3' = x3 \ {c} /\ x1' = [x1 EXCEPT ![c] = "poll"]
           \/ x1' = [x1 EXCEPT ![c] = "claim"] /\ UNCHANGED <<x3, x6>>
    BY <1>4 DEF NZ!Weigh
  <2>2. CASE UNCHANGED <<x3, x6>>
    BY <2>1, <2>2
  <2>3. CASE x3' = x3 \ {c} /\ x6' = (IF x6 = c THEN None ELSE x6) /\ x1' = [x1 EXCEPT ![c] = "poll"]
    BY <2>1, <2>3, ProcessorsAssumption
  <2>. QED BY <2>1, <2>2, <2>3
<1>5. ASSUME NEW c \in CPUs, NZ!Claim(c)
      PROVE  NZ!CoverInv'
  <2>1. /\ x1[c] = "claim" /\ x1' = [x1 EXCEPT ![c] = "poll"]
        /\ UNCHANGED <<x2, x4, x5, x8, x10>>
    BY <1>5 DEF NZ!Claim
  <2>2. \/ x6 = None /\ x6' = c /\ x3' = x3
        \/ x6 = c /\ x6' = None /\ x3' = x3 \ {c}
        \/ x6 = c /\ x6' = c /\ x3' = x3
        \/ x6 # c /\ x6' = x6 /\ x3' = x3 \ {c}
    BY <1>5, Zenon DEF NZ!Claim
  <2>. QED BY <2>1, <2>2, ProcessorsAssumption
<1>6. ASSUME NEW c \in CPUs, NZ!Leave(c) \/ NZ!Switch(c) \/ NZ!Arm(c) \/ NZ!Halt(c) \/ NZ!Interrupted(c)
      PROVE  NZ!CoverInv'
  BY <1>6, ProcessorsAssumption DEF NZ!Leave, NZ!Switch, NZ!Arm, NZ!Halt, NZ!Interrupted
<1>7. ASSUME NEW c \in CPUs, NZ!TickBusy(c) \/ NZ!Nominate(c)
      PROVE  NZ!CoverInv'
  BY <1>7, ProcessorsAssumption DEF NZ!TickBusy, NZ!Nominate
<1>8. ASSUME NEW c \in CPUs, NZ!TickIdle(c)
      PROVE  NZ!CoverInv'
  BY <1>8 DEF NZ!TickIdle
<1>9. ASSUME NEW c \in CPUs, NZ!DownPrepare(c) \/ NZ!StopMachine(c) \/ NZ!PlayDead(c) \/ NZ!Up(c)
      PROVE  NZ!CoverInv'
  BY <1>9, ProcessorsAssumption DEF NZ!DownPrepare, NZ!StopMachine, NZ!PlayDead, NZ!Up
<1>10. CASE UNCHANGED NZ!vars
  BY <1>10 DEF NZ!vars
<1>. QED BY <1>1, <1>2, <1>3, <1>4, <1>5, <1>6, <1>7, <1>8, <1>9, <1>10 DEF NZ!Next

(* select_nohz_load_balancer(), 4638 to 4650: the processor that balances  *)
(* for those without a tick has its own and covers all of them.            *)
THEOREM IdleBalancedHolds == KernelSpec => []IdleBalanced
<1>. DEFINE I == part = "NoHz" => NZ!SendInv /\ NZ!CoverInv
<1>1. KernelInit => I
  BY PartStarts, SendInit, CoverInit
<1>2. I /\ [KernelNext]_<<vars, part, slots>> => I'
  BY PartMoves, SendStep, CoverStep
<1>3. I => IdleBalanced
  BY ProcessorsAssumption DEF IdleBalanced, NZ!OwnerCovers, NZ!run_rebalance_domains, NZ!CoverInv,
     NZ!SendInv, NZ!TypeOK
<1>. QED BY <1>1, <1>2, <1>3, PTL DEF KernelSpec

-----------------------------------------------------------------------------
LEMMA ContextNotNoOwner == \A x \in FR!Contexts : x # FR!NoOwner
  BY DEF FR!Contexts, FR!NoOwner, FR!Levels

(* The initial state satisfies the inductive invariant.                    *)
LEMMA ForceInit == FR!Init => FR!DisciplineInv
  BY ContextNotNoOwner
     DEF FR!Init, FR!DisciplineInv, FR!TypeOK, FR!LockOwned, FR!ForcingAlone, FR!ForcingProgress,
         FR!ResetsConverge, FR!Settled, FR!Idle, FR!Quiet, FR!Forcing, FR!Labels

(* Every step of disciplined use preserves it.                             *)
LEMMA ForceStep == FR!DisciplineInv /\ [FR!DisciplinedNext]_FR!vars => FR!DisciplineInv'
  <1> SUFFICES ASSUME FR!DisciplineInv, [FR!DisciplinedNext]_FR!vars PROVE FR!DisciplineInv'
    OBVIOUS
  <1> USE ForcedPidsAssumption, ContextNotNoOwner DEF FR!DisciplineInv, FR!Idle, FR!Labels
  <1>1. ASSUME NEW x \in FR!Contexts, FR!Test(x) PROVE FR!DisciplineInv'
    <2> USE <1>1 DEF FR!Test
    <2>1. FR!TypeOK' /\ FR!LockOwned'
      BY DEF FR!TypeOK, FR!LockOwned
    <2>2. FR!ForcingAlone' /\ (FR!Forcing' <=> FR!Forcing)
      BY DEF FR!ForcingAlone, FR!Forcing, FR!TypeOK
    <2>3. FR!ForcingProgress'
      BY DEF FR!ForcingProgress, FR!ForcingAlone, FR!TypeOK
    <2>4. FR!ResetsConverge'
      BY <2>2 DEF FR!ResetsConverge, FR!Forcing, FR!TypeOK
    <2>5. FR!Settled'
      BY DEF FR!Settled, FR!Quiet, FR!TypeOK
    <2> QED BY <2>1, <2>2, <2>3, <2>4, <2>5
  <1>2. ASSUME NEW x \in FR!Contexts, FR!Lock(x) PROVE FR!DisciplineInv'
    <2> USE <1>2 DEF FR!Lock
    <2>1. FR!TypeOK' /\ FR!LockOwned'
      BY DEF FR!TypeOK, FR!LockOwned
    <2>2. FR!ForcingAlone' /\ (FR!Forcing' <=> FR!Forcing)
      BY DEF FR!ForcingAlone, FR!Forcing, FR!TypeOK
    <2>3. FR!ForcingProgress'
      BY DEF FR!ForcingProgress, FR!ForcingAlone, FR!TypeOK
    <2>4. FR!ResetsConverge'
      BY <2>2 DEF FR!ResetsConverge, FR!Forcing, FR!TypeOK
    <2>5. FR!Settled'
      BY DEF FR!Settled, FR!Quiet, FR!TypeOK
    <2> QED BY <2>1, <2>2, <2>3, <2>4, <2>5
  <1>3. ASSUME NEW x \in FR!Contexts, FR!Write(x) PROVE FR!DisciplineInv'
    <2> USE <1>3 DEF FR!Write
    <2>1. FR!TypeOK' /\ FR!LockOwned'
      BY DEF FR!TypeOK, FR!LockOwned
    <2>2. FR!ForcingAlone' /\ (FR!Forcing' <=> FR!Forcing)
      BY DEF FR!ForcingAlone, FR!Forcing, FR!TypeOK
    <2>3. FR!ForcingProgress'
      BY DEF FR!ForcingProgress, FR!ForcingAlone, FR!TypeOK
    <2>4. FR!ResetsConverge'
      BY <2>2 DEF FR!ResetsConverge, FR!Forcing, FR!TypeOK
    <2>5. FR!Settled'
      BY DEF FR!Settled, FR!Quiet, FR!TypeOK
    <2> QED BY <2>1, <2>2, <2>3, <2>4, <2>5
  <1>4. ASSUME NEW x \in FR!Contexts, FR!Save(x) PROVE FR!DisciplineInv'
    <2> USE <1>4 DEF FR!Save
    <2>1. FR!TypeOK' /\ FR!LockOwned'
      BY DEF FR!TypeOK, FR!LockOwned
    <2>2. FR!ForcingAlone'
      BY DEF FR!ForcingAlone, FR!TypeOK
    <2>3. FR!ForcingProgress'
      BY DEF FR!ForcingProgress, FR!ForcingAlone, FR!TypeOK
    <2>4. x1' = x2'
      BY DEF FR!ForcingProgress, FR!ForcingAlone, FR!ResetsConverge, FR!Forcing, FR!TypeOK
    <2>5. FR!ResetsConverge'
      <3>1. CASE x5[x] # 0
        BY <3>1, <2>4 DEF FR!ResetsConverge, FR!ForcingAlone, FR!TypeOK
      <3>2. CASE x5[x] = 0
        BY <3>2, <2>4 DEF FR!ResetsConverge, FR!ForcingAlone, FR!Forcing, FR!TypeOK
      <3> QED BY <3>1, <3>2
    <2>6. FR!Settled'
      BY <2>4 DEF FR!Settled
    <2> QED BY <2>1, <2>2, <2>3, <2>5, <2>6
  <1>5. ASSUME NEW x \in FR!Contexts, ~FR!Forcing, FR!Call(x, 0) PROVE FR!DisciplineInv'
    <2> USE <1>5 DEF FR!Call
    <2>1. FR!TypeOK' /\ FR!LockOwned'
      BY DEF FR!TypeOK, FR!LockOwned
    <2>2. FR!ForcingAlone' /\ ~FR!Forcing' /\ FR!ForcingProgress'
      BY DEF FR!ForcingAlone, FR!ForcingProgress, FR!Forcing, FR!TypeOK
    <2>3. FR!ResetsConverge'
      BY DEF FR!ResetsConverge, FR!TypeOK
    <2>4. FR!Settled'
      BY DEF FR!Settled, FR!Quiet, FR!TypeOK
    <2> QED BY <2>1, <2>2, <2>3, <2>4
  <1>6. ASSUME NEW x \in FR!Contexts, FR!Quiet, NEW p \in ForcedPids, FR!Call(x, p) PROVE FR!DisciplineInv'
    <2> USE <1>6 DEF FR!Call
    <2>1. FR!TypeOK' /\ FR!LockOwned'
      BY DEF FR!TypeOK, FR!LockOwned
    <2>2. FR!ForcingAlone' /\ FR!Forcing'
      BY DEF FR!ForcingAlone, FR!Forcing, FR!Quiet, FR!TypeOK
    <2>3. FR!ForcingProgress'
      BY DEF FR!ForcingProgress, FR!Settled, FR!Quiet, FR!TypeOK
    <2>4. FR!ResetsConverge' /\ FR!Settled'
      BY <2>2 DEF FR!ResetsConverge, FR!Settled, FR!Quiet, FR!TypeOK
    <2> QED BY <2>1, <2>2, <2>3, <2>4
  <1>7. CASE UNCHANGED FR!vars
    BY <1>7 DEF FR!vars, FR!TypeOK, FR!LockOwned, FR!ForcingAlone, FR!ForcingProgress,
                FR!ResetsConverge, FR!Settled, FR!Quiet, FR!Forcing
  <1> QED
    BY <1>1, <1>2, <1>3, <1>4, <1>5, <1>6, <1>7 DEF FR!DisciplinedNext, FR!Step

(* Under the discipline a call that returns has had its effect.            *)
LEMMA ForceReturns == ASSUME FR!DisciplineInv, [FR!DisciplinedNext]_FR!vars PROVE FR!DoneAtReturn
<1>. SUFFICES ASSUME NEW y \in FR!Contexts, x4[y] = "save", x4'[y] = "idle"
              PROVE  x1' = x5[y]
  BY DEF FR!DoneAtReturn
<1>1. PICK x \in FR!Contexts :
        FR!Step(x) \/ FR!Call(x, 0) \/ \E p \in ForcedPids : FR!Call(x, p)
  BY DEF FR!DisciplinedNext, FR!vars
<1>2. FR!Save(y)
  BY <1>1 DEF FR!Step, FR!Test, FR!Lock, FR!Write, FR!Save, FR!Call, FR!DisciplineInv, FR!TypeOK, FR!Idle
<1>. QED
  BY <1>2 DEF FR!Save, FR!DisciplineInv, FR!TypeOK, FR!ForcingProgress, FR!ResetsConverge,
              FR!ForcingAlone, FR!Forcing, FR!Idle

-----------------------------------------------------------------------------
(* What PrioInForce says of a task with the fields t and first waiter w.   *)
Right(t, w) ==
  /\ t.normal = normal_prio(t) /\ t.weight = load_weight(t)
  /\ rt_prio(t.prio) \/ rt_prio(Least(w, t.normal)) => t.prio = Least(w, t.normal)
  /\ t.class = "rt" => rt_prio(t.prio)
  /\ t.class = "fair" /\ rt_prio(t.prio) => w = t.prio /\ ~rt_policy(t.policy)

LEMMA AllRight == PrioInForce <=> \A p \in alive \ leaked : Right(task[p], waiter[p])
BY DEF PrioInForce, Right, rt_mutex_getprio

LEMMA WaiterRange ==
  ASSUME TypeOK, NEW p \in Tasks
  PROVE  waiter[p] \in Nat /\ \A m \in 0..MaxStatic : Least(waiter[p], m) \in 0..MaxStatic
<1>1. waiter[p] \in WaiterPrios \cup {MAX_PRIO}
  BY DEF TypeOK
<1>2. waiter[p] \in Nat
  <2>1. CASE waiter[p] \in WaiterPrios
    <3>1. waiter[p] \in 0..MaxStatic
      BY <2>1, PrioAssumption, Zenon
    <3>. QED BY <3>1
  <2>2. CASE waiter[p] = MAX_PRIO
    BY <2>2, PrioAssumption DEF MAX_PRIO
  <2>. QED BY <1>1, <2>1, <2>2
<1>. QED BY <1>2, PrioAssumption DEF Least

LEMMA SetschedulerFields ==
  ASSUME TypeOK, NEW p \in Tasks, NEW t \in Fields, NEW policy \in Policies, NEW param \in 0..(MAX_RT_PRIO - 1),
         NEW z, z = __setscheduler(p, t, policy, param)
  PROVE  /\ z \in Fields
         /\ z.policy = policy /\ z.rt_priority = param /\ z.static = t.static /\ z.reset = t.reset
         /\ z.class = IF rt_policy(policy) THEN "rt" ELSE "fair"
         /\ z.normal = normal_prio(z) /\ z.weight = load_weight(z)
         /\ z.prio = Least(waiter[p], z.normal)
<1>. DEFINE k == IF rt_policy(policy) THEN "rt" ELSE "fair"
            m == IF rt_policy(policy) THEN MAX_RT_PRIO - 1 - param ELSE t.static
            w == IF rt_policy(policy) THEN RtWeight
                     ELSE IF policy = "IDLE" THEN IdleWeight ELSE t.static
            q == Least(waiter[p], m)
<1>1. m \in 0..MaxStatic /\ w \in Weights /\ k \in Classes
  BY PrioAssumption DEF Fields, StaticPrios, Weights, RtWeight, IdleWeight, Classes
<1>. HIDE DEF k, m, w
<1>2. q \in 0..MaxStatic
  BY <1>1, WaiterRange
<1>. HIDE DEF q
<1>. DEFINE u == [t EXCEPT !.policy = policy, !.rt_priority = param, !.class = k]
            v == [u EXCEPT !.normal = m, !.weight = w]
            y == [v EXCEPT !.prio = q]
<1>3. /\ u \in Fields
      /\ u.policy = policy /\ u.rt_priority = param /\ u.class = k /\ u.static = t.static /\ u.reset = t.reset
  BY <1>1 DEF Fields
<1>. HIDE DEF u
<1>4. /\ v \in Fields
      /\ v.policy = policy /\ v.rt_priority = param /\ v.class = k /\ v.static = t.static /\ v.reset = t.reset
      /\ v.normal = m /\ v.weight = w
  BY <1>1, <1>3 DEF Fields
<1>. HIDE DEF v
<1>5. /\ y \in Fields
      /\ y.policy = policy /\ y.rt_priority = param /\ y.class = k /\ y.static = t.static /\ y.reset = t.reset
      /\ y.normal = m /\ y.weight = w /\ y.prio = q
  BY <1>2, <1>4 DEF Fields
<1>. HIDE DEF y
<1>6. normal_prio(u) = m /\ load_weight(u) = w
  BY <1>3 DEF normal_prio, load_weight, m, w
<1>7. rt_mutex_getprio(p, v) = q
  BY <1>4 DEF rt_mutex_getprio, q
<1>8. z = y
  BY <1>6, <1>7 DEF __setscheduler, k, u, v, y
<1>. QED BY <1>5, <1>8 DEF normal_prio, load_weight, k, m, w, q

LEMMA ResetField ==
  ASSUME NEW t \in Fields, NEW b \in BOOLEAN, NEW z, z = [t EXCEPT !.reset = b]
  PROVE  /\ z \in Fields /\ z.policy = t.policy
         /\ \A w : Right(t, w) => Right(z, w)
<1>1. /\ z \in Fields
      /\ z.policy = t.policy /\ z.rt_priority = t.rt_priority /\ z.static = t.static
      /\ z.normal = t.normal /\ z.prio = t.prio /\ z.class = t.class /\ z.weight = t.weight
  BY DEF Fields
<1>. QED BY <1>1 DEF Right, normal_prio, load_weight

(* A new policy is in force at once, but for a better priority inherited.  *)
LEMMA SetschedulerRight ==
  ASSUME TypeOK, NEW p \in Tasks, NEW t \in Fields, NEW policy \in Policies, NEW param \in 0..(MAX_RT_PRIO - 1)
  PROVE  Right(__setscheduler(p, t, policy, param), waiter[p])
<1>. DEFINE z == __setscheduler(p, t, policy, param)
            w == waiter[p]
<1>1. /\ z \in Fields /\ z.policy = policy /\ z.rt_priority = param
      /\ z.class = IF rt_policy(policy) THEN "rt" ELSE "fair"
      /\ z.normal = normal_prio(z) /\ z.weight = load_weight(z)
      /\ z.prio = Least(w, z.normal)
  BY SetschedulerFields
<1>2. w \in Nat
  BY WaiterRange
<1>. HIDE DEF z, w
<1>3. z.normal \in Nat /\ z.prio \in Nat /\ z.static \in StaticPrios /\ z.rt_priority \in 0..(MAX_RT_PRIO - 1)
  BY <1>1, PrioAssumption DEF Fields
<1>4. rt_policy(policy) => z.normal < MAX_RT_PRIO
  BY <1>1, <1>3, PrioAssumption DEF normal_prio, rt_policy
<1>5. ~rt_policy(policy) => z.normal >= MAX_RT_PRIO
  BY <1>1, <1>3, PrioAssumption DEF normal_prio, rt_policy, StaticPrios
<1>6. Right(z, w)
  BY <1>1, <1>2, <1>3, <1>4, <1>5, PrioAssumption DEF Right, rt_prio, rt_policy, Least
<1>. QED BY <1>6 DEF z, w

(* A nice value changes the priority in force only of a task that is not   *)
(* real-time, neither by itself nor by inheritance.                        *)
LEMMA NicedFields ==
  ASSUME NEW t \in Fields, NEW nice \in StaticPrios, NEW z, z = Niced(t, nice)
  PROVE  /\ z \in Fields /\ z.policy = t.policy
         /\ \A w \in Nat : Right(t, w) => Right(z, w)
<1>1. nice \in 0..MaxStatic /\ nice \in Weights /\ IdleWeight \in Weights /\ RtWeight \in Weights
  BY PrioAssumption DEF StaticPrios, Weights
<1>2. CASE nice = t.static
  BY <1>2 DEF Niced
<1>3. CASE nice # t.static /\ rt_policy(t.policy)
  <2>1. z = [t EXCEPT !.static = nice]
    BY <1>3 DEF Niced
  <2>2. /\ z \in Fields
        /\ z.policy = t.policy /\ z.rt_priority = t.rt_priority
        /\ z.normal = t.normal /\ z.prio = t.prio /\ z.class = t.class /\ z.weight = t.weight
    BY <2>1 DEF Fields
  <2>. QED BY <1>3, <2>2 DEF Right, normal_prio, load_weight
<1>4. CASE nice # t.static /\ ~rt_policy(t.policy)
  <2>. DEFINE x == IF t.policy = "IDLE" THEN IdleWeight ELSE nice
              u == [t EXCEPT !.static = nice]
              v == [u EXCEPT !.normal = nice, !.weight = x]
              y == [v EXCEPT !.prio = nice]
  <2>1. x \in Weights
    BY <1>1
  <2>. HIDE DEF x
  <2>2. /\ u \in Fields
        /\ u.policy = t.policy /\ u.rt_priority = t.rt_priority /\ u.static = nice
        /\ u.prio = t.prio /\ u.class = t.class
    BY DEF Fields
  <2>. HIDE DEF u
  <2>3. /\ v \in Fields
        /\ v.policy = t.policy /\ v.rt_priority = t.rt_priority /\ v.static = nice
        /\ v.prio = t.prio /\ v.class = t.class /\ v.normal = nice /\ v.weight = x
    BY <1>1, <2>1, <2>2 DEF Fields
  <2>. HIDE DEF v
  <2>4. /\ y \in Fields
        /\ y.policy = t.policy /\ y.rt_priority = t.rt_priority /\ y.static = nice
        /\ y.prio = nice /\ y.class = t.class /\ y.normal = nice /\ y.weight = x
    BY <1>1, <2>3 DEF Fields
  <2>. HIDE DEF y
  <2>5. normal_prio(u) = nice /\ load_weight(u) = x
    BY <1>4, <2>2 DEF normal_prio, load_weight, x
  <2>6. z = IF rt_prio(t.prio) THEN v ELSE y
    BY <1>4, <2>3, <2>5 DEF Niced, u, v, y
  <2>7. z \in Fields /\ z.policy = t.policy /\ z.static = nice /\ z.class = t.class /\ z.normal = nice /\ z.weight = x
        /\ z.prio = IF rt_prio(t.prio) THEN t.prio ELSE nice
    BY <2>3, <2>4, <2>6
  <2>8. z.normal = normal_prio(z) /\ z.weight = load_weight(z)
    BY <1>4, <2>7 DEF normal_prio, load_weight, x
  <2>9. ASSUME NEW w \in Nat, Right(t, w)
        PROVE  Right(z, w)
    <3>1. t.prio \in Nat /\ t.normal = t.static /\ t.static \in StaticPrios
      BY <1>4, <2>9 DEF Fields, Right, normal_prio
    <3>2. nice >= MAX_RT_PRIO /\ t.normal >= MAX_RT_PRIO /\ nice \in Nat /\ t.normal \in Nat
      BY <3>1, PrioAssumption DEF StaticPrios
    <3>3. rt_prio(t.prio) \/ rt_prio(Least(w, t.normal)) => t.prio = Least(w, t.normal)
      BY <2>9 DEF Right
    <3>4. rt_prio(z.prio) \/ rt_prio(Least(w, z.normal)) => z.prio = Least(w, z.normal)
      BY <2>7, <3>1, <3>2, <3>3, PrioAssumption DEF rt_prio, Least
    <3>5. rt_prio(z.prio) <=> rt_prio(t.prio)
      BY <2>7, <3>2, PrioAssumption DEF rt_prio
    <3>. QED BY <2>7, <2>8, <2>9, <3>4, <3>5 DEF Right
  <2>. QED BY <2>7, <2>9
<1>. QED BY <1>2, <1>3, <1>4

(* What rt_mutex_setprio() makes of a task when its first waiter changes.  *)
Boosted(t, n) == [t EXCEPT !.prio = n, !.class = IF rt_prio(n) THEN "rt" ELSE "fair"]

LEMMA BoostRight ==
  ASSUME NEW t \in Fields, NEW w \in 0..MAX_PRIO
  PROVE  LET z == Boosted(t, Least(w, t.normal))
         IN  z \in Fields /\ \A v : Right(t, v) => Right(z, w)
<1>. DEFINE n == Least(w, t.normal)
            k == IF rt_prio(n) THEN "rt" ELSE "fair"
            z == [t EXCEPT !.prio = n, !.class = k]
<1>1. n \in 0..MaxStatic
  BY PrioAssumption DEF Fields, Least, MAX_PRIO
<1>2. k \in Classes
  BY DEF Classes
<1>. HIDE DEF n, k
<1>3. /\ z \in Fields
      /\ z.policy = t.policy /\ z.rt_priority = t.rt_priority /\ z.static = t.static
      /\ z.normal = t.normal /\ z.weight = t.weight /\ z.prio = n /\ z.class = k
  BY <1>1, <1>2 DEF Fields
<1>. HIDE DEF z
<1>4. ASSUME NEW v, Right(t, v) PROVE Right(z, w)
  <2>1. z.normal = normal_prio(z) /\ z.weight = load_weight(z)
    BY <1>3, <1>4 DEF Right, normal_prio, load_weight
  <2>. QED BY <1>3, <2>1 DEF Right, n, k
<1>5. Boosted(t, n) = z
  BY DEF Boosted, z, k
<1>. QED BY <1>3, <1>4, <1>5 DEF n

(* A child starts with the priority that its parent has of its own.        *)
LEMMA ForkFields ==
  ASSUME NEW t \in Fields, NEW z, z = sched_fork(t)
  PROVE  /\ z \in Fields
         /\ ~t.reset => \A w \in Nat : Right(t, w) => Right(z, MAX_PRIO)
<1>. DEFINE norm == IF t.reset /\ rt_policy(t.policy)
                      THEN [t EXCEPT !.policy = "NORMAL", !.normal = t.static] ELSE t
            base == [norm EXCEPT !.static = NICE_0]
            x    == load_weight(base)
            nice == IF t.reset /\ t.static < NICE_0
                      THEN [norm EXCEPT !.static = NICE_0, !.normal = NICE_0, !.weight = x] ELSE norm
            child == [nice EXCEPT !.reset = FALSE, !.prio = t.normal]
            y     == [child EXCEPT !.class = "fair"]
<1>1. NICE_0 \in StaticPrios /\ NICE_0 \in 0..MaxStatic /\ t.static \in 0..MaxStatic
  BY PrioAssumption DEF StaticPrios, Fields
<1>2. norm \in Fields
  BY <1>1 DEF Fields, Policies
<1>3. ~t.reset => norm = t
  OBVIOUS
<1>. HIDE DEF norm
<1>4. base \in Fields /\ base.static = NICE_0
  BY <1>1, <1>2 DEF Fields
<1>. HIDE DEF base
<1>5. x \in Weights
  BY <1>1, <1>4, PrioAssumption DEF load_weight, Weights
<1>. HIDE DEF x
<1>6. nice \in Fields
  BY <1>1, <1>2, <1>5 DEF Fields
<1>7. ~t.reset => nice = t
  BY <1>3
<1>. HIDE DEF nice
<1>8. t.normal \in 0..MaxStatic
  BY DEF Fields
<1>9. /\ child \in Fields
      /\ child.policy = nice.policy /\ child.rt_priority = nice.rt_priority /\ child.static = nice.static
      /\ child.normal = nice.normal /\ child.class = nice.class /\ child.weight = nice.weight
      /\ child.prio = t.normal
  BY <1>6, <1>8 DEF Fields
<1>. HIDE DEF child
<1>10. /\ y \in Fields
       /\ y.policy = nice.policy /\ y.rt_priority = nice.rt_priority /\ y.static = nice.static
       /\ y.normal = nice.normal /\ y.class = "fair" /\ y.weight = nice.weight
       /\ y.prio = t.normal
  BY <1>9 DEF Fields, Classes
<1>. HIDE DEF y
<1>11. z = IF rt_prio(child.prio) THEN child ELSE y
  BY DEF sched_fork, norm, base, x, nice, child, y
<1>12. ASSUME ~t.reset, NEW w \in Nat, Right(t, w)
       PROVE  Right(z, MAX_PRIO)
  <2>1. /\ z.policy = t.policy /\ z.rt_priority = t.rt_priority /\ z.static = t.static
        /\ z.normal = t.normal /\ z.weight = t.weight /\ z.prio = t.normal
        /\ z.class = IF rt_prio(t.normal) THEN t.class ELSE "fair"
    BY <1>7, <1>9, <1>10, <1>11, <1>12
  <2>2. z.normal = normal_prio(z) /\ z.weight = load_weight(z)
    BY <1>12, <2>1 DEF Right, normal_prio, load_weight
  <2>3. t.prio \in Nat /\ t.normal \in 0..MaxStatic /\ t.static \in StaticPrios /\ t.class \in Classes
    BY DEF Fields
  <2>4. Least(MAX_PRIO, z.normal) = z.prio
    BY <2>1, <2>3, PrioAssumption DEF Least, MAX_PRIO
  <2>5. ~(rt_prio(t.normal) /\ t.class = "fair")
    <3>1. SUFFICES ASSUME rt_prio(t.normal), t.class = "fair" PROVE FALSE
      OBVIOUS
    <3>2. rt_policy(t.policy)
      BY <1>12, <2>3, <3>1, PrioAssumption DEF Right, normal_prio, rt_prio, StaticPrios
    <3>3. rt_prio(Least(w, t.normal))
      BY <2>3, <3>1, PrioAssumption DEF rt_prio, Least
    <3>4. rt_prio(t.prio)
      BY <1>12, <3>3 DEF Right
    <3>. QED BY <1>12, <3>1, <3>2, <3>4 DEF Right
  <2>. QED BY <2>1, <2>2, <2>4, <2>5 DEF Right
<1>. QED BY <1>9, <1>10, <1>11, <1>12

-----------------------------------------------------------------------------
LEMMA FiledEntry == ASSUME NEW t \in Fields PROVE Filed(t) \in Entries
BY DEF Filed, Fields, Entries

(* Under the run queue lock a task is filed as what it becomes.            *)
LEMMA RefileKeeps ==
  ASSUME TypeOK, QueuedExist, FiledAsIs, NEW p \in Tasks, NEW t \in Fields, Refile(p, t),
         UNCHANGED <<alive, curr>>
  PROVE  /\ task' = [task EXCEPT ![p] = t] /\ task' \in [Tasks -> Fields]
         /\ entry' \in [Tasks -> Entries] /\ held' \in Classes \cup {None}
         /\ QueuedExist' /\ FiledAsIs'
<1>1. task \in [Tasks -> Fields] /\ entry \in [Tasks -> Entries] /\ held \in Classes \cup {None}
      /\ curr \in Tasks \cup {None}
  BY DEF TypeOK
<1>2. task' = [task EXCEPT ![p] = t] /\ task' \in [Tasks -> Fields]
  BY <1>1 DEF Refile
<1>3. t.class \in Classes
  BY DEF Fields
<1>4. entry' \in [Tasks -> Entries] /\ held' \in Classes \cup {None}
  BY <1>1, <1>3, FiledEntry DEF Refile
<1>5. QueuedExist'
  BY <1>1 DEF QueuedExist, Refile
<1>6. FiledAsIs'
  BY <1>1, FiledEntry, TasksAssumption DEF FiledAsIs, Refile
<1>. QED BY <1>2, <1>4, <1>5, <1>6

LEMMA InForceKept ==
  ASSUME TypeOK, PrioInForce, NEW p \in Tasks, NEW t,
         task' = [task EXCEPT ![p] = t], UNCHANGED <<alive, waiter>>, leaked' \in {leaked, leaked \ {p}},
         p \in alive \ leaked' => Right(t, waiter[p])
  PROVE  PrioInForce' /\ leaked' \subseteq Tasks
<1>1. \A q \in alive' \ leaked' : Right(task[q]', waiter[q]')
  BY AllRight DEF TypeOK
<1>2. (PrioInForce <=> \A q \in alive \ leaked : Right(task[q], waiter[q]))'
  BY DEF PrioInForce, Right, rt_mutex_getprio
<1>. QED BY <1>1, <1>2 DEF TypeOK

LEMMA PrioStep == ASSUME PrioInv, [Next]_vars PROVE PrioInv'
<1>. USE DEF PrioInv
<1>0. /\ task \in [Tasks -> Fields] /\ alive \subseteq Tasks /\ entry \in [Tasks -> Entries]
      /\ curr \in Tasks \cup {None} /\ held \in Classes \cup {None}
      /\ waiter \in [Tasks -> WaiterPrios \cup {MAX_PRIO}] /\ call \in [Callers -> Calls] /\ leaked \subseteq Tasks
  BY DEF TypeOK
<1>1. ASSUME NEW c \in Callers, NEW p \in Tasks, NEW want \in Policies \cup {"keep"}, NEW param \in Params,
             NEW reset \in BOOLEAN, SetschedCall(c, p, want, param, reset)
      PROVE  PrioInv'
  <2>1. [at |-> "recheck", p |-> p, want |-> want, policy |-> "NORMAL", param |-> param, reset |-> reset] \in Calls
    BY PrioAssumption DEF Calls, Policies
  <2>2. call' \in [Callers -> Calls] /\ UNCHANGED <<task, alive, entry, curr, held, waiter, leaked>>
    BY <1>0, <1>1, <2>1 DEF SetschedCall
  <2>3. ParamChecked'
    BY <1>0, <1>1 DEF SetschedCall, ParamChecked
  <2>. QED BY <2>2, <2>3 DEF TypeOK, QueuedExist, FiledAsIs, PrioInForce, rt_mutex_getprio
<1>2. ASSUME NEW c \in Callers, Recheck(c)
      PROVE  PrioInv'
  <2>. DEFINE r      == call[c]
              t      == task[r.p]
              policy == IF r.want = "keep" THEN t.policy ELSE r.want
              next   == [r EXCEPT !.at = "lock", !.policy = policy, !.reset = IF r.want = "keep" THEN t.reset ELSE @]
  <2>1. r \in [at : {"recheck", "lock"}, p : Tasks, want : Policies \cup {"keep"},
               policy : Policies, param : Int, reset : BOOLEAN]
    BY <1>0, <1>2 DEF Recheck, Calls, NoCall
  <2>2. t \in Fields
    BY <1>0, <2>1
  <2>3. policy \in Policies /\ (IF r.want = "keep" THEN t.reset ELSE r.reset) \in BOOLEAN
    BY <2>1, <2>2 DEF Fields
  <2>. HIDE DEF r, t, policy
  <2>4. next \in Calls /\ next.param = r.param
    BY <2>1, <2>3 DEF Calls
  <2>5. NoCall \in Calls /\ NoCall.at # "lock"
    BY DEF Calls, NoCall
  <2>6. \/ r.param \in 0..(MAX_RT_PRIO - 1) /\ call' = [call EXCEPT ![c] = next]
        \/ call' = [call EXCEPT ![c] = NoCall]
    BY <1>2 DEF Recheck, r, t, policy
  <2>. HIDE DEF next
  <2>7. call' \in [Callers -> Calls] /\ ParamChecked'
    BY <1>0, <2>4, <2>5, <2>6 DEF ParamChecked
  <2>8. UNCHANGED <<task, alive, entry, curr, held, waiter, leaked>>
    BY <1>2 DEF Recheck
  <2>. QED BY <2>7, <2>8 DEF TypeOK, QueuedExist, FiledAsIs, PrioInForce, rt_mutex_getprio
<1>3. ASSUME NEW c \in Callers, Commit(c)
      PROVE  PrioInv'
  <2>. DEFINE r == call[c]
              p == r.p
              z == __setscheduler(p, task[p], r.policy, r.param)
              y == [z EXCEPT !.reset = r.reset]
  <2>1. r \in [at : {"recheck", "lock"}, p : Tasks, want : Policies \cup {"keep"},
               policy : Policies, param : Int, reset : BOOLEAN]
    BY <1>0, <1>3 DEF Commit, Calls, NoCall
  <2>2. r.param \in 0..(MAX_RT_PRIO - 1)
    BY <1>3 DEF Commit, ParamChecked
  <2>3. CASE /\ call' = [call EXCEPT ![c] = [r EXCEPT !.at = "recheck", !.policy = "NORMAL", !.reset = FALSE]]
             /\ UNCHANGED <<task, alive, entry, curr, held, waiter, leaked>>
    <3>. DEFINE back == [r EXCEPT !.at = "recheck", !.policy = "NORMAL", !.reset = FALSE]
    <3>1. back \in Calls /\ back.at # "lock"
      BY <2>1 DEF Calls, Policies
    <3>. HIDE DEF back, r
    <3>2. call' \in [Callers -> Calls] /\ ParamChecked'
      BY <1>0, <2>3, <3>1 DEF ParamChecked, back
    <3>. QED BY <2>3, <3>2 DEF TypeOK, QueuedExist, FiledAsIs, PrioInForce, rt_mutex_getprio
  <2>4. CASE /\ Refile(p, y) /\ leaked' = leaked \ {p} /\ call' = [call EXCEPT ![c] = NoCall]
             /\ UNCHANGED <<alive, curr, waiter>>
    <3>1. p \in Tasks /\ task[p] \in Fields /\ r.policy \in Policies /\ r.reset \in BOOLEAN
      BY <1>0, <2>1
    <3>2. z \in Fields /\ Right(z, waiter[p])
      BY <2>2, <3>1, SetschedulerFields, SetschedulerRight
    <3>. HIDE DEF z
    <3>3. y \in Fields /\ Right(y, waiter[p])
      BY <3>1, <3>2, ResetField
    <3>. HIDE DEF y, p, r
    <3>4. /\ task' = [task EXCEPT ![p] = y] /\ task' \in [Tasks -> Fields]
          /\ entry' \in [Tasks -> Entries] /\ held' \in Classes \cup {None}
          /\ QueuedExist' /\ FiledAsIs'
      BY <2>4, <3>1, <3>3, RefileKeeps
    <3>5. PrioInForce' /\ leaked' \subseteq Tasks
      BY <2>4, <3>1, <3>3, <3>4, InForceKept
    <3>6. call' \in [Callers -> Calls] /\ ParamChecked'
      BY <1>0, <2>4 DEF ParamChecked, Calls, NoCall
    <3>. QED BY <2>4, <3>4, <3>5, <3>6 DEF TypeOK
  <2>. QED BY <1>3, <2>3, <2>4 DEF Commit
<1>4. ASSUME NEW c \in Callers, NEW increment \in {-1, 1}, NiceCall(c, increment)
      PROVE  PrioInv'
  <2>. DEFINE n == task[c].static + increment
              m == IF n < MAX_RT_PRIO THEN MAX_RT_PRIO ELSE IF n > MaxStatic THEN MaxStatic ELSE n
  <2>1. task[c].static \in StaticPrios
    BY <1>0, TasksAssumption DEF Fields
  <2>2. m \in StaticPrios
    BY <2>1, PrioAssumption DEF StaticPrios
  <2>3. call' = [call EXCEPT ![c] = [at |-> "nice", nice |-> m]]
    BY <1>4 DEF NiceCall
  <2>. HIDE DEF m
  <2>4. call' \in [Callers -> Calls] /\ ParamChecked'
    BY <1>0, <2>2, <2>3 DEF ParamChecked, Calls
  <2>5. UNCHANGED <<task, alive, entry, curr, held, waiter, leaked>>
    BY <1>4 DEF NiceCall
  <2>. QED BY <2>4, <2>5 DEF TypeOK, QueuedExist, FiledAsIs, PrioInForce, rt_mutex_getprio
<1>5. ASSUME NEW p \in Tasks, NEW nice \in StaticPrios, Refile(p, Niced(task[p], nice)),
             UNCHANGED <<alive, curr, waiter, leaked>>, call' \in [Callers -> Calls], ParamChecked'
      PROVE  PrioInv'
  <2>. DEFINE z == Niced(task[p], nice)
  <2>1. z \in Fields /\ (p \in alive \ leaked' => Right(z, waiter[p]))
    BY <1>0, <1>5, NicedFields, AllRight, WaiterRange
  <2>. HIDE DEF z
  <2>2. /\ task' = [task EXCEPT ![p] = z] /\ task' \in [Tasks -> Fields]
        /\ entry' \in [Tasks -> Entries] /\ held' \in Classes \cup {None}
        /\ QueuedExist' /\ FiledAsIs'
    BY <1>5, <2>1, RefileKeeps DEF z
  <2>3. PrioInForce' /\ leaked' \subseteq Tasks
    BY <1>5, <2>1, <2>2, InForceKept
  <2>. QED BY <1>0, <1>5, <2>2, <2>3 DEF TypeOK
<1>6. ASSUME NEW p \in Tasks, NEW nice \in StaticPrios, SetUserNice(p, nice)
      PROVE  PrioInv'
  BY <1>0, <1>5, <1>6 DEF SetUserNice, ParamChecked
<1>7. ASSUME NEW c \in Callers, NiceSets(c)
      PROVE  PrioInv'
  <2>1. call[c].nice \in StaticPrios /\ c \in Tasks
    BY <1>0, <1>7, TasksAssumption DEF NiceSets, Calls, NoCall
  <2>2. call' \in [Callers -> Calls] /\ ParamChecked'
    BY <1>0, <1>7 DEF NiceSets, ParamChecked, Calls, NoCall
  <2>. QED BY <1>5, <1>7, <2>1, <2>2 DEF NiceSets
<1>8. ASSUME NEW p \in Tasks, NEW w \in WaiterPrios \cup {MAX_PRIO}, WaiterChanges(p, w)
      PROVE  PrioInv'
  <2>. DEFINE n == Least(w, task[p].normal)
              z == Boosted(task[p], n)
  <2>1. w \in 0..MAX_PRIO
    <3>1. CASE w \in WaiterPrios
      <4>1. w \in 0..MaxStatic
        BY <3>1, PrioAssumption, Zenon
      <4>. QED BY <4>1, PrioAssumption DEF MAX_PRIO
    <3>2. CASE w = MAX_PRIO
      BY <3>2, PrioAssumption DEF MAX_PRIO
    <3>. QED BY <3>1, <3>2
  <2>2. waiter' = [waiter EXCEPT ![p] = w] /\ waiter' \in [Tasks -> WaiterPrios \cup {MAX_PRIO}]
        /\ UNCHANGED <<alive, curr, call, leaked>> /\ p \in alive
    BY <1>0, <1>8 DEF WaiterChanges
  <2>3. ParamChecked'
    BY <2>2 DEF ParamChecked
  <2>4. CASE n = task[p].prio /\ UNCHANGED <<task, entry, held>>
    <3>1. p \notin leaked => Right(task[p], waiter[p])
      BY <2>2, AllRight
    <3>2. p \notin leaked => Right(task[p], w)
      <4>1. task[p] \in Fields
        BY <1>0
      <4>. QED BY <2>1, <2>4, <3>1, <4>1, PrioAssumption
               DEF Right, rt_prio, Least, normal_prio, Fields, StaticPrios
    <3>3. \A q \in alive' \ leaked' : Right(task[q]', waiter[q]')
      BY <1>0, <2>2, <2>4, <3>2, AllRight
    <3>4. (PrioInForce <=> \A q \in alive \ leaked : Right(task[q], waiter[q]))'
      BY DEF PrioInForce, Right, rt_mutex_getprio
    <3>. QED BY <1>0, <2>2, <2>3, <2>4, <3>3, <3>4 DEF TypeOK, QueuedExist, FiledAsIs
  <2>5. CASE n # task[p].prio /\ Refile(p, z)
    <3>1. z \in Fields /\ (p \notin leaked => Right(z, w))
      BY <1>0, <2>1, <2>2, AllRight, BoostRight
    <3>. HIDE DEF z
    <3>2. /\ task' = [task EXCEPT ![p] = z] /\ task' \in [Tasks -> Fields]
          /\ entry' \in [Tasks -> Entries] /\ held' \in Classes \cup {None}
          /\ QueuedExist' /\ FiledAsIs'
      BY <2>2, <2>5, <3>1, RefileKeeps
    <3>3. \A q \in alive' \ leaked' : Right(task[q]', waiter[q]')
      BY <1>0, <2>2, <3>1, <3>2, AllRight
    <3>4. (PrioInForce <=> \A q \in alive \ leaked : Right(task[q], waiter[q]))'
      BY DEF PrioInForce, Right, rt_mutex_getprio
    <3>. QED BY <1>0, <2>2, <2>3, <3>2, <3>3, <3>4 DEF TypeOK
  <2>. QED BY <1>8, <2>4, <2>5 DEF WaiterChanges, rt_mutex_setprio, Boosted
<1>9. ASSUME NEW p \in Tasks, NormalizeTask(p)
      PROVE  PrioInv'
  <2>1. NICE_0 \in StaticPrios /\ "NORMAL" \in Policies /\ 0 \in 0..(MAX_RT_PRIO - 1)
    BY PrioAssumption DEF StaticPrios, Policies
  <2>2. ParamChecked' /\ call' \in [Callers -> Calls]
    BY <1>0, <1>9 DEF NormalizeTask, ParamChecked
  <2>3. CASE Refile(p, __setscheduler(p, task[p], "NORMAL", 0)) /\ leaked' = leaked \ {p}
    <3>. DEFINE z == __setscheduler(p, task[p], "NORMAL", 0)
    <3>1. z \in Fields /\ Right(z, waiter[p])
      BY <1>0, <2>1, SetschedulerFields, SetschedulerRight
    <3>2. UNCHANGED <<alive, curr, waiter>>
      BY <1>9 DEF NormalizeTask
    <3>. HIDE DEF z
    <3>3. /\ task' = [task EXCEPT ![p] = z] /\ task' \in [Tasks -> Fields]
          /\ entry' \in [Tasks -> Entries] /\ held' \in Classes \cup {None}
          /\ QueuedExist' /\ FiledAsIs'
      BY <2>3, <3>1, <3>2, RefileKeeps DEF z
    <3>4. PrioInForce' /\ leaked' \subseteq Tasks
      BY <2>3, <3>1, <3>2, <3>3, InForceKept
    <3>. QED BY <1>0, <2>2, <3>2, <3>3, <3>4 DEF TypeOK
  <2>4. CASE Refile(p, Niced(task[p], NICE_0)) /\ leaked' = leaked
    BY <1>5, <1>9, <2>1, <2>2, <2>4 DEF NormalizeTask
  <2>5. CASE Refile(p, task[p]) /\ leaked' = leaked
    <3>1. task[p] \in Fields /\ (p \in alive \ leaked' => Right(task[p], waiter[p]))
      BY <1>0, <2>5, AllRight
    <3>2. UNCHANGED <<alive, curr, waiter>>
      BY <1>9 DEF NormalizeTask
    <3>3. /\ task' = [task EXCEPT ![p] = task[p]] /\ task' \in [Tasks -> Fields]
          /\ entry' \in [Tasks -> Entries] /\ held' \in Classes \cup {None}
          /\ QueuedExist' /\ FiledAsIs'
      BY <2>5, <3>1, <3>2, RefileKeeps
    <3>4. PrioInForce' /\ leaked' \subseteq Tasks
      BY <2>5, <3>1, <3>2, <3>3, InForceKept
    <3>. QED BY <1>0, <2>2, <3>2, <3>3, <3>4 DEF TypeOK
  <2>. QED BY <1>9, <2>3, <2>4, <2>5 DEF NormalizeTask
<1>10. ASSUME NEW p \in Tasks, Activate(p)
       PROVE  PrioInv'
  <2>1. entry' = [entry EXCEPT ![p] = Filed(task[p])] /\ UNCHANGED <<task, alive, curr, held, waiter, call, leaked>>
        /\ p \in alive
    BY <1>10 DEF Activate
  <2>2. Filed(task[p]) \in Entries
    BY <1>0, FiledEntry
  <2>3. FiledAsIs' /\ QueuedExist' /\ ParamChecked' /\ PrioInForce'
    BY <1>0, <2>1 DEF FiledAsIs, QueuedExist, ParamChecked, PrioInForce, rt_mutex_getprio
  <2>. QED BY <1>0, <2>1, <2>2, <2>3 DEF TypeOK
<1>11. ASSUME NEW p \in Tasks, NEW child \in Tasks, Fork(p, child)
       PROVE  PrioInv'
  <2>. DEFINE z == sched_fork(task[p])
  <2>1. /\ p \in alive /\ child \notin alive /\ entry[child] = None /\ p # child
        /\ task' = [task EXCEPT ![child] = z] /\ waiter' = [waiter EXCEPT ![child] = MAX_PRIO]
        /\ alive' = alive \cup {child} /\ UNCHANGED <<entry, curr, held, call>>
    BY <1>11, TasksAssumption DEF Fork, QueuedExist
  <2>2. z \in Fields /\ (~task[p].reset /\ p \notin leaked => Right(z, MAX_PRIO))
    BY <1>0, <2>1, ForkFields, AllRight, WaiterRange
  <2>. HIDE DEF z
  <2>3. leaked' \subseteq Tasks /\ \A q \in Tasks \ leaked' :
          IF q = child THEN ~task[p].reset /\ p \notin leaked ELSE q \notin leaked
    BY <1>0, <1>11 DEF Fork
  <2>4. \A q \in alive' \ leaked' : Right(task[q]', waiter[q]')
    BY <1>0, <2>1, <2>2, <2>3, AllRight
  <2>5. (PrioInForce <=> \A q \in alive \ leaked : Right(task[q], waiter[q]))'
    BY DEF PrioInForce, Right, rt_mutex_getprio
  <2>6. QueuedExist' /\ FiledAsIs' /\ ParamChecked'
    BY <1>0, <2>1 DEF QueuedExist, FiledAsIs, ParamChecked
  <2>. QED BY <1>0, <2>1, <2>2, <2>3, <2>4, <2>5, <2>6 DEF TypeOK
<1>12. ASSUME NEW next \in Tasks \cup {None}, NEW sleeps \in BOOLEAN, Schedule(next, sleeps)
       PROVE  PrioInv'
  <2>1. /\ entry' = (IF sleeps THEN [entry EXCEPT ![curr] = None] ELSE entry)
        /\ curr' = next /\ next # curr /\ (next # None => entry[next] # None)
        /\ (sleeps => curr # None)
        /\ held' = (IF next = None THEN None ELSE task[next].class)
        /\ UNCHANGED <<task, alive, waiter, call, leaked>>
    BY <1>12 DEF Schedule
  <2>2. next # None => task[next].class \in Classes
    BY <1>0 DEF Fields
  <2>3. entry' \in [Tasks -> Entries] /\ held' \in Classes \cup {None}
    BY <1>0, <2>1, <2>2 DEF Entries
  <2>4. QueuedExist' /\ FiledAsIs'
    BY <1>0, <2>1 DEF QueuedExist, FiledAsIs
  <2>5. ParamChecked' /\ PrioInForce'
    BY <1>0, <2>1 DEF ParamChecked, PrioInForce, rt_mutex_getprio
  <2>. QED BY <1>0, <2>1, <2>3, <2>4, <2>5 DEF TypeOK
<1>13. CASE Exit
  <2>1. /\ curr \in alive /\ alive' = alive \ {curr} /\ entry' = [entry EXCEPT ![curr] = None]
        /\ leaked' = leaked \ {curr} /\ curr' = None /\ held' = None
        /\ UNCHANGED <<task, waiter, call>>
    BY <1>13 DEF Exit, QueuedExist
  <2>2. entry' \in [Tasks -> Entries] /\ alive' \subseteq Tasks /\ leaked' \subseteq Tasks
    BY <1>0, <2>1 DEF Entries
  <2>3. QueuedExist' /\ FiledAsIs'
    BY <1>0, <2>1 DEF QueuedExist, FiledAsIs
  <2>4. ParamChecked' /\ PrioInForce'
    BY <1>0, <2>1 DEF ParamChecked, PrioInForce, rt_mutex_getprio
  <2>. QED BY <1>0, <2>1, <2>2, <2>3, <2>4 DEF TypeOK
<1>14. CASE UNCHANGED vars
  BY <1>14 DEF vars, TypeOK, QueuedExist, ParamChecked, FiledAsIs, PrioInForce, rt_mutex_getprio
<1>. QED BY <1>1, <1>2, <1>3, <1>4, <1>6, <1>7, <1>8, <1>9, <1>10, <1>11, <1>12, <1>13, <1>14 DEF Next

LEMMA PrioInit == ASSUME Init PROVE PrioInv
<1>1. Fresh \in Fields /\ Filed(Fresh) \in Entries /\ Right(Fresh, MAX_PRIO)
  <2>1. Fresh \in Fields
    BY PrioAssumption DEF Fresh, Fields, Policies, StaticPrios, Classes, Weights
  <2>2. Right(Fresh, MAX_PRIO)
    BY PrioAssumption DEF Fresh, Right, normal_prio, load_weight, rt_policy, rt_prio, Least, MAX_PRIO
  <2>. QED BY <2>1, <2>2, FiledEntry
<1>2. TypeOK
  BY <1>1, TasksAssumption DEF Init, TypeOK, Calls, Entries
<1>3. PrioInForce
  BY <1>1, AllRight, TasksAssumption DEF Init
<1>4. FiledAsIs /\ QueuedExist /\ ParamChecked
  BY TasksAssumption DEF Init, FiledAsIs, QueuedExist, ParamChecked, NoCall
<1>. QED BY <1>2, <1>3, <1>4 DEF PrioInv

(* sched_setscheduler(), nice(), fork and priority inheritance: queued and *)
(* running tasks are where their class and key say, and what is in force   *)
(* follows from policy, nice value and inherited priority.                 *)
THEOREM TasksInForceHolds == KernelSpec => []TasksInForce
<1>. DEFINE I == part = "Priorities" => PrioInv
<1>1. KernelInit => I
  BY PartStarts, PrioInit
<1>2. I /\ [KernelNext]_<<vars, part, slots>> => I'
  BY PartMoves, PrioStep
<1>3. I => TasksInForce
  BY DEF TasksInForce, PrioInv
<1>. QED BY <1>1, <1>2, <1>3, PTL DEF KernelSpec

(* 6275 and 6349: a call that was checked with the policy that it keeps    *)
(* sets only if that is the policy still.                                  *)
LEMMA KeepsPolicy == ASSUME PrioInv, [Next]_vars PROVE PolicyKept
<1>. SUFFICES ASSUME NEW c \in Callers, call[c].at = "lock", call[c].want = "keep", call'[c] = NoCall
              PROVE  task'[call[c].p].policy = task[call[c].p].policy
  BY DEF PolicyKept
<1>1. call \in [Callers -> Calls] /\ task \in [Tasks -> Fields]
  BY DEF PrioInv, TypeOK
<1>2. call'[c] # call[c]
  BY DEF NoCall
<1>3. Commit(c)
  <2>1. ~UNCHANGED call
    BY <1>2
  <2>2. ASSUME NEW d \in Callers, NEW v, call' = [call EXCEPT ![d] = v]
        PROVE  d = c
    BY <1>1, <1>2, <2>2
  <2>3. \A p \in Tasks, want \in Policies \cup {"keep"}, param \in Params, reset \in BOOLEAN, d \in Callers :
          ~SetschedCall(d, p, want, param, reset)
    BY <2>2 DEF SetschedCall, NoCall
  <2>4. \A d \in Callers : ~Recheck(d) /\ ~NiceSets(d) /\ \A i \in {-1, 1} : ~NiceCall(d, i)
    BY <2>2 DEF Recheck, NiceSets, NiceCall, NoCall
  <2>5. PICK d \in Callers : Commit(d)
    BY <2>1, <2>3, <2>4 DEF Next, vars, SetUserNice, WaiterChanges, NormalizeTask, Activate, Fork, Schedule, Exit
  <2>. QED BY <2>2, <2>5 DEF Commit
<1>. DEFINE p == call[c].p
            z == __setscheduler(p, task[p], call[c].policy, call[c].param)
            back == [call[c] EXCEPT !.at = "recheck", !.policy = "NORMAL", !.reset = FALSE]
<1>4. call[c] \in [at : {"recheck", "lock"}, p : Tasks, want : Policies \cup {"keep"},
                   policy : Policies, param : Int, reset : BOOLEAN]
  BY <1>1 DEF Calls, NoCall
<1>5. /\ call[c].policy = task[p].policy
      /\ Refile(p, [z EXCEPT !.reset = call[c].reset])
  <2>1. back # NoCall
    <3>1. back.at = "recheck"
      BY <1>4
    <3>. QED BY <3>1 DEF NoCall
  <2>. HIDE DEF back
  <2>2. call' # [call EXCEPT ![c] = back]
    BY <1>1, <2>1
  <2>. QED BY <1>3, <2>2 DEF Commit, back
<1>6. call[c].param \in 0..(MAX_RT_PRIO - 1) /\ p \in Tasks /\ task[p] \in Fields
  BY <1>1, <1>4 DEF PrioInv, ParamChecked
<1>7. z \in Fields /\ z.policy = call[c].policy
  BY <1>4, <1>6, SetschedulerFields DEF PrioInv
<1>. HIDE DEF z
<1>8. [z EXCEPT !.reset = call[c].reset].policy = z.policy
  BY <1>4, <1>7, ResetField
<1>. QED BY <1>1, <1>5, <1>6, <1>7, <1>8 DEF Refile

(* A call of setscheduler does not bring back a policy that was replaced,  *)
(* and one of set_pid_force_run() that returns has had its effect.         *)
THEOREM CallsTakeEffectHolds == KernelSpec => CallsTakeEffect
<1>. DEFINE I == (part = "Priorities" => PrioInv) /\ (part = "ForceRun" => FR!DisciplineInv)
            A == (part = "Priorities" => PolicyKept) /\ (part = "ForceRun" => FR!DoneAtReturn)
<1>1. KernelInit => I
  BY PartStarts, PrioInit, ForceInit
<1>2. I /\ [KernelNext]_<<vars, part, slots>> => I'
  BY PartMoves, PrioStep, ForceStep
<1>3. I /\ [KernelNext]_<<vars, part, slots>> => [A]_<<vars, slots>>
  BY PartMoves, KeepsPolicy, ForceReturns
<1>. QED BY <1>1, <1>2, <1>3, PTL DEF KernelSpec, CallsTakeEffect

-----------------------------------------------------------------------------
(* A call more, or one less, is in progress.                               *)
LEMMA OneMore ==
  ASSUME NEW S, IsFiniteSet(S), NEW c
  PROVE  /\ Cardinality(S) \in Nat
         /\ c \notin S => Cardinality(S \cup {c}) = Cardinality(S) + 1
         /\ c \in S => Cardinality(S \ {c}) = Cardinality(S) - 1
BY FS_AddElement, FS_RemoveElement, FS_CardinalityType

(* Of one set to another that differ in c at most.                         *)
LEMMA CountOne ==
  ASSUME NEW A, IsFiniteSet(A), NEW S \in SUBSET A, NEW T \in SUBSET A, NEW c \in A,
         \A d \in A \ {c} : d \in S <=> d \in T
  PROVE  /\ (c \in S <=> c \in T) => Cardinality(T) = Cardinality(S)
         /\ c \notin S /\ c \in T => Cardinality(T) = Cardinality(S) + 1
         /\ c \in S /\ c \notin T => Cardinality(T) = Cardinality(S) - 1
         /\ Cardinality(S) \in Nat
<1>1. IsFiniteSet(S)
  BY FS_Subset
<1>2. CASE c \in S <=> c \in T
  <2>1. S = T
    BY <1>2
  <2>. QED BY <1>1, <1>2, <2>1, FS_CardinalityType
<1>3. CASE c \notin S /\ c \in T
  <2>1. T = S \cup {c}
    BY <1>3
  <2>. QED BY <1>1, <1>3, <2>1, OneMore
<1>4. CASE c \in S /\ c \notin T
  <2>1. T = S \ {c}
    BY <1>4
  <2>. QED BY <1>1, <1>4, <2>1, OneMore
<1>. QED BY <1>2, <1>3, <1>4

AffinityInside(f) == {c \in AffinityCallers : f[c].at \in {"found", "set", "check", "again"}}

LEMMA AffinityCount ==
  AF!ReferencesReturned <=>
    /\ x5 = Cardinality(AffinityInside(x7)) + (IF x4 THEN 1 ELSE 0)
    /\ x6 = Cardinality(AffinityInside(x7))
BY DEF AF!ReferencesReturned, AffinityInside, AF!Cardinality, Cardinality

LEMMA AffinityCountNow ==
  (AF!ReferencesReturned <=>
    /\ x5 = Cardinality(AffinityInside(x7)) + (IF x4 THEN 1 ELSE 0)
    /\ x6 = Cardinality(AffinityInside(x7)))'
BY DEF AF!ReferencesReturned, AffinityInside, AF!Cardinality, Cardinality

LEMMA AffinityInit == ASSUME AF!Init PROVE AF!AffinityInv
<1>1. AF!TypeOK /\ AF!WillBeSeen
  BY DEF AF!Init, AF!TypeOK, AF!WillBeSeen, AF!At, AF!Processors
<1>2. AffinityInside(x7) = {}
  BY DEF AF!Init, AffinityInside
<1>3. Cardinality(AffinityInside(x7)) = 0
  BY <1>2, FS_EmptySet
<1>4. AF!ReferencesReturned
  BY <1>3, AffinityCount DEF AF!Init
<1>. QED BY <1>1, <1>4 DEF AF!AffinityInv

(* A caller enters, leaves or goes on; the count goes with it.             *)
LEMMA AffinityCountStep ==
  ASSUME AF!ReferencesReturned, AF!TypeOK, NEW c \in AffinityCallers, NEW r,
         x7' = [x7 EXCEPT ![c] = r], x4' = x4,
         \/ x5' = x5 /\ x6' = x6 /\ (c \in AffinityInside(x7) <=> c \in AffinityInside(x7'))
         \/ x5' = x5 + 1 /\ x6' = x6 + 1 /\ c \notin AffinityInside(x7) /\ c \in AffinityInside(x7')
         \/ x5' = x5 - 1 /\ x6' = x6 - 1 /\ c \in AffinityInside(x7) /\ c \notin AffinityInside(x7')
  PROVE  AF!ReferencesReturned'
<1>. DEFINE S == AffinityInside(x7)
            T == AffinityInside(x7')
<1>1. \A d \in AffinityCallers \ {c} : d \in S <=> d \in T
  BY DEF AffinityInside, AF!TypeOK
<1>2. S \in SUBSET AffinityCallers /\ T \in SUBSET AffinityCallers
  BY DEF AffinityInside
<1>3. x5 = Cardinality(S) + (IF x4 THEN 1 ELSE 0) /\ x6 = Cardinality(S)
  BY AffinityCount
<1>4. /\ (c \in S <=> c \in T) => Cardinality(T) = Cardinality(S)
      /\ c \notin S /\ c \in T => Cardinality(T) = Cardinality(S) + 1
      /\ c \in S /\ c \notin T => Cardinality(T) = Cardinality(S) - 1
      /\ Cardinality(S) \in Nat
  <2>. HIDE DEF S, T
  <2>. QED BY <1>1, <1>2, CallersAssumption, CountOne
<1>. QED BY <1>3, <1>4, AffinityCountNow

LEMMA AffinityStep == ASSUME AF!AffinityInv, [AF!Next]_AF!vars PROVE AF!AffinityInv'
<1>0. AF!TypeOK /\ AF!WillBeSeen /\ AF!ReferencesReturned
  BY DEF AF!AffinityInv
<1>. USE DEF AF!At, AF!Goto, AF!Return, AF!put_task_struct, AF!Processors
<1>1. ASSUME NEW c \in AffinityCallers, NEW m \in Masks, AF!sys_sched_setaffinity(c, m)
      PROVE  AF!AffinityInv'
  <2>1. AF!TypeOK' /\ AF!WillBeSeen'
    BY <1>0, <1>1 DEF AF!TypeOK, AF!WillBeSeen, AF!sys_sched_setaffinity
  <2>2. AF!ReferencesReturned'
    <3>. DEFINE r == [at |-> "find", new_mask |-> m, ret |-> "ok"]
    <3>1. x7' = [x7 EXCEPT ![c] = r] /\ x4' = x4 /\ x5' = x5 /\ x6' = x6
      BY <1>1 DEF AF!sys_sched_setaffinity
    <3>2. c \in AffinityInside(x7) <=> c \in AffinityInside(x7')
      BY <1>0, <1>1 DEF AF!TypeOK, AF!sys_sched_setaffinity, AffinityInside
    <3>. HIDE DEF r
    <3>. QED BY <1>0, <3>1, <3>2, AffinityCountStep
  <2>. QED BY <2>1, <2>2 DEF AF!AffinityInv
<1>2. ASSUME NEW c \in AffinityCallers, AF!NoMask(c)
      PROVE  AF!AffinityInv'
  <2>1. AF!TypeOK'
    BY <1>0, <1>2 DEF AF!TypeOK, AF!NoMask
  <2>2. AF!WillBeSeen'
    BY <1>0, <1>2, CpusetsAssumption DEF AF!TypeOK, AF!WillBeSeen, AF!NoMask
  <2>3. AF!ReferencesReturned'
    <3>1. x7' = [x7 EXCEPT ![c] = x7'[c]] /\ x4' = x4
      BY <1>0, <1>2 DEF AF!TypeOK, AF!NoMask
    <3>2. \/ x5' = x5 /\ x6' = x6 /\ (c \in AffinityInside(x7) <=> c \in AffinityInside(x7'))
          \/ x5' = x5 + 1 /\ x6' = x6 + 1 /\ c \notin AffinityInside(x7) /\ c \in AffinityInside(x7')
          \/ x5' = x5 - 1 /\ x6' = x6 - 1 /\ c \in AffinityInside(x7) /\ c \notin AffinityInside(x7')
      BY <1>0, <1>2 DEF AF!TypeOK, AF!NoMask, AffinityInside
    <3>. QED BY <1>0, <3>1, <3>2, AffinityCountStep
  <2>. QED BY <2>1, <2>2, <2>3 DEF AF!AffinityInv
<1>3. ASSUME NEW c \in AffinityCallers, AF!cpuset_cpus_allowed(c)
      PROVE  AF!AffinityInv'
  <2>1. AF!TypeOK'
    BY <1>0, <1>3, ZenonT(60) DEF AF!TypeOK, AF!cpuset_cpus_allowed
  <2>2. AF!WillBeSeen'
    BY <1>0, <1>3, CpusetsAssumption DEF AF!TypeOK, AF!WillBeSeen, AF!cpuset_cpus_allowed
  <2>3. AF!ReferencesReturned'
    <3>1. x7' = [x7 EXCEPT ![c] = x7'[c]] /\ x4' = x4
      BY <1>0, <1>3 DEF AF!TypeOK, AF!cpuset_cpus_allowed
    <3>2. \/ x5' = x5 /\ x6' = x6 /\ (c \in AffinityInside(x7) <=> c \in AffinityInside(x7'))
          \/ x5' = x5 + 1 /\ x6' = x6 + 1 /\ c \notin AffinityInside(x7) /\ c \in AffinityInside(x7')
          \/ x5' = x5 - 1 /\ x6' = x6 - 1 /\ c \in AffinityInside(x7) /\ c \notin AffinityInside(x7')
      BY <1>0, <1>3 DEF AF!TypeOK, AF!cpuset_cpus_allowed, AffinityInside
    <3>. QED BY <1>0, <3>1, <3>2, AffinityCountStep
  <2>. QED BY <2>1, <2>2, <2>3 DEF AF!AffinityInv
<1>4. ASSUME NEW c \in AffinityCallers, AF!sched_getaffinity(c)
      PROVE  AF!AffinityInv'
  <2>1. AF!TypeOK'
    BY <1>0, <1>4 DEF AF!TypeOK, AF!sched_getaffinity
  <2>2. AF!WillBeSeen'
    BY <1>0, <1>4, CpusetsAssumption DEF AF!TypeOK, AF!WillBeSeen, AF!sched_getaffinity
  <2>3. AF!ReferencesReturned'
    <3>1. x7' = [x7 EXCEPT ![c] = x7'[c]] /\ x4' = x4
      BY <1>0, <1>4 DEF AF!TypeOK, AF!sched_getaffinity
    <3>2. \/ x5' = x5 /\ x6' = x6 /\ (c \in AffinityInside(x7) <=> c \in AffinityInside(x7'))
          \/ x5' = x5 + 1 /\ x6' = x6 + 1 /\ c \notin AffinityInside(x7) /\ c \in AffinityInside(x7')
          \/ x5' = x5 - 1 /\ x6' = x6 - 1 /\ c \in AffinityInside(x7) /\ c \notin AffinityInside(x7')
      BY <1>0, <1>4 DEF AF!TypeOK, AF!sched_getaffinity, AffinityInside
    <3>. QED BY <1>0, <3>1, <3>2, AffinityCountStep
  <2>. QED BY <2>1, <2>2, <2>3 DEF AF!AffinityInv
<1>5. ASSUME NEW c \in AffinityCallers, AF!Refuse(c)
      PROVE  AF!AffinityInv'
  <2>1. AF!TypeOK'
    BY <1>0, <1>5 DEF AF!TypeOK, AF!Refuse
  <2>2. AF!WillBeSeen'
    BY <1>0, <1>5, CpusetsAssumption DEF AF!TypeOK, AF!WillBeSeen, AF!Refuse
  <2>3. AF!ReferencesReturned'
    <3>1. x7' = [x7 EXCEPT ![c] = x7'[c]] /\ x4' = x4
      BY <1>0, <1>5 DEF AF!TypeOK, AF!Refuse
    <3>2. \/ x5' = x5 /\ x6' = x6 /\ (c \in AffinityInside(x7) <=> c \in AffinityInside(x7'))
          \/ x5' = x5 + 1 /\ x6' = x6 + 1 /\ c \notin AffinityInside(x7) /\ c \in AffinityInside(x7')
          \/ x5' = x5 - 1 /\ x6' = x6 - 1 /\ c \in AffinityInside(x7) /\ c \notin AffinityInside(x7')
      BY <1>0, <1>5 DEF AF!TypeOK, AF!Refuse, AffinityInside
    <3>. QED BY <1>0, <3>1, <3>2, AffinityCountStep
  <2>. QED BY <2>1, <2>2, <2>3 DEF AF!AffinityInv
<1>6. ASSUME NEW c \in AffinityCallers, AF!find_process_by_pid(c)
      PROVE  AF!AffinityInv'
  <2>1. AF!TypeOK'
    BY <1>0, <1>6 DEF AF!TypeOK, AF!find_process_by_pid
  <2>2. AF!WillBeSeen'
    BY <1>0, <1>6, CpusetsAssumption DEF AF!TypeOK, AF!WillBeSeen, AF!find_process_by_pid
  <2>3. AF!ReferencesReturned'
    <3>1. x7' = [x7 EXCEPT ![c] = x7'[c]] /\ x4' = x4
      BY <1>0, <1>6 DEF AF!TypeOK, AF!find_process_by_pid
    <3>2. \/ x5' = x5 /\ x6' = x6 /\ (c \in AffinityInside(x7) <=> c \in AffinityInside(x7'))
          \/ x5' = x5 + 1 /\ x6' = x6 + 1 /\ c \notin AffinityInside(x7) /\ c \in AffinityInside(x7')
          \/ x5' = x5 - 1 /\ x6' = x6 - 1 /\ c \in AffinityInside(x7) /\ c \notin AffinityInside(x7')
      BY <1>0, <1>6 DEF AF!TypeOK, AF!find_process_by_pid, AffinityInside
    <3>. QED BY <1>0, <3>1, <3>2, AffinityCountStep
  <2>. QED BY <2>1, <2>2, <2>3 DEF AF!AffinityInv
<1>7. ASSUME NEW c \in AffinityCallers, AF!SetAllowed(c)
      PROVE  AF!AffinityInv'
  <2>1. AF!TypeOK'
    BY <1>0, <1>7 DEF AF!TypeOK, AF!SetAllowed
  <2>2. AF!WillBeSeen'
    BY <1>0, <1>7, CpusetsAssumption DEF AF!TypeOK, AF!WillBeSeen, AF!SetAllowed
  <2>3. AF!ReferencesReturned'
    <3>1. x7' = [x7 EXCEPT ![c] = x7'[c]] /\ x4' = x4
      BY <1>0, <1>7 DEF AF!TypeOK, AF!SetAllowed
    <3>2. \/ x5' = x5 /\ x6' = x6 /\ (c \in AffinityInside(x7) <=> c \in AffinityInside(x7'))
          \/ x5' = x5 + 1 /\ x6' = x6 + 1 /\ c \notin AffinityInside(x7) /\ c \in AffinityInside(x7')
          \/ x5' = x5 - 1 /\ x6' = x6 - 1 /\ c \in AffinityInside(x7) /\ c \notin AffinityInside(x7')
      BY <1>0, <1>7 DEF AF!TypeOK, AF!SetAllowed, AffinityInside
    <3>. QED BY <1>0, <3>1, <3>2, AffinityCountStep
  <2>. QED BY <2>1, <2>2, <2>3 DEF AF!AffinityInv
<1>8. ASSUME NEW c \in AffinityCallers, AF!CheckAgain(c)
      PROVE  AF!AffinityInv'
  <2>1. AF!TypeOK'
    BY <1>0, <1>8 DEF AF!TypeOK, AF!CheckAgain
  <2>2. AF!WillBeSeen'
    BY <1>0, <1>8, CpusetsAssumption DEF AF!TypeOK, AF!WillBeSeen, AF!CheckAgain
  <2>3. AF!ReferencesReturned'
    <3>1. x7' = [x7 EXCEPT ![c] = x7'[c]] /\ x4' = x4
      BY <1>0, <1>8 DEF AF!TypeOK, AF!CheckAgain
    <3>2. \/ x5' = x5 /\ x6' = x6 /\ (c \in AffinityInside(x7) <=> c \in AffinityInside(x7'))
          \/ x5' = x5 + 1 /\ x6' = x6 + 1 /\ c \notin AffinityInside(x7) /\ c \in AffinityInside(x7')
          \/ x5' = x5 - 1 /\ x6' = x6 - 1 /\ c \in AffinityInside(x7) /\ c \notin AffinityInside(x7')
      BY <1>0, <1>8 DEF AF!TypeOK, AF!CheckAgain, AffinityInside
    <3>. QED BY <1>0, <3>1, <3>2, AffinityCountStep
  <2>. QED BY <2>1, <2>2, <2>3 DEF AF!AffinityInv
<1>9. ASSUME NEW m \in Cpusets, AF!UpdateCpuset(m)
      PROVE  AF!AffinityInv'
  BY <1>0, <1>9, AffinityCount, AffinityCountNow DEF AF!AffinityInv, AF!TypeOK, AF!WillBeSeen, AF!UpdateCpuset
<1>10. CASE AF!UpdateTasks
  BY <1>0, <1>10, AffinityCount, AffinityCountNow DEF AF!AffinityInv, AF!TypeOK, AF!WillBeSeen, AF!UpdateTasks
<1>11. CASE AF!Exit
  <2>1. Cardinality(AffinityInside(x7)) \in Nat
    <3>1. IsFiniteSet(AffinityInside(x7))
      BY FS_Subset, CallersAssumption DEF AffinityInside
    <3>. QED BY <3>1, FS_CardinalityType
  <2>2. AF!ReferencesReturned'
    BY <1>0, <1>11, <2>1, AffinityCount, AffinityCountNow DEF AF!Exit
  <2>. QED BY <1>0, <1>11, <2>2 DEF AF!AffinityInv, AF!TypeOK, AF!WillBeSeen, AF!Exit
<1>12. CASE UNCHANGED AF!vars
  BY <1>0, <1>12, AffinityCount, AffinityCountNow DEF AF!AffinityInv, AF!TypeOK, AF!WillBeSeen, AF!vars
<1>. QED BY <1>1, <1>2, <1>3, <1>4, <1>5, <1>6, <1>7, <1>8, <1>9, <1>10, <1>11, <1>12 DEF AF!Next

(* sched_setaffinity(), 6579 to 6588, against an update of the cpuset and  *)
(* the exit of the task.                                                   *)
THEOREM AffinityHoldsAlways == KernelSpec => []AffinityHolds
<1>. DEFINE I == part = "Affinity" => AF!AffinityInv
<1>1. KernelInit => I
  BY PartStarts, AffinityInit
<1>2. I /\ [KernelNext]_<<vars, part, slots>> => I'
  BY PartMoves, AffinityStep
<1>3. I => AffinityHolds
  <2>. SUFFICES ASSUME AF!AffinityInv PROVE AF!AffinityInCpuset /\ AF!ReferencesReturned
    BY DEF AffinityHolds
  <2>. QED BY DEF AF!AffinityInv, AF!AffinityInCpuset, AF!WillBeSeen, AF!At
<1>. QED BY <1>1, <1>2, <1>3, PTL DEF KernelSpec

-----------------------------------------------------------------------------
ExpeditedHolding(f) == {k \in SyncCallers : f[k].at \in {"try", "post", "collect"}}

LEMMA HeldBackNow ==
  /\ EX!HeldBack <=> x3 = Cardinality(ExpeditedHolding(x9))
  /\ EX!HeldBack' <=> x3' = Cardinality(ExpeditedHolding(x9'))
BY DEF EX!HeldBack, EX!Holding, ExpeditedHolding, EX!Cardinality, Cardinality

LEMMA ExpeditedInit == ASSUME EX!Init PROVE EX!GraceInv
<1>1. EX!TypeOK /\ EX!MutexOwned /\ EX!Unanswered /\ EX!NobodyAsked /\ EX!OldInTheWay
  BY CallersAssumption DEF EX!Init, EX!TypeOK, EX!MutexOwned, EX!Unanswered, EX!NobodyAsked, EX!OldInTheWay, EX!Idle
<1>2. ExpeditedHolding(x9) = {}
  BY DEF EX!Init, ExpeditedHolding, EX!Idle
<1>3. Cardinality(ExpeditedHolding(x9)) = 0
  BY <1>2, FS_EmptySet
<1>4. EX!HeldBack
  BY <1>3, HeldBackNow DEF EX!Init
<1>. QED BY <1>1, <1>4 DEF EX!GraceInv

(* One caller moves: the count of those who hold processors back.          *)
LEMMA HeldBackStep ==
  ASSUME EX!HeldBack, EX!TypeOK, NEW k \in SyncCallers, NEW r, x9' = [x9 EXCEPT ![k] = r],
         \/ x3' = x3 /\ (k \in ExpeditedHolding(x9) <=> k \in ExpeditedHolding(x9'))
         \/ x3' = x3 + 1 /\ k \notin ExpeditedHolding(x9) /\ k \in ExpeditedHolding(x9')
         \/ x3' = x3 - 1 /\ k \in ExpeditedHolding(x9) /\ k \notin ExpeditedHolding(x9')
  PROVE  EX!HeldBack'
<1>. DEFINE S == ExpeditedHolding(x9)
            T == ExpeditedHolding(x9')
<1>1. \A d \in SyncCallers \ {k} : d \in S <=> d \in T
  BY DEF ExpeditedHolding, EX!TypeOK
<1>2. S \in SUBSET SyncCallers /\ T \in SUBSET SyncCallers
  BY DEF ExpeditedHolding
<1>3. x3 = Cardinality(S)
  BY HeldBackNow
<1>4. /\ (k \in S <=> k \in T) => Cardinality(T) = Cardinality(S)
      /\ k \notin S /\ k \in T => Cardinality(T) = Cardinality(S) + 1
      /\ k \in S /\ k \notin T => Cardinality(T) = Cardinality(S) - 1
  <2>. HIDE DEF S, T
  <2>. QED BY <1>1, <1>2, CallersAssumption, CountOne
<1>. QED BY <1>3, <1>4, HeldBackNow

LEMMA InExpedited ==
  ASSUME EX!TypeOK, NEW k \in SyncCallers
  PROVE  x9[k].at # "idle" => x9[k] \in EX!InProgress
BY DEF EX!TypeOK, EX!Idle

LEMMA LowestThere ==
  ASSUME NEW S, S \subseteq CPUs, S # {}
  PROVE  EX!Lowest(S) \in S
BY LeastNumber, ProcessorsAssumption DEF EX!Lowest

LEMMA ExpeditedStep == ASSUME EX!GraceInv, [EX!Next]_EX!vars PROVE EX!GraceInv'
<1>0. /\ EX!TypeOK /\ EX!HeldBack /\ EX!MutexOwned /\ EX!Unanswered /\ EX!NobodyAsked /\ EX!OldInTheWay
      /\ 0 \notin SyncCallers
  BY CallersAssumption DEF EX!GraceInv
<1>. USE DEF EX!At, EX!Go, EX!synchronize_sched_expedited_count
<1>1. ASSUME NEW k \in SyncCallers, EX!Enter(k)
      PROVE  EX!GraceInv'
  <2>1. EX!TypeOK'
    BY <1>0, <1>1 DEF EX!Enter, EX!InProgress, EX!TypeOK, EX!Idle
  <2>2. EX!MutexOwned'
    BY <1>0, <1>1 DEF EX!Enter, EX!InProgress, EX!TypeOK, EX!Idle, EX!MutexOwned, EX!NobodyAsked
  <2>3. EX!Unanswered'
    BY <1>0, <1>1 DEF EX!Enter, EX!InProgress, EX!TypeOK, EX!Idle, EX!Unanswered, EX!MutexOwned, EX!NobodyAsked, EX!OldInTheWay
  <2>4. EX!NobodyAsked'
    BY <1>0, <1>1 DEF EX!Enter, EX!InProgress, EX!TypeOK, EX!Idle, EX!NobodyAsked, EX!MutexOwned, EX!OldInTheWay
  <2>5. EX!OldInTheWay'
    BY <1>0, <1>1 DEF EX!Enter, EX!InProgress, EX!TypeOK, EX!Idle, EX!OldInTheWay, EX!MutexOwned, EX!NobodyAsked, EX!Unanswered
  <2>6. EX!HeldBack'
    BY <1>0, <1>1, HeldBackStep DEF EX!Enter, ExpeditedHolding, EX!TypeOK, EX!InProgress, EX!Idle
  <2>. QED BY <2>1, <2>2, <2>3, <2>4, <2>5, <2>6 DEF EX!GraceInv
<1>2. ASSUME NEW k \in SyncCallers, EX!TryLock(k)
      PROVE  EX!GraceInv'
  <2>0. x9[k] \in EX!InProgress /\ x9[k].at # "idle"
    BY <1>0, <1>2, InExpedited DEF EX!TryLock
  <2>1. EX!TypeOK'
    BY <1>0, <1>2, <2>0 DEF EX!TryLock, EX!InProgress, EX!TypeOK, EX!Idle
  <2>2. EX!MutexOwned'
    BY <1>0, <1>2, <2>0 DEF EX!TryLock, EX!InProgress, EX!TypeOK, EX!Idle, EX!MutexOwned, EX!NobodyAsked
  <2>3. EX!Unanswered'
    BY <1>0, <1>2, <2>0 DEF EX!TryLock, EX!InProgress, EX!TypeOK, EX!Idle, EX!Unanswered, EX!MutexOwned, EX!NobodyAsked, EX!OldInTheWay
  <2>4. EX!NobodyAsked'
    BY <1>0, <1>2, <2>0 DEF EX!TryLock, EX!InProgress, EX!TypeOK, EX!Idle, EX!NobodyAsked, EX!MutexOwned, EX!OldInTheWay
  <2>5. EX!OldInTheWay'
    BY <1>0, <1>2, <2>0 DEF EX!TryLock, EX!InProgress, EX!TypeOK, EX!Idle, EX!OldInTheWay, EX!MutexOwned, EX!NobodyAsked, EX!Unanswered
  <2>6. EX!HeldBack'
    <3>1. x9' = [x9 EXCEPT ![k] = x9'[k]] /\ x3' = x3
      BY <1>0, <1>2 DEF EX!TryLock, EX!TypeOK
    <3>2. k \in ExpeditedHolding(x9) /\ k \in ExpeditedHolding(x9')
      BY <1>0, <1>2 DEF EX!TryLock, EX!TypeOK, ExpeditedHolding
    <3>. QED BY <1>0, <3>1, <3>2, HeldBackStep
  <2>. QED BY <2>1, <2>2, <2>3, <2>4, <2>5, <2>6 DEF EX!GraceInv
<1>3. ASSUME NEW k \in SyncCallers, EX!Contended(k)
      PROVE  EX!GraceInv'
  <2>0. x9[k] \in EX!InProgress /\ x9[k].at # "idle"
    BY <1>0, <1>3, InExpedited DEF EX!Contended
  <2>1. EX!TypeOK'
    <3>1. x9'[k] \in EX!InProgress
      <4>1. CASE x9[k].tries < TRIES
        <5>1. x9'[k] = [x9[k] EXCEPT !.at = "delayed", !.tries = @ + 1]
          <6>. DEFINE r == [x9[k] EXCEPT !.at = "delayed", !.tries = @ + 1]
                      s == [x9[k] EXCEPT !.at = "sync", !.wait = x2]
          <6>1. x9' = [x9 EXCEPT ![k] = IF x9[k].tries < TRIES THEN r ELSE s]
            BY <1>3 DEF EX!Contended
          <6>. HIDE DEF r, s
          <6>2. x9'[k] = r
            BY <1>0, <4>1, <6>1 DEF EX!TypeOK
          <6>. QED BY <6>2 DEF r
        <5>2. x9[k].tries + 1 \in Nat
          BY <2>0 DEF EX!InProgress
        <5>. QED BY <2>0, <5>1, <5>2 DEF EX!InProgress
      <4>2. CASE ~(x9[k].tries < TRIES)
        BY <1>0, <1>3, <2>0, <4>2 DEF EX!Contended, EX!InProgress, EX!TypeOK
      <4>. QED BY <4>1, <4>2
    <3>2. x9' \in [SyncCallers -> {EX!Idle} \cup EX!InProgress]
      BY <1>0, <1>3, <3>1 DEF EX!Contended, EX!TypeOK
    <3>. QED BY <1>0, <1>3, <3>2 DEF EX!Contended, EX!TypeOK
  <2>2. EX!MutexOwned'
    BY <1>0, <1>3, <2>0 DEF EX!Contended, EX!InProgress, EX!TypeOK, EX!Idle, EX!MutexOwned, EX!NobodyAsked
  <2>3. EX!Unanswered'
    BY <1>0, <1>3, <2>0 DEF EX!Contended, EX!InProgress, EX!TypeOK, EX!Idle, EX!Unanswered, EX!MutexOwned, EX!NobodyAsked, EX!OldInTheWay
  <2>4. EX!NobodyAsked'
    BY <1>0, <1>3, <2>0 DEF EX!Contended, EX!InProgress, EX!TypeOK, EX!Idle, EX!NobodyAsked, EX!MutexOwned, EX!OldInTheWay
  <2>5. EX!OldInTheWay'
    BY <1>0, <1>3, <2>0 DEF EX!Contended, EX!InProgress, EX!TypeOK, EX!Idle, EX!OldInTheWay, EX!MutexOwned, EX!NobodyAsked, EX!Unanswered
  <2>6. EX!HeldBack'
    BY <1>0, <1>3, <2>0, HeldBackStep DEF EX!Contended, ExpeditedHolding, EX!TypeOK, EX!InProgress, EX!Idle
  <2>. QED BY <2>1, <2>2, <2>3, <2>4, <2>5, <2>6 DEF EX!GraceInv
<1>4. ASSUME NEW k \in SyncCallers, EX!Delayed(k)
      PROVE  EX!GraceInv'
  <2>0. x9[k] \in EX!InProgress /\ x9[k].at # "idle"
    BY <1>0, <1>4, InExpedited DEF EX!Delayed
  <2>1. EX!TypeOK'
    BY <1>0, <1>4, <2>0 DEF EX!Delayed, EX!InProgress, EX!TypeOK, EX!Idle
  <2>2. EX!MutexOwned'
    BY <1>0, <1>4, <2>0 DEF EX!Delayed, EX!InProgress, EX!TypeOK, EX!Idle, EX!MutexOwned, EX!NobodyAsked
  <2>3. EX!Unanswered'
    BY <1>0, <1>4, <2>0 DEF EX!Delayed, EX!InProgress, EX!TypeOK, EX!Idle, EX!Unanswered, EX!MutexOwned, EX!NobodyAsked, EX!OldInTheWay
  <2>4. EX!NobodyAsked'
    BY <1>0, <1>4, <2>0 DEF EX!Delayed, EX!InProgress, EX!TypeOK, EX!Idle, EX!NobodyAsked, EX!MutexOwned, EX!OldInTheWay
  <2>5. EX!OldInTheWay'
    BY <1>0, <1>4, <2>0 DEF EX!Delayed, EX!InProgress, EX!TypeOK, EX!Idle, EX!OldInTheWay, EX!MutexOwned, EX!NobodyAsked, EX!Unanswered
  <2>6. EX!HeldBack'
    BY <1>0, <1>4, <2>0, HeldBackStep DEF EX!Delayed, ExpeditedHolding, EX!TypeOK, EX!InProgress, EX!Idle
  <2>. QED BY <2>1, <2>2, <2>3, <2>4, <2>5, <2>6 DEF EX!GraceInv
<1>5. ASSUME NEW k \in SyncCallers, EX!Post(k)
      PROVE  EX!GraceInv'
  <2>0. x9[k] \in EX!InProgress /\ x9[k].at # "idle"
    BY <1>0, <1>5, InExpedited DEF EX!Post
  <2>. DEFINE c == EX!Lowest(x9[k].todo)
  <2>c. c \in x9[k].todo /\ c \in CPUs
    BY <1>5, <2>0, LowestThere DEF EX!Post, EX!InProgress
  <2>. HIDE DEF c
  <2>1. EX!TypeOK'
    BY <1>0, <1>5, <2>0, <2>c DEF EX!Post, EX!InProgress, c, EX!TypeOK, EX!Idle
  <2>2. EX!MutexOwned'
    BY <1>0, <1>5, <2>0, <2>c DEF EX!Post, EX!InProgress, c, EX!TypeOK, EX!Idle, EX!MutexOwned, EX!NobodyAsked
  <2>3. EX!Unanswered'
    BY <1>0, <1>5, <2>0, <2>c DEF EX!Post, EX!InProgress, c, EX!TypeOK, EX!Idle, EX!Unanswered, EX!MutexOwned, EX!NobodyAsked, EX!OldInTheWay
  <2>4. EX!NobodyAsked'
    BY <1>0, <1>5, <2>0, <2>c DEF EX!Post, EX!InProgress, c, EX!TypeOK, EX!Idle, EX!NobodyAsked, EX!MutexOwned, EX!OldInTheWay
  <2>5. EX!OldInTheWay'
    BY <1>0, <1>5, <2>0, <2>c DEF EX!Post, EX!InProgress, c, EX!TypeOK, EX!Idle, EX!OldInTheWay, EX!MutexOwned, EX!NobodyAsked, EX!Unanswered
  <2>6. EX!HeldBack'
    BY <1>0, <1>5, <2>0, HeldBackStep DEF EX!Post, ExpeditedHolding, EX!TypeOK, EX!InProgress, EX!Idle
  <2>. QED BY <2>1, <2>2, <2>3, <2>4, <2>5, <2>6 DEF EX!GraceInv
<1>6. ASSUME NEW k \in SyncCallers, EX!Posted(k)
      PROVE  EX!GraceInv'
  <2>0. x9[k] \in EX!InProgress /\ x9[k].at # "idle"
    BY <1>0, <1>6, InExpedited DEF EX!Posted
  <2>1. EX!TypeOK'
    BY <1>0, <1>6, <2>0 DEF EX!Posted, EX!InProgress, EX!TypeOK, EX!Idle
  <2>2. EX!MutexOwned'
    BY <1>0, <1>6, <2>0 DEF EX!Posted, EX!InProgress, EX!TypeOK, EX!Idle, EX!MutexOwned, EX!NobodyAsked
  <2>3. EX!Unanswered'
    BY <1>0, <1>6, <2>0 DEF EX!Posted, EX!InProgress, EX!TypeOK, EX!Idle, EX!Unanswered, EX!MutexOwned, EX!NobodyAsked, EX!OldInTheWay
  <2>4. EX!NobodyAsked'
    BY <1>0, <1>6, <2>0 DEF EX!Posted, EX!InProgress, EX!TypeOK, EX!Idle, EX!NobodyAsked, EX!MutexOwned, EX!OldInTheWay
  <2>5. EX!OldInTheWay'
    BY <1>0, <1>6, <2>0 DEF EX!Posted, EX!InProgress, EX!TypeOK, EX!Idle, EX!OldInTheWay, EX!MutexOwned, EX!NobodyAsked, EX!Unanswered
  <2>6. EX!HeldBack'
    <3>1. x9' = [x9 EXCEPT ![k] = x9'[k]] /\ x3' = x3
      BY <1>0, <1>6 DEF EX!Posted, EX!TypeOK
    <3>2. k \in ExpeditedHolding(x9) /\ k \in ExpeditedHolding(x9')
      BY <1>0, <1>6 DEF EX!Posted, EX!TypeOK, ExpeditedHolding
    <3>. QED BY <1>0, <3>1, <3>2, HeldBackStep
  <2>. QED BY <2>1, <2>2, <2>3, <2>4, <2>5, <2>6 DEF EX!GraceInv
<1>7. ASSUME NEW k \in SyncCallers, EX!Collect(k)
      PROVE  EX!GraceInv'
  <2>0. x9[k] \in EX!InProgress /\ x9[k].at # "idle"
    BY <1>0, <1>7, InExpedited DEF EX!Collect
  <2>. DEFINE c == EX!Lowest(x9[k].todo)
  <2>c. c \in x9[k].todo /\ c \in CPUs
    BY <1>7, <2>0, LowestThere DEF EX!Collect, EX!InProgress
  <2>. HIDE DEF c
  <2>1. EX!TypeOK'
    BY <1>0, <1>7, <2>0, <2>c DEF EX!Collect, EX!InProgress, c, EX!TypeOK, EX!Idle
  <2>2. EX!MutexOwned'
    BY <1>0, <1>7, <2>0, <2>c DEF EX!Collect, EX!InProgress, c, EX!TypeOK, EX!Idle, EX!MutexOwned, EX!NobodyAsked
  <2>3. EX!Unanswered'
    BY <1>0, <1>7, <2>0, <2>c DEF EX!Collect, EX!InProgress, c, EX!TypeOK, EX!Idle, EX!Unanswered, EX!MutexOwned, EX!NobodyAsked, EX!OldInTheWay
  <2>4. EX!NobodyAsked'
    BY <1>0, <1>7, <2>0, <2>c DEF EX!Collect, EX!InProgress, c, EX!TypeOK, EX!Idle, EX!NobodyAsked, EX!MutexOwned, EX!OldInTheWay
  <2>5. EX!OldInTheWay'
    BY <1>0, <1>7, <2>0, <2>c DEF EX!Collect, EX!InProgress, c, EX!TypeOK, EX!Idle, EX!OldInTheWay, EX!MutexOwned, EX!NobodyAsked, EX!Unanswered
  <2>6. EX!HeldBack'
    BY <1>0, <1>7, <2>0, HeldBackStep DEF EX!Collect, ExpeditedHolding, EX!TypeOK, EX!InProgress, EX!Idle
  <2>. QED BY <2>1, <2>2, <2>3, <2>4, <2>5, <2>6 DEF EX!GraceInv
<1>8. ASSUME NEW k \in SyncCallers, EX!Unlock(k)
      PROVE  EX!GraceInv'
  <2>0. x9[k] \in EX!InProgress /\ x9[k].at # "idle"
    BY <1>0, <1>8, InExpedited DEF EX!Unlock
  <2>1. EX!TypeOK'
    BY <1>0, <1>8, <2>0 DEF EX!Unlock, EX!InProgress, EX!TypeOK, EX!Idle
  <2>2. EX!MutexOwned'
    BY <1>0, <1>8, <2>0 DEF EX!Unlock, EX!InProgress, EX!TypeOK, EX!Idle, EX!MutexOwned, EX!NobodyAsked
  <2>3. EX!Unanswered'
    BY <1>0, <1>8, <2>0 DEF EX!Unlock, EX!InProgress, EX!TypeOK, EX!Idle, EX!Unanswered, EX!MutexOwned, EX!NobodyAsked, EX!OldInTheWay
  <2>4. EX!NobodyAsked'
    BY <1>0, <1>8, <2>0 DEF EX!Unlock, EX!InProgress, EX!TypeOK, EX!Idle, EX!NobodyAsked, EX!MutexOwned, EX!OldInTheWay
  <2>5. EX!OldInTheWay'
    BY <1>0, <1>8, <2>0 DEF EX!Unlock, EX!InProgress, EX!TypeOK, EX!Idle, EX!OldInTheWay, EX!MutexOwned, EX!NobodyAsked, EX!Unanswered
  <2>6. EX!HeldBack'
    BY <1>0, <1>8, <2>0, HeldBackStep DEF EX!Unlock, ExpeditedHolding, EX!TypeOK, EX!InProgress, EX!Idle
  <2>. QED BY <2>1, <2>2, <2>3, <2>4, <2>5, <2>6 DEF EX!GraceInv
<1>9. ASSUME NEW k \in SyncCallers, EX!synchronize_sched(k)
      PROVE  EX!GraceInv'
  <2>0. x9[k] \in EX!InProgress /\ x9[k].at # "idle"
    BY <1>0, <1>9, InExpedited DEF EX!synchronize_sched
  <2>1. EX!TypeOK'
    BY <1>0, <1>9, <2>0 DEF EX!synchronize_sched, EX!InProgress, EX!TypeOK, EX!Idle
  <2>2. EX!MutexOwned'
    BY <1>0, <1>9, <2>0 DEF EX!synchronize_sched, EX!InProgress, EX!TypeOK, EX!Idle, EX!MutexOwned, EX!NobodyAsked
  <2>3. EX!Unanswered'
    BY <1>0, <1>9, <2>0 DEF EX!synchronize_sched, EX!InProgress, EX!TypeOK, EX!Idle, EX!Unanswered, EX!MutexOwned, EX!NobodyAsked, EX!OldInTheWay
  <2>4. EX!NobodyAsked'
    BY <1>0, <1>9, <2>0 DEF EX!synchronize_sched, EX!InProgress, EX!TypeOK, EX!Idle, EX!NobodyAsked, EX!MutexOwned, EX!OldInTheWay
  <2>5. EX!OldInTheWay'
    BY <1>0, <1>9, <2>0 DEF EX!synchronize_sched, EX!InProgress, EX!TypeOK, EX!Idle, EX!OldInTheWay, EX!MutexOwned, EX!NobodyAsked, EX!Unanswered
  <2>6. EX!HeldBack'
    BY <1>0, <1>9, <2>0, HeldBackStep DEF EX!synchronize_sched, ExpeditedHolding, EX!TypeOK, EX!InProgress, EX!Idle
  <2>. QED BY <2>1, <2>2, <2>3, <2>4, <2>5, <2>6 DEF EX!GraceInv
<1>10. ASSUME NEW k \in SyncCallers, EX!Return(k)
      PROVE  EX!GraceInv'
  <2>0. x9[k] \in EX!InProgress /\ x9[k].at # "idle"
    BY <1>0, <1>10, InExpedited DEF EX!Return
  <2>1. EX!TypeOK'
    BY <1>0, <1>10, <2>0 DEF EX!Return, EX!InProgress, EX!TypeOK, EX!Idle
  <2>2. EX!MutexOwned'
    BY <1>0, <1>10, <2>0 DEF EX!Return, EX!InProgress, EX!TypeOK, EX!Idle, EX!MutexOwned, EX!NobodyAsked
  <2>3. EX!Unanswered'
    BY <1>0, <1>10, <2>0 DEF EX!Return, EX!InProgress, EX!TypeOK, EX!Idle, EX!Unanswered, EX!MutexOwned, EX!NobodyAsked, EX!OldInTheWay
  <2>4. EX!NobodyAsked'
    BY <1>0, <1>10, <2>0 DEF EX!Return, EX!InProgress, EX!TypeOK, EX!Idle, EX!NobodyAsked, EX!MutexOwned, EX!OldInTheWay
  <2>5. EX!OldInTheWay'
    BY <1>0, <1>10, <2>0 DEF EX!Return, EX!InProgress, EX!TypeOK, EX!Idle, EX!OldInTheWay, EX!MutexOwned, EX!NobodyAsked, EX!Unanswered
  <2>6. EX!HeldBack'
    BY <1>0, <1>10, <2>0, HeldBackStep DEF EX!Return, ExpeditedHolding, EX!TypeOK, EX!InProgress, EX!Idle
  <2>. QED BY <2>1, <2>2, <2>3, <2>4, <2>5, <2>6 DEF EX!GraceInv
<1>11. ASSUME NEW c \in CPUs, EX!Answer(c)
      PROVE  EX!GraceInv'
  <2>1. EX!TypeOK'
    BY <1>0, <1>11 DEF EX!Answer, EX!TypeOK, EX!TypeOK, EX!InProgress, EX!Idle
  <2>2. EX!MutexOwned'
    BY <1>0, <1>11 DEF EX!Answer, EX!MutexOwned, EX!TypeOK, EX!InProgress, EX!Idle
  <2>3. EX!Unanswered'
    BY <1>0, <1>11 DEF EX!Answer, EX!Unanswered, EX!TypeOK, EX!InProgress, EX!Idle
  <2>4. EX!NobodyAsked'
    BY <1>0, <1>11 DEF EX!Answer, EX!NobodyAsked, EX!TypeOK, EX!InProgress, EX!Idle
  <2>5. EX!OldInTheWay'
    BY <1>0, <1>11 DEF EX!Answer, EX!OldInTheWay, EX!TypeOK, EX!InProgress, EX!Idle
  <2>6. EX!HeldBack'
    BY <1>0, <1>11, HeldBackNow DEF EX!Answer, ExpeditedHolding, EX!TypeOK, EX!InProgress, EX!Idle
  <2>. QED BY <2>1, <2>2, <2>3, <2>4, <2>5, <2>6 DEF EX!GraceInv
<1>12. ASSUME NEW c \in CPUs, EX!complete(c)
      PROVE  EX!GraceInv'
  <2>1. EX!TypeOK'
    BY <1>0, <1>12 DEF EX!complete, EX!TypeOK, EX!TypeOK, EX!InProgress, EX!Idle
  <2>2. EX!MutexOwned'
    BY <1>0, <1>12 DEF EX!complete, EX!MutexOwned, EX!TypeOK, EX!InProgress, EX!Idle
  <2>3. EX!Unanswered'
    BY <1>0, <1>12 DEF EX!complete, EX!Unanswered, EX!TypeOK, EX!InProgress, EX!Idle
  <2>4. EX!NobodyAsked'
    BY <1>0, <1>12 DEF EX!complete, EX!NobodyAsked, EX!TypeOK, EX!InProgress, EX!Idle
  <2>5. EX!OldInTheWay'
    BY <1>0, <1>12 DEF EX!complete, EX!OldInTheWay, EX!TypeOK, EX!InProgress, EX!Idle
  <2>6. EX!HeldBack'
    BY <1>0, <1>12, HeldBackNow DEF EX!complete, ExpeditedHolding, EX!TypeOK, EX!InProgress, EX!Idle
  <2>. QED BY <2>1, <2>2, <2>3, <2>4, <2>5, <2>6 DEF EX!GraceInv
<1>13. ASSUME NEW c \in CPUs, EX!Begin(c)
      PROVE  EX!GraceInv'
  <2>1. EX!TypeOK'
    BY <1>0, <1>13 DEF EX!Begin, EX!TypeOK, EX!TypeOK, EX!InProgress, EX!Idle
  <2>2. EX!MutexOwned'
    BY <1>0, <1>13 DEF EX!Begin, EX!MutexOwned, EX!TypeOK, EX!InProgress, EX!Idle
  <2>3. EX!Unanswered'
    BY <1>0, <1>13 DEF EX!Begin, EX!Unanswered, EX!TypeOK, EX!InProgress, EX!Idle
  <2>4. EX!NobodyAsked'
    BY <1>0, <1>13 DEF EX!Begin, EX!NobodyAsked, EX!TypeOK, EX!InProgress, EX!Idle
  <2>5. EX!OldInTheWay'
    BY <1>0, <1>13 DEF EX!Begin, EX!OldInTheWay, EX!TypeOK, EX!InProgress, EX!Idle
  <2>6. EX!HeldBack'
    BY <1>0, <1>13, HeldBackNow DEF EX!Begin, ExpeditedHolding, EX!TypeOK, EX!InProgress, EX!Idle
  <2>. QED BY <2>1, <2>2, <2>3, <2>4, <2>5, <2>6 DEF EX!GraceInv
<1>14. ASSUME NEW c \in CPUs, EX!End(c)
      PROVE  EX!GraceInv'
  <2>0. \A k \in SyncCallers :
          /\ x9[k].at = "idle" => x9'[k] = EX!Idle
          /\ x9[k].at # "idle" => /\ x9'[k] \in EX!InProgress /\ x9'[k].at = x9[k].at /\ x9'[k].todo = x9[k].todo
                                  /\ x9'[k].old = x9[k].old \ {c} /\ x9'[k].wait = x9[k].wait \ {c}
    <3>. SUFFICES ASSUME NEW k \in SyncCallers, x9[k].at # "idle"
                  PROVE  /\ x9'[k] \in EX!InProgress /\ x9'[k].at = x9[k].at /\ x9'[k].todo = x9[k].todo
                         /\ x9'[k].old = x9[k].old \ {c} /\ x9'[k].wait = x9[k].wait \ {c}
      BY <1>14 DEF EX!End
    <3>1. x9[k] \in EX!InProgress /\ x9'[k] = [x9[k] EXCEPT !.old = @ \ {c}, !.wait = @ \ {c}]
      BY <1>0, <1>14, InExpedited DEF EX!End
    <3>. QED BY <3>1 DEF EX!InProgress
  <2>1. EX!TypeOK'
    BY <1>0, <1>14, ZenonT(60) DEF EX!End, EX!TypeOK, EX!InProgress, EX!Idle
  <2>2. EX!MutexOwned'
    BY <1>0, <1>14, <2>0 DEF EX!End, EX!MutexOwned, EX!Idle
  <2>3. EX!Unanswered'
    BY <1>0, <1>14 DEF EX!End, EX!Unanswered, EX!TypeOK, EX!InProgress, EX!Idle
  <2>4. EX!NobodyAsked'
    BY <1>0, <1>14 DEF EX!End, EX!NobodyAsked, EX!TypeOK, EX!InProgress, EX!Idle
  <2>5. EX!OldInTheWay'
    <3>. SUFFICES ASSUME NEW k \in SyncCallers, x9'[k].at # "idle"
                  PROVE  /\ x9'[k].old \subseteq x2'
                         /\ x9'[k].at = "sync" => x9'[k].old \subseteq x9'[k].wait
                         /\ x9'[k].at = "post" =>
                              /\ x9'[k].todo \subseteq x1' /\ x7' \cup x8' \subseteq x1' \ x9'[k].todo
                              /\ x9'[k].old \subseteq x9'[k].todo \cup x7'
                         /\ x9'[k].at = "collect" =>
                              /\ x7' \cup x8' \subseteq x9'[k].todo /\ x9'[k].todo \subseteq x1'
                              /\ x9'[k].old \subseteq x7'
                         /\ x9'[k].at = "return" => x9'[k].old = {}
      BY DEF EX!OldInTheWay
    <3>1. x2' = x2 \ {c} /\ UNCHANGED <<x1, x7, x8>>
      BY <1>14 DEF EX!End
    <3>2. x9[k].at # "idle"
      BY <2>0 DEF EX!Idle
    <3>. QED BY <1>0, <2>0, <3>1, <3>2 DEF EX!OldInTheWay
  <2>6. EX!HeldBack'
    BY <1>0, <1>14, HeldBackNow, ZenonT(60) DEF EX!End, ExpeditedHolding, EX!TypeOK, EX!InProgress, EX!Idle
  <2>. QED BY <2>1, <2>2, <2>3, <2>4, <2>5, <2>6 DEF EX!GraceInv
<1>15. ASSUME NEW c \in CPUs, EX!Hotplug(c)
      PROVE  EX!GraceInv'
  <2>1. EX!TypeOK'
    BY <1>0, <1>15 DEF EX!Hotplug, EX!TypeOK, EX!TypeOK, EX!InProgress, EX!Idle
  <2>2. EX!MutexOwned'
    BY <1>0, <1>15 DEF EX!Hotplug, EX!MutexOwned, EX!TypeOK, EX!InProgress, EX!Idle
  <2>3. EX!Unanswered'
    BY <1>0, <1>15 DEF EX!Hotplug, EX!Unanswered, EX!TypeOK, EX!InProgress, EX!Idle
  <2>4. EX!NobodyAsked'
    BY <1>0, <1>15 DEF EX!Hotplug, EX!NobodyAsked, EX!TypeOK, EX!InProgress, EX!Idle
  <2>5. EX!OldInTheWay'
    <3>1. \A k \in SyncCallers : x9[k].at \notin {"post", "collect"}
      <4>1. IsFiniteSet(ExpeditedHolding(x9)) /\ Cardinality(ExpeditedHolding(x9)) = 0
        BY <1>0, <1>15, HeldBackNow, CallersAssumption, FS_Subset DEF EX!Hotplug, ExpeditedHolding
      <4>2. ExpeditedHolding(x9) = {}
        BY <4>1, FS_EmptySet
      <4>. QED BY <4>2 DEF ExpeditedHolding
    <3>. QED BY <1>0, <1>15, <3>1 DEF EX!Hotplug, EX!OldInTheWay
  <2>6. EX!HeldBack'
    BY <1>0, <1>15, HeldBackNow DEF EX!Hotplug, ExpeditedHolding, EX!TypeOK, EX!InProgress, EX!Idle
  <2>. QED BY <2>1, <2>2, <2>3, <2>4, <2>5, <2>6 DEF EX!GraceInv
<1>16. CASE UNCHANGED EX!vars
  BY <1>0, <1>16, HeldBackNow DEF EX!vars, EX!GraceInv, EX!TypeOK, EX!MutexOwned, EX!Unanswered, EX!NobodyAsked, EX!OldInTheWay
<1>. QED BY <1>1, <1>2, <1>3, <1>4, <1>5, <1>6, <1>7, <1>8, <1>9, <1>10, <1>11, <1>12, <1>13, <1>14, <1>15, <1>16 DEF EX!Next

(* synchronize_sched_expedited(): it returns after every section that was  *)
(* open at the call, and posts no request that is still in use.            *)
THEOREM GraceHoldsAlways == KernelSpec => []GraceHolds
<1>. DEFINE I == part = "Expedited" => EX!GraceInv
<1>1. KernelInit => I
  BY PartStarts, ExpeditedInit
<1>2. I /\ [KernelNext]_<<vars, part, slots>> => I'
  BY PartMoves, ExpeditedStep
<1>3. I => GraceHolds
  <2>. SUFFICES ASSUME EX!GraceInv PROVE EX!GracePeriod /\ EX!RequestSpent
    BY DEF GraceHolds
  <2>. QED BY DEF EX!GraceInv, EX!OldInTheWay, EX!GracePeriod, EX!RequestSpent, EX!At
<1>. QED BY <1>1, <1>2, <1>3, PTL DEF KernelSpec

-----------------------------------------------------------------------------
(* The pieces of a group are a sequence that starts with the group.        *)
LEMMA PiecesThere ==
  /\ Len(GM!Pieces) \in Nat \ {0} /\ DOMAIN GM!Pieces = 1..Len(GM!Pieces)
  /\ GM!ToSet(GM!Pieces) = {GM!Pieces[i] : i \in 1..Len(GM!Pieces)}
  /\ GM!ToSet(GM!Pieces) # {}
<1>1. ASSUME NEW q, NEW e
      PROVE  \E T : GM!PerCpu(q, e) \in Seq(T)
  <2>. DEFINE f == GM!PerCpu(q, e)
              n == 2 * Cardinality(CPUs)
              T == {f[i] : i \in 1..n}
  <2>1. n \in Nat
    BY FS_CardinalityType, ProcessorsAssumption
  <2>2. f = [i \in 1..n |-> f[i]]
    BY DEF GM!PerCpu, GM!Cardinality, Cardinality
  <2>. HIDE DEF f, n
  <2>3. f \in [1..n -> T]
    BY <2>2
  <2>4. f \in Seq(T)
    BY <2>1, <2>3, SeqDef
  <2>. QED BY <2>4 DEF f
<1>2. ASSUME NEW q, NEW e, NEW whether
      PROVE  \E T : (IF whether THEN <<<<q, None>>, <<e, None>>>> \o GM!PerCpu(q, e) ELSE <<>>) \in Seq(T)
  <2>1. PICK T : GM!PerCpu(q, e) \in Seq(T)
    BY <1>1
  <2>. DEFINE U == T \cup {<<q, None>>, <<e, None>>}
              h == <<<<q, None>>, <<e, None>>>>
              f == GM!PerCpu(q, e)
  <2>2. h \in Seq(U)
    OBVIOUS
  <2>3. f \in Seq(U)
    BY <2>1, SeqMonotonic
  <2>. HIDE DEF h, f, U
  <2>4. h \o f \in Seq(U) /\ <<>> \in Seq(U)
    BY <2>2, <2>3, ConcatProperties, EmptySeq
  <2>5. (IF whether THEN h \o f ELSE <<>>) \in Seq(U)
    BY <2>4
  <2>. QED BY <2>5 DEF h, f
<1>3. PICK T : GM!alloc_fair_sched_group \in Seq(T)
  BY <1>2 DEF GM!alloc_fair_sched_group
<1>4. PICK U : GM!alloc_rt_sched_group \in Seq(U)
  BY <1>2 DEF GM!alloc_rt_sched_group
<1>. DEFINE fair == GM!alloc_fair_sched_group
            rt   == GM!alloc_rt_sched_group
            tg   == <<<<"tg", None>>>>
            S    == T \cup U \cup {<<"tg", None>>}
<1>5. tg \in Seq(S) /\ Len(tg) = 1
  OBVIOUS
<1>6. fair \in Seq(S) /\ rt \in Seq(S)
  BY <1>3, <1>4, SeqMonotonic
<1>. HIDE DEF fair, rt, tg, S
<1>7. /\ (tg \o fair) \o rt \in Seq(S) /\ Len((tg \o fair) \o rt) = 1 + Len(fair) + Len(rt)
      /\ Len(fair) \in Nat /\ Len(rt) \in Nat
  <2>1. tg \o fair \in Seq(S) /\ Len(tg \o fair) = Len(tg) + Len(fair)
    BY <1>5, <1>6, ConcatProperties
  <2>2. (tg \o fair) \o rt \in Seq(S) /\ Len((tg \o fair) \o rt) = Len(tg \o fair) + Len(rt)
    BY <1>6, <2>1, ConcatProperties
  <2>. QED BY <1>5, <1>6, <2>1, <2>2, LenProperties
<1>8. GM!Pieces = (tg \o fair) \o rt
  BY DEF GM!Pieces, tg, fair, rt
<1>9. Len(GM!Pieces) \in Nat \ {0} /\ DOMAIN GM!Pieces = 1..Len(GM!Pieces)
  BY <1>7, <1>8, LenProperties
<1>. QED BY <1>9 DEF GM!ToSet

LEMMA GroupInit == ASSUME GM!Init PROVE GM!GroupInv
<1>1. GM!TypeOK
  <2>. DEFINE P == SUBSET GM!ToSet(GM!Pieces)
  <2>1. {} \in P
    OBVIOUS
  <2>. HIDE DEF P
  <2>2. x1 \in [TaskGroups -> P] /\ x2 \in [TaskGroups -> TaskGroups \cup {root_task_group, None}]
        /\ x3 \subseteq TaskGroups
    BY <2>1 DEF GM!Init
  <2>3. x5 \in [TaskGroups -> (SUBSET Readers) \cup {None}] /\ x6 \in [Readers -> TaskGroups \cup {None, "nothing"}]
    BY DEF GM!Init
  <2>. QED BY <2>2, <2>3 DEF GM!TypeOK, P
<1>. QED BY <1>1, GroupsAssumption DEF GM!Init, GM!GroupInv, GM!BeingMade, GM!BornWhole, GM!Awaited, GM!Unborn

LEMMA GroupStep == ASSUME GM!GroupInv, [GM!Next]_GM!vars PROVE GM!GroupInv'
<1>. DEFINE N == Len(GM!Pieces)
            All == GM!ToSet(GM!Pieces)
<1>0. /\ GM!TypeOK /\ GM!BeingMade /\ GM!BornWhole /\ GM!Awaited
      /\ N \in Nat \ {0} /\ All = {GM!Pieces[i] : i \in 1..N} /\ All # {}
      /\ root_task_group \notin TaskGroups /\ None \notin TaskGroups /\ "nothing" \notin TaskGroups
  BY PiecesThere, GroupsAssumption DEF GM!GroupInv
<1>. HIDE DEF N, All
<1>1. ASSUME NEW g \in TaskGroups, NEW p \in TaskGroups \cup {root_task_group}, GM!cpu_cgroup_create(g, p)
      PROVE  GM!GroupInv'
  <2>1. /\ x4 = None /\ x1[g] = {} /\ p \in x3 \cup {root_task_group}
        /\ x4' = [group |-> g, next |-> 1, hangs |-> FALSE]
        /\ x2' = [x2 EXCEPT ![g] = p]
        /\ UNCHANGED <<x1, x3, x5, x6>>
    BY <1>1 DEF GM!cpu_cgroup_create
  <2>2. GM!Unborn(g)
    BY <1>0, <2>1 DEF GM!BornWhole, All
  <2>3. GM!TypeOK'
    BY <1>0, <2>1 DEF GM!TypeOK
  <2>4. GM!BeingMade'
    BY <1>0, <2>1, <2>2 DEF GM!BeingMade, GM!TypeOK, GM!Unborn, N
  <2>5. GM!BornWhole'
    BY <1>0, <2>1, <2>2 DEF GM!BornWhole, GM!TypeOK, GM!Unborn
  <2>6. GM!Awaited'
    BY <1>0, <2>1, <2>2 DEF GM!Awaited, GM!TypeOK, GM!Unborn
  <2>. QED BY <2>3, <2>4, <2>5, <2>6 DEF GM!GroupInv
<1>2. CASE GM!kzalloc
  <2>. DEFINE g == x4.group
              n == x4.next
              piece == GM!Pieces[n]
  <2>1. /\ x4 # None /\ n <= N
        /\ x1' = [x1 EXCEPT ![g] = @ \cup {piece}]
        /\ x4' = [x4 EXCEPT !.next = @ + 1]
        /\ UNCHANGED <<x2, x3, x5, x6>>
    BY <1>2 DEF GM!kzalloc, N
  <2>2. g \in TaskGroups /\ n \in 1..N /\ GM!Unborn(g) /\ x1[g] = {GM!Pieces[i] : i \in 1..(n - 1)} /\ piece \in All
        /\ x2[g] \in x3 \cup {root_task_group}
    BY <1>0, <2>1 DEF GM!BeingMade, N
  <2>3. GM!TypeOK'
    BY <1>0, <2>1, <2>2 DEF GM!TypeOK, All
  <2>4. GM!BeingMade'
    <3>1. x4'.group = g /\ x4'.next = n + 1
      BY <1>0, <2>1, <2>2 DEF GM!BeingMade
    <3>2. x1'[g] = {GM!Pieces[i] : i \in 1..n}
      BY <1>0, <2>1, <2>2 DEF GM!TypeOK
    <3>. QED BY <1>0, <2>1, <2>2, <3>1, <3>2 DEF GM!BeingMade, GM!Unborn, N
  <2>5. GM!BornWhole' /\ GM!Awaited'
    BY <1>0, <2>1, <2>2 DEF GM!BornWhole, GM!TypeOK, GM!Unborn, GM!Awaited
  <2>. QED BY <2>3, <2>4, <2>5 DEF GM!GroupInv
<1>3. CASE GM!AllocFails
  <2>. DEFINE g == x4.group
  <2>1. /\ x4 # None /\ UNCHANGED <<x2, x3, x5, x6>>
        /\ \/ x4' = [x4 EXCEPT !.hangs = TRUE] /\ x1' = x1
           \/ x4' = None /\ x1' = [x1 EXCEPT ![g] = {}]
    BY <1>3 DEF GM!AllocFails
  <2>2. g \in TaskGroups /\ GM!Unborn(g)
    BY <1>0, <2>1 DEF GM!BeingMade
  <2>3. GM!TypeOK'
    BY <1>0, <2>1, <2>2 DEF GM!TypeOK
  <2>4. GM!BeingMade'
    <3>1. x4 \in [group : TaskGroups, next : 1..(Len(GM!Pieces) + 1), hangs : BOOLEAN]
      BY <1>0, <2>1 DEF GM!BeingMade
    <3>2. x4' = [x4 EXCEPT !.hangs = TRUE] => x4' \in [group : TaskGroups, next : 1..(Len(GM!Pieces) + 1), hangs : BOOLEAN]
                                              /\ x4'.group = g /\ x4'.next = x4.next
      BY <3>1
    <3>. QED BY <1>0, <2>1, <2>2, <3>2 DEF GM!BeingMade, GM!Unborn
  <2>5. GM!BornWhole' /\ GM!Awaited'
    BY <1>0, <2>1, <2>2 DEF GM!BornWhole, GM!TypeOK, GM!Unborn, GM!Awaited
  <2>. QED BY <2>3, <2>4, <2>5 DEF GM!GroupInv
<1>4. CASE GM!Register
  <2>. DEFINE g == x4.group
  <2>1. /\ x4 # None /\ x4.next = N + 1 /\ x3' = x3 \cup {g} /\ x4' = None /\ UNCHANGED <<x1, x2, x5, x6>>
    BY <1>4 DEF GM!Register, N
  <2>2. g \in TaskGroups /\ GM!Unborn(g) /\ x1[g] = All /\ x2[g] \in x3 \cup {root_task_group}
    BY <1>0, <2>1 DEF GM!BeingMade
  <2>. QED BY <1>0, <2>1, <2>2 DEF GM!GroupInv, GM!TypeOK, GM!BeingMade, GM!BornWhole, GM!Unborn, GM!Awaited, All
<1>5. ASSUME NEW g \in TaskGroups, GM!sched_destroy_group(g)
      PROVE  GM!GroupInv'
  <2>. DEFINE w == {r \in Readers : x6[r] # None}
  <2>1. /\ x4 = None /\ g \in x3 /\ \A h \in x3 : x2[h] # g
        /\ x3' = x3 \ {g} /\ x5' = [x5 EXCEPT ![g] = w] /\ UNCHANGED <<x1, x2, x4, x6>>
    BY <1>5 DEF GM!sched_destroy_group
  <2>2. w \in SUBSET Readers /\ w # None
    BY GroupsAssumption
  <2>3. \A r \in Readers, h \in TaskGroups : x6[r] = h => r \in w
    BY <1>0
  <2>. HIDE DEF w
  <2>4. GM!TypeOK'
    BY <1>0, <2>1, <2>2 DEF GM!TypeOK
  <2>5. GM!BeingMade'
    BY <2>1 DEF GM!BeingMade
  <2>6. GM!BornWhole'
    BY <1>0, <2>1, <2>2 DEF GM!BornWhole, GM!TypeOK, GM!Unborn
  <2>7. GM!Awaited'
    BY <1>0, <2>1, <2>2, <2>3 DEF GM!Awaited, GM!TypeOK
  <2>. QED BY <2>4, <2>5, <2>6, <2>7 DEF GM!GroupInv
<1>6. ASSUME NEW g \in TaskGroups, GM!free_sched_group_rcu(g)
      PROVE  GM!GroupInv'
  <2>1. /\ x5[g] = {} /\ x1' = [x1 EXCEPT ![g] = x1'[g]] /\ x1'[g] \subseteq x1[g]
        /\ x5' = [x5 EXCEPT ![g] = None] /\ UNCHANGED <<x2, x3, x4, x6>>
    BY <1>0, <1>6 DEF GM!free_sched_group_rcu, GM!TypeOK
  <2>2. x5[g] # None
    BY <2>1, GroupsAssumption
  <2>3. GM!TypeOK'
    <3>1. x1'[g] \in SUBSET GM!ToSet(GM!Pieces)
      BY <1>0, <2>1 DEF GM!TypeOK
    <3>2. x1' \in [TaskGroups -> SUBSET GM!ToSet(GM!Pieces)]
      BY <1>0, <2>1, <3>1 DEF GM!TypeOK
    <3>. QED BY <1>0, <2>1, <3>2 DEF GM!TypeOK
  <2>4. GM!BeingMade' /\ GM!BornWhole'
    BY <1>0, <2>1, <2>2 DEF GM!BeingMade, GM!BornWhole, GM!TypeOK, GM!Unborn
  <2>5. GM!Awaited'
    BY <1>0, <2>1, <2>2 DEF GM!Awaited, GM!TypeOK
  <2>. QED BY <2>3, <2>4, <2>5 DEF GM!GroupInv
<1>7. ASSUME NEW r \in Readers, GM!rcu_read_lock(r)
      PROVE  GM!GroupInv'
  BY <1>0, <1>7 DEF GM!rcu_read_lock, GM!GroupInv, GM!TypeOK, GM!BeingMade, GM!BornWhole, GM!Unborn, GM!Awaited
<1>8. ASSUME NEW r \in Readers, NEW g \in TaskGroups, GM!Find(r, g)
      PROVE  GM!GroupInv'
  BY <1>0, <1>8 DEF GM!Find, GM!GroupInv, GM!TypeOK, GM!BeingMade, GM!BornWhole, GM!Unborn, GM!Awaited
<1>9. ASSUME NEW r \in Readers, GM!rcu_read_unlock(r)
      PROVE  GM!GroupInv'
  <2>1. /\ x6' = [x6 EXCEPT ![r] = None] /\ UNCHANGED <<x1, x2, x3, x4>>
        /\ x5' = [g \in TaskGroups |-> IF x5[g] = None THEN None ELSE x5[g] \ {r}]
    BY <1>9 DEF GM!rcu_read_unlock
  <2>2. \A g \in TaskGroups : IF x5[g] = None THEN x5'[g] = None
                              ELSE x5'[g] = x5[g] \ {r} /\ x5'[g] \in SUBSET Readers /\ x5'[g] # None
    <3>. SUFFICES ASSUME NEW g \in TaskGroups, x5[g] # None
                  PROVE  x5'[g] = x5[g] \ {r} /\ x5'[g] \in SUBSET Readers /\ x5'[g] # None
      BY <2>1
    <3>1. x5'[g] = x5[g] \ {r}
      BY <2>1
    <3>2. x5[g] \in SUBSET Readers
      BY <1>0 DEF GM!TypeOK
    <3>3. x5'[g] \in SUBSET Readers
      BY <3>1, <3>2
    <3>. QED BY <3>1, <3>3, GroupsAssumption
  <2>3. GM!TypeOK'
    BY <1>0, <2>1, <2>2 DEF GM!TypeOK
  <2>4. GM!BeingMade' /\ GM!BornWhole'
    BY <1>0, <2>1, <2>2 DEF GM!BeingMade, GM!BornWhole, GM!TypeOK, GM!Unborn
  <2>5. GM!Awaited'
    BY <1>0, <2>1, <2>2 DEF GM!Awaited, GM!TypeOK
  <2>. QED BY <2>3, <2>4, <2>5 DEF GM!GroupInv
<1>10. CASE UNCHANGED GM!vars
  BY <1>0, <1>10 DEF GM!vars, GM!GroupInv, GM!TypeOK, GM!BeingMade, GM!BornWhole, GM!Unborn, GM!Awaited
<1>. QED BY <1>1, <1>2, <1>3, <1>4, <1>5, <1>6, <1>7, <1>8, <1>9, <1>10 DEF GM!Next

LEMMA AcctInit == ASSUME CA!Init PROVE CA!AcctInv
BY DEF CA!Init, CA!AcctInv, CA!BeingMade, CA!AllOrNothing

(* cpuacct_create() adds the pieces in order, and takes all of them back.  *)
LEMMA AcctStep == ASSUME CA!AcctInv, [CA!Next]_CA!vars PROVE CA!AcctInv'
<1>. USE DEF CA!AcctInv, CA!BeingMade, CA!AllOrNothing
<1>1. ASSUME NEW g \in Groups, CA!cpuacct_create(g)
      PROVE  CA!AcctInv'
  BY <1>1 DEF CA!cpuacct_create
<1>2. CASE CA!Allocate
  <2>. DEFINE g == x3.group
              n == x3.next
  <2>1. /\ g \in Groups \ x1 /\ n \in 1..4 /\ x3 # None /\ x2[g] = {CA!Steps[i] : i \in 1..(n - 1)}
        /\ x2 \in [Groups -> SUBSET CA!Range(CA!Steps)]
    BY <1>2 DEF CA!Allocate
  <2>2. x2' = [x2 EXCEPT ![g] = @ \cup {CA!Steps[n]}]
    BY <1>2 DEF CA!Allocate
  <2>3. x2'[g] = {CA!Steps[i] : i \in 1..n}
    BY <2>1, <2>2
  <2>4. CA!Range(CA!Steps) = {"cpuacct", "cpuusage", "user", "system"}
    BY DEF CA!Range, CA!Steps
  <2>5. CA!Steps[n] \in CA!Range(CA!Steps)
    BY <2>1, <2>4 DEF CA!Steps
  <2>6. x2' \in [Groups -> SUBSET CA!Range(CA!Steps)]
    BY <2>1, <2>2, <2>5
  <2>7. CASE n = 4
    <3>1. x2'[g] = {"cpuacct", "cpuusage", "user", "system"}
      BY <2>3, <2>7 DEF CA!Steps
    <3>2. x3' = None /\ x1' = x1 \cup {g}
      BY <1>2, <2>7 DEF CA!Allocate
    <3>. QED BY <2>1, <2>2, <2>6, <3>1, <3>2
  <2>8. CASE n # 4
    <3>1. x3' = [x3 EXCEPT !.next = n + 1] /\ x1' = x1
      BY <1>2, <2>8 DEF CA!Allocate
    <3>2. x3' \in [group : Groups \ x1, next : 1..4] /\ x3'.group = g /\ x3'.next = n + 1
      BY <1>2, <2>1, <2>8, <3>1 DEF CA!Allocate
    <3>3. x3' # None
      BY <3>2, GroupsAssumption
    <3>4. x2'[g] = {CA!Steps[i] : i \in 1..(x3'.next - 1)}
      BY <2>1, <2>3, <3>2
    <3>. QED BY <2>1, <2>2, <2>6, <3>1, <3>2, <3>3, <3>4
  <2>. QED BY <2>7, <2>8
<1>3. CASE CA!AllocFails
  BY <1>3 DEF CA!AllocFails
<1>4. ASSUME NEW g \in Groups, CA!cpuacct_destroy(g)
      PROVE  CA!AcctInv'
  BY <1>4 DEF CA!cpuacct_destroy
<1>5. CASE UNCHANGED <<x1, x2, x3>>
  BY <1>5
<1>. QED BY <1>1, <1>2, <1>3, <1>4, <1>5 DEF CA!Next, CA!vars, CA!cpuusage_read, CA!cpuusage_write,
         CA!ChargeLow, CA!ChargeHigh, CA!BeginCharge, CA!cpuacct_cpuusage_read, CA!cpuacct_cpuusage_write, CA!Return

(* sched_create_group(), sched_destroy_group(), cpuacct_create(): a group  *)
(* that can be found, or is still held, has all its pieces; a cpuacct      *)
(* group has all or none.                                                  *)
THEOREM GroupsWholeHolds == KernelSpec => []GroupsWhole
<1>. DEFINE I == (part = "GroupMemory" => GM!GroupInv) /\ (part = "CpuAcct" => CA!AcctInv)
<1>1. KernelInit => I
  BY PartStarts, GroupInit, AcctInit
<1>2. I /\ [KernelNext]_<<vars, part, slots>> => I'
  BY PartMoves, GroupStep, AcctStep
<1>3. I => GroupsWhole
  <2>1. ASSUME GM!GroupInv PROVE GM!WalkersFindGroups
    BY <2>1 DEF GM!GroupInv, GM!WalkersFindGroups, GM!Awaited, GM!BornWhole, GM!Unborn, GM!Whole
  <2>. QED BY <2>1 DEF GroupsWhole, CA!AcctInv
<1>. QED BY <1>1, <1>2, <1>3, PTL DEF KernelSpec

-----------------------------------------------------------------------------
(* A sum over a finite set is counted: as many units for each member as it *)
(* adds, none for a member that is negative.                               *)
Units(f, S) == UNION {{c} \X (1..f[c]) : c \in S}
Positive(n) == IF n > 0 THEN n ELSE 0

LEMMA UnitsFinite ==
  ASSUME NEW S, IsFiniteSet(S), NEW f, \A c \in S : f[c] \in Int
  PROVE  IsFiniteSet(Units(f, S)) /\ Cardinality(Units(f, S)) \in Nat
<1>1. ASSUME NEW c \in S PROVE IsFiniteSet({c} \X (1..f[c]))
  <2>1. f[c] \in Int
    OBVIOUS
  <2>2. IsFiniteSet({c})
    BY FS_Singleton
  <2>3. \A n \in Int : IsFiniteSet(1..n)
    BY FS_Interval
  <2>. QED BY <2>1, <2>2, <2>3, FS_Product
<1>. DEFINE g == [c \in S |-> {c} \X (1..f[c])]
<1>2. g \in Surjection(S, {g[c] : c \in S})
  BY DEF Surjection
<1>3. IsFiniteSet({g[c] : c \in S})
  BY <1>2, FS_Surjection
<1>4. IsFiniteSet({{c} \X (1..f[c]) : c \in S})
  BY <1>3
<1>. QED BY <1>1, <1>4, FS_UNION, FS_CardinalityType DEF Units

LEMMA UnitsSame ==
  ASSUME NEW S, NEW f, NEW g, \A c \in S : g[c] = f[c]
  PROVE  Units(g, S) = Units(f, S)
BY DEF Units

LEMMA UnitsNone ==
  ASSUME NEW S, NEW f, \A c \in S : f[c] = 0
  PROVE  Cardinality(Units(f, S)) = 0
<1>1. 1..0 = {}
  OBVIOUS
<1>2. Units(f, S) = {}
  BY <1>1 DEF Units
<1>. QED BY <1>2, FS_EmptySet

(* The units of one member, and the rest.                                  *)
LEMMA UnitsSplit ==
  ASSUME NEW S, IsFiniteSet(S), NEW f, \A c \in S : f[c] \in Int, NEW c \in S
  PROVE  /\ Cardinality(Units(f, S)) = Cardinality(Units(f, S \ {c})) + Positive(f[c])
         /\ Cardinality(Units(f, S)) \in Nat /\ Cardinality(Units(f, S \ {c})) \in Nat
<1>. DEFINE One  == {c} \X (1..f[c])
            Rest == Units(f, S \ {c})
<1>1. IsFiniteSet(S \ {c})
  BY FS_RemoveElement
<1>2. IsFiniteSet(Rest) /\ Cardinality(Rest) \in Nat
  BY <1>1, UnitsFinite
<1>3. IsFiniteSet({c}) /\ Cardinality({c}) = 1
  BY FS_Singleton
<1>4. f[c] \in Int
  OBVIOUS
<1>5. IsFiniteSet(1..f[c]) /\ Cardinality(1..f[c]) = (IF 1 > f[c] THEN 0 ELSE f[c] - 1 + 1)
  BY <1>4, FS_Interval
<1>6. Cardinality(1..f[c]) = Positive(f[c]) /\ Positive(f[c]) \in Nat
  BY <1>4, <1>5 DEF Positive
<1>7. IsFiniteSet(One) /\ Cardinality(One) = Positive(f[c])
  <2>1. IsFiniteSet(One) /\ Cardinality(One) = Cardinality({c}) * Cardinality(1..f[c])
    BY <1>3, <1>5, FS_Product
  <2>. QED BY <1>3, <1>6, <2>1
<1>8. Units(f, S) = Rest \cup One
  BY DEF Units
<1>9. Rest \cap One = {}
  BY DEF Units
<1>10. Cardinality(Rest \cup One) = Cardinality(Rest) + Cardinality(One) - Cardinality(Rest \cap One)
  BY <1>2, <1>7, FS_Union
<1>11. Cardinality(Rest \cap One) = 0
  BY <1>9, FS_EmptySet
<1>. HIDE DEF One, Rest
<1>12. Cardinality(Units(f, S)) = Cardinality(Rest) + Positive(f[c])
  BY <1>2, <1>6, <1>7, <1>8, <1>10, <1>11
<1>. QED BY <1>2, <1>6, <1>12 DEF Rest

(* A sum changes as the only member that changes.                          *)
LEMMA UnitsChange ==
  ASSUME NEW S, IsFiniteSet(S), NEW f, \A c \in S : f[c] \in Int, NEW c \in S,
         NEW g, g[c] \in Int, \A d \in S \ {c} : g[d] = f[d]
  PROVE  /\ Cardinality(Units(g, S)) = Cardinality(Units(f, S)) + Positive(g[c]) - Positive(f[c])
         /\ Cardinality(Units(f, S)) \in Nat
<1>1. \A d \in S : g[d] \in Int
  OBVIOUS
<1>2. Units(g, S \ {c}) = Units(f, S \ {c})
  BY UnitsSame
<1>3. /\ Cardinality(Units(g, S)) = Cardinality(Units(g, S \ {c})) + Positive(g[c])
      /\ Cardinality(Units(g, S \ {c})) \in Nat
  BY <1>1, UnitsSplit
<1>4. /\ Cardinality(Units(f, S)) = Cardinality(Units(f, S \ {c})) + Positive(f[c])
      /\ Cardinality(Units(f, S)) \in Nat
  BY UnitsSplit
<1>5. Positive(f[c]) \in Nat /\ Positive(g[c]) \in Nat
  BY DEF Positive
<1>. QED BY <1>2, <1>3, <1>4, <1>5

LEMMA UnitsOfOne ==
  ASSUME NEW S, IsFiniteSet(S), NEW f, \A c \in S : f[c] \in Nat, NEW c \in S
  PROVE  f[c] <= Cardinality(Units(f, S))
<1>1. \A d \in S : f[d] \in Int
  OBVIOUS
<1>2. /\ Cardinality(Units(f, S)) = Cardinality(Units(f, S \ {c})) + Positive(f[c])
      /\ Cardinality(Units(f, S \ {c})) \in Nat
  BY <1>1, UnitsSplit
<1>3. Positive(f[c]) = f[c] /\ f[c] \in Nat
  BY DEF Positive
<1>. QED BY <1>2, <1>3

-----------------------------------------------------------------------------
LEMMA PartOfWhole ==
  ASSUME NEW a \in Nat, NEW w \in Nat, NEW r \in Nat, w <= r, r > 0
  PROVE  (a * w) \div r \in Nat /\ (a * w) \div r <= a
<1>1. a * w \in Nat /\ a * w <= a * r
  OBVIOUS
<1>2. PICK n \in Nat : n = a * w
  BY <1>1
<1>3. n \div r \in Nat /\ r * (n \div r) <= n
  OBVIOUS
<1>4. PICK q \in Nat : q = n \div r
  BY <1>3
<1>5. r * q <= r * a
  BY <1>1, <1>2, <1>3, <1>4
<1>6. q <= a
  BY <1>5
<1>. QED BY <1>2, <1>4, <1>6

LEMMA SharesSum ==
  ASSUME NEW S \in SUBSET CPUs, NEW f, \A c \in S : f[c] \in Nat
  PROVE  SH!Sum(f, S) \in Nat /\ \A c \in S : f[c] <= SH!Sum(f, S)
<1>1. SH!Sum(f, S) = Cardinality(Units(f, S))
  BY DEF SH!Sum, Units, SH!Cardinality, Cardinality
<1>2. IsFiniteSet(S)
  BY ProcessorsAssumption, FS_Subset
<1>. QED BY <1>1, <1>2, UnitsFinite, UnitsOfOne

LEMMA SharesInit == ASSUME SH!Init PROVE SH!SharesInv
BY SharesAssumption DEF SH!Init, SH!SharesInv, SH!TypeOK, SH!ToReset, SH!Spread, SH!ReadIsTrue, SH!Done, SH!Idle

LEMMA SharesStep == ASSUME SH!SharesInv, [SH!Next]_SH!vars PROVE SH!SharesInv'
<1>0. SH!TypeOK /\ (x2 => x3 = SH!Done) /\ SH!Spread /\ SH!ReadIsTrue
  BY DEF SH!SharesInv
<1>1. ASSUME NEW c \in CPUs, NEW l \in GroupLoads, SH!LoadChanges(c, l)
      PROVE  SH!SharesInv'
  BY <1>0, <1>1, SharesAssumption DEF SH!LoadChanges, SH!SharesInv, SH!TypeOK, SH!ToReset, SH!Spread, SH!ReadIsTrue
<1>2. ASSUME NEW me \in CPUs, NEW sd \in SH!Domain, SH!tg_shares_up(me, sd)
      PROVE  SH!SharesInv'
  <2>. DEFINE f == [c \in sd |-> SH!Pretend(x4[c])]
              usd == [c \in sd |-> x4[c]]
              given == SH!SdShares(sd, SH!Sum(x5, sd))
              r == [at |-> "up", todo |-> sd, usd |-> usd, rq_weight |-> SH!Sum(f, sd), shares |-> given]
  <2>1. sd \in SUBSET CPUs
    BY DEF SH!Domain
  <2>2. x7' = [x7 EXCEPT ![me] = r]
    BY <1>2 DEF SH!tg_shares_up
  <2>3. /\ x4 \in [CPUs -> Nat] /\ x5 \in [CPUs -> Nat] /\ x1 \in Nat
    BY <1>0, SharesAssumption DEF SH!TypeOK
  <2>4. \A c \in sd : f[c] \in Nat /\ f[c] = SH!Pretend(usd[c])
    BY <2>1, <2>3, SharesAssumption DEF SH!Pretend
  <2>5. SH!Sum(f, sd) \in Nat /\ \A c \in sd : f[c] <= SH!Sum(f, sd)
    BY <2>1, <2>4, SharesSum
  <2>6. SH!Sum(x5, sd) \in Nat
    BY <2>1, <2>3, SharesSum
  <2>7. given \in Nat /\ given <= x1
    BY <2>3, <2>6 DEF SH!SdShares
  <2>8. usd \in [sd -> Nat]
    BY <2>1, <2>3
  <2>9. r \in [at : {"up"}, todo : SUBSET sd, usd : [sd -> Nat], rq_weight : Nat, shares : Nat]
    BY <2>5, <2>7, <2>8
  <2>10. x3 = SH!Done /\ UNCHANGED <<x1, x2, x3, x4, x5, x6>>
    BY <1>0, <1>2 DEF SH!tg_shares_up
  <2>11. SH!TypeOK' /\ SH!Spread'
    BY <1>0, <2>1, <2>2, <2>9, <2>10 DEF SH!TypeOK, SH!Spread, SH!ToReset
  <2>12. \A d \in r.todo : SH!Pretend(r.usd[d]) <= r.rq_weight
    BY <2>4, <2>5
  <2>13. SH!ReadIsTrue'
    BY <1>0, <2>2, <2>7, <2>10, <2>12 DEF SH!ReadIsTrue, SH!TypeOK
  <2>. QED BY <1>0, <2>10, <2>11, <2>13 DEF SH!SharesInv
<1>3. ASSUME NEW me \in CPUs, SH!update_group_shares_cpu(me)
      PROVE  SH!SharesInv'
  <2>1. x7[me] # SH!Idle
    BY <1>3, SMTT(30) DEF SH!update_group_shares_cpu, SH!Idle
  <2>2. PICK sd \in SUBSET CPUs :
          x7[me] \in [at : {"up"}, todo : SUBSET sd, usd : [sd -> Nat], rq_weight : Nat, shares : Nat]
    BY <1>0, <2>1 DEF SH!TypeOK
  <2>. DEFINE todo == x7[me].todo
  <2>3. PICK c : c = CHOOSE e \in todo : \A d \in todo : e <= d
    OBVIOUS
  <2>4. c \in todo
    BY <1>3, <2>2, <2>3, LeastNumber, ProcessorsAssumption DEF SH!update_group_shares_cpu
  <2>5. PICK w : w = SH!Pretend(x7[me].usd[c])
    OBVIOUS
  <2>6. w \in Nat /\ w > 0 /\ w <= x7[me].rq_weight
    BY <1>0, <2>1, <2>2, <2>4, <2>5, SharesAssumption DEF SH!Pretend, SH!ReadIsTrue
  <2>7. PICK q : q = (x7[me].shares * w) \div x7[me].rq_weight
    OBVIOUS
  <2>8. q \in Nat /\ q <= x7[me].shares
    BY <2>2, <2>6, <2>7, PartOfWhole
  <2>9. x1 \in MIN_SHARES..MAX_SHARES /\ x7[me].shares <= x1
    BY <1>0, <2>1 DEF SH!TypeOK, SH!ReadIsTrue
  <2>10. PICK s : s = SH!clamp(q)
    OBVIOUS
  <2>11. s \in MIN_SHARES..x1 /\ s \in Nat
    BY <2>2, <2>8, <2>9, <2>10, SharesAssumption DEF SH!clamp
  <2>12. /\ x5' = x5 \/ x5' = [x5 EXCEPT ![c] = 0] \/ x5' = [x5 EXCEPT ![c] = s]
         /\ x6' = x6 \/ x6' = [x6 EXCEPT ![c] = s]
    BY <1>3, <2>3, <2>5, <2>7, <2>10 DEF SH!update_group_shares_cpu
  <2>13. x7' = [x7 EXCEPT ![me] = [x7[me] EXCEPT !.todo = todo \ {c}]] /\ UNCHANGED <<x1, x2, x3, x4>>
    BY <1>3, <2>3 DEF SH!update_group_shares_cpu
  <2>14. c \in CPUs /\ x5 \in [CPUs -> Nat] /\ x6 \in [CPUs -> Nat] /\ x1 \in Nat
    BY <1>0, <2>2, <2>4, <2>9, SharesAssumption DEF SH!TypeOK
  <2>15. x5' \in [CPUs -> Nat] /\ x6' \in [CPUs -> Nat]
    BY <2>11, <2>12, <2>14
  <2>16. /\ x5'[c] = x5[c] \/ x5'[c] <= x1
         /\ x6'[c] = x6[c] \/ x6'[c] \in MIN_SHARES..x1
         /\ \A d \in CPUs \ {c} : x5'[d] = x5[d] /\ x6'[d] = x6[d]
    BY <2>11, <2>12, <2>14
  <2>17. SH!Spread'
    BY <1>0, <2>13, <2>14, <2>16 DEF SH!Spread, SH!ToReset
  <2>18. PICK r : r = [x7[me] EXCEPT !.todo = todo \ {c}]
    OBVIOUS
  <2>19. /\ r \in [at : {"up"}, todo : SUBSET sd, usd : [sd -> Nat], rq_weight : Nat, shares : Nat]
         /\ r.todo \subseteq todo /\ r.usd = x7[me].usd /\ r.rq_weight = x7[me].rq_weight /\ r.shares = x7[me].shares
    BY <2>2, <2>18
  <2>20. DOMAIN x7' = CPUs /\ x7'[me] = r /\ \A d \in CPUs \ {me} : x7'[d] = x7[d]
    BY <1>0, <2>13, <2>18 DEF SH!TypeOK
  <2>21. SH!TypeOK'
    BY <1>0, <2>13, <2>15, <2>19, <2>20 DEF SH!TypeOK
  <2>22. SH!ReadIsTrue'
    BY <1>0, <2>1, <2>13, <2>19, <2>20 DEF SH!ReadIsTrue
  <2>. QED BY <1>0, <2>13, <2>17, <2>21, <2>22 DEF SH!SharesInv
<1>4. ASSUME NEW me \in CPUs, SH!IrqRestore(me)
      PROVE  SH!SharesInv'
  <2>1. DOMAIN x7' = CPUs /\ x7'[me] = SH!Idle /\ (\A d \in CPUs \ {me} : x7'[d] = x7[d]) /\ UNCHANGED <<x1, x2, x4, x5, x6>>
    BY <1>0, <1>4 DEF SH!IrqRestore, SH!TypeOK
  <2>2. CASE x3.at = "wait"
    <3>1. x3 \in [at : {"wait"}, new : MIN_SHARES..MAX_SHARES, for : SUBSET CPUs]
      BY <1>0, <2>2 DEF SH!TypeOK, SH!Done
    <3>2. x3' = [x3 EXCEPT !.for = @ \ {me}]
      BY <1>4, <2>2 DEF SH!IrqRestore
    <3>3. /\ x3' \in [at : {"wait"}, new : MIN_SHARES..MAX_SHARES, for : SUBSET CPUs]
          /\ x3'.for = x3.for \ {me}
      BY <3>1, <3>2
    <3>4. x3 # SH!Done
      BY <2>2 DEF SH!Done
    <3>5. SH!TypeOK'
      BY <1>0, <2>1, <3>3 DEF SH!TypeOK
    <3>. QED BY <1>0, <2>1, <3>1, <3>3, <3>4, <3>5 DEF SH!SharesInv, SH!Spread, SH!ToReset, SH!ReadIsTrue
  <2>3. CASE x3.at # "wait"
    <3>1. x3' = x3
      BY <1>4, <2>3 DEF SH!IrqRestore
    <3>2. SH!TypeOK'
      BY <1>0, <2>1, <3>1 DEF SH!TypeOK
    <3>. QED BY <1>0, <2>1, <3>1, <3>2 DEF SH!SharesInv, SH!Spread, SH!ToReset, SH!ReadIsTrue
  <2>. QED BY <2>2, <2>3
<1>5. ASSUME NEW c \in CPUs, SH!set_se_shares(c)
      PROVE  SH!SharesInv'
  <2>1. x3 \in [at : {"set"}, todo : SUBSET CPUs] /\ x3 # SH!Done /\ ~x2
    BY <1>0, <1>5 DEF SH!set_se_shares, SH!TypeOK, SH!Done
  <2>2. x3' = [x3 EXCEPT !.todo = @ \ {c}] /\ UNCHANGED <<x1, x2, x4, x7>>
    BY <1>5 DEF SH!set_se_shares
  <2>3. x3' \in [at : {"set"}, todo : SUBSET CPUs] /\ x3'.todo = x3.todo \ {c}
    BY <2>1, <2>2
  <2>4. /\ x1 \in MIN_SHARES..MAX_SHARES /\ x1 \in Nat
        /\ x5 \in [CPUs -> Nat] /\ x6 \in [CPUs -> Nat]
    BY <1>0, SharesAssumption DEF SH!TypeOK
  <2>5. /\ x5' \in [CPUs -> Nat] /\ x6' \in [CPUs -> Nat]
        /\ x5'[c] = 0 /\ x6'[c] = x1 /\ \A d \in CPUs \ {c} : x5'[d] = x5[d] /\ x6'[d] = x6[d]
    BY <1>5, <2>4 DEF SH!set_se_shares
  <2>6. SH!TypeOK'
    BY <1>0, <2>2, <2>3, <2>5 DEF SH!TypeOK
  <2>7. x1 \in MIN_SHARES..x1 /\ 0 <= x1
    BY <2>4, SharesAssumption
  <2>8. SH!Spread'
    BY <1>0, <2>1, <2>2, <2>3, <2>5, <2>7 DEF SH!Spread, SH!ToReset
  <2>9. SH!ReadIsTrue'
    BY <1>0, <2>1, <2>2 DEF SH!ReadIsTrue
  <2>. QED BY <2>1, <2>2, <2>6, <2>8, <2>9 DEF SH!SharesInv
<1>6. ASSUME NEW new \in Settings, SH!Unlist(new)
      PROVE  SH!SharesInv'
  <2>1. PICK s : s = SH!clamp(new)
    OBVIOUS
  <2>2. s \in MIN_SHARES..MAX_SHARES
    BY <2>1, SharesAssumption DEF SH!clamp
  <2>3. /\ x3' = [at |-> "wait", new |-> s, for |-> {c \in CPUs : x7[c] # SH!Idle}]
        /\ x2' = FALSE /\ x3 = SH!Done /\ UNCHANGED <<x1, x4, x5, x6, x7>>
    BY <1>6, <2>1 DEF SH!Unlist
  <2>4. SH!TypeOK'
    BY <1>0, <2>2, <2>3 DEF SH!TypeOK
  <2>. QED BY <1>0, <2>3, <2>4 DEF SH!SharesInv, SH!Spread, SH!ToReset, SH!ReadIsTrue, SH!Done
<1>7. CASE SH!SetShares
  <2>1. x3 \in [at : {"wait"}, new : MIN_SHARES..MAX_SHARES, for : SUBSET CPUs] /\ x3 # SH!Done /\ x3.for = {}
    BY <1>0, <1>7 DEF SH!SetShares, SH!TypeOK, SH!Done
  <2>2. x1' = x3.new /\ x3' = [at |-> "set", todo |-> CPUs] /\ UNCHANGED <<x2, x4, x5, x6, x7>>
    BY <1>7 DEF SH!SetShares
  <2>3. SH!TypeOK'
    BY <1>0, <2>1, <2>2 DEF SH!TypeOK
  <2>4. \A c \in CPUs : x7[c] = SH!Idle
    BY <1>0, <2>1 DEF SH!ReadIsTrue
  <2>. QED BY <1>0, <2>1, <2>2, <2>3, <2>4 DEF SH!SharesInv, SH!Spread, SH!ToReset, SH!ReadIsTrue
<1>8. CASE SH!List
  <2>1. x3.at = "set" /\ x3.todo = {} /\ x2' = TRUE /\ x3' = SH!Done /\ UNCHANGED <<x1, x4, x5, x6, x7>>
    BY <1>8 DEF SH!List
  <2>2. SH!TypeOK'
    BY <1>0, <2>1 DEF SH!TypeOK
  <2>. QED BY <1>0, <2>1, <2>2 DEF SH!SharesInv, SH!Spread, SH!ToReset, SH!ReadIsTrue, SH!Done
<1>9. CASE UNCHANGED SH!vars
  BY <1>0, <1>9 DEF SH!vars, SH!SharesInv, SH!TypeOK, SH!Spread, SH!ToReset, SH!ReadIsTrue
<1>. QED BY <1>1, <1>2, <1>3, <1>4, <1>5, <1>6, <1>7, <1>8, <1>9 DEF SH!Next

(* tg_shares_up(), sched_group_set_shares(): while a group is balanced no  *)
(* processor has more of it than the group has, for any processors, loads  *)
(* and shares: synchronize_sched() is enough of a lock.                    *)
THEOREM SharesWithinGroupHolds == KernelSpec => []SharesWithinGroup
<1>. DEFINE I == part = "Shares" => SH!SharesInv
<1>1. KernelInit => I
  BY PartStarts, SharesInit
<1>2. I /\ [KernelNext]_<<vars, part, slots>> => I'
  BY PartMoves, SharesStep
<1>3. I => SharesWithinGroup
  BY DEF SharesWithinGroup, SH!SharesWithinGroup, SH!SharesInv, SH!Spread, SH!ToReset, SH!Done
<1>. QED BY <1>1, <1>2, <1>3, PTL DEF KernelSpec
-----------------------------------------------------------------------------
(* calc_load_account_active() on each processor, and calc_global_load().   *)
LEMMA DriftChange ==
  ASSUME NEW f, NEW g, NEW c \in CPUs, \A d \in CPUs : f[d] \in Int,
         g[c] \in Int, \A d \in CPUs \ {c} : g[d] = f[d]
  PROVE  LA!Sum(g, CPUs) = LA!Sum(f, CPUs) + g[c] - f[c] /\ LA!Sum(f, CPUs) \in Int
<1>. DEFINE minus(h) == [d \in CPUs |-> -h[d]]
<1>1. ASSUME NEW h
      PROVE  LA!Sum(h, CPUs) = Cardinality(Units(h, CPUs)) - Cardinality(Units(minus(h), CPUs))
  <2>1. Units(minus(h), CPUs) = UNION {{d} \X (1..(-h[d])) : d \in CPUs}
    BY DEF Units
  <2>. QED BY <2>1 DEF LA!Sum, Units, LA!Cardinality, Cardinality
<1>2. IsFiniteSet(CPUs)
  BY ProcessorsAssumption
<1>3. /\ Cardinality(Units(g, CPUs)) = Cardinality(Units(f, CPUs)) + Positive(g[c]) - Positive(f[c])
      /\ Cardinality(Units(f, CPUs)) \in Nat
  BY <1>2, UnitsChange
<1>4. /\ \A d \in CPUs : minus(f)[d] \in Int
      /\ minus(g)[c] \in Int /\ \A d \in CPUs \ {c} : minus(g)[d] = minus(f)[d]
  OBVIOUS
<1>5. /\ Cardinality(Units(minus(g), CPUs)) = Cardinality(Units(minus(f), CPUs)) + Positive(minus(g)[c]) - Positive(minus(f)[c])
      /\ Cardinality(Units(minus(f), CPUs)) \in Nat
  <2>. HIDE DEF minus
  <2>. QED BY <1>2, <1>4, UnitsChange
<1>6. \A n \in Int : Positive(n) - Positive(-n) = n /\ Positive(n) \in Nat /\ Positive(-n) \in Nat
  BY DEF Positive
<1>7. minus(g)[c] = -g[c] /\ minus(f)[c] = -f[c] /\ g[c] \in Int /\ f[c] \in Int
  OBVIOUS
<1>. HIDE DEF minus
<1>8. /\ Positive(g[c]) - Positive(minus(g)[c]) = g[c] /\ Positive(f[c]) - Positive(minus(f)[c]) = f[c]
      /\ {Positive(g[c]), Positive(minus(g)[c]), Positive(f[c]), Positive(minus(f)[c])} \subseteq Nat
  BY <1>6, <1>7
<1>. QED BY <1>1, <1>3, <1>5, <1>7, <1>8

LEMMA DriftSame ==
  ASSUME NEW f, NEW g, \A d \in CPUs : f[d] \in Int /\ g[d] = f[d]
  PROVE  LA!Sum(g, CPUs) = LA!Sum(f, CPUs) /\ LA!Sum(f, CPUs) \in Int
<1>1. PICK c \in CPUs : TRUE
  BY ProcessorsAssumption
<1>2. f[c] \in Int /\ g[c] = f[c] /\ \A d \in CPUs \ {c} : g[d] = f[d]
  OBVIOUS
<1>3. LA!Sum(g, CPUs) = LA!Sum(f, CPUs) + g[c] - f[c] /\ LA!Sum(f, CPUs) \in Int
  BY <1>2, DriftChange
<1>. QED BY <1>2, <1>3

LEMMA DriftNone ==
  ASSUME NEW f, \A d \in CPUs : f[d] = 0
  PROVE  LA!Sum(f, CPUs) = 0
<1>1. \A d \in CPUs : -f[d] = 0
  OBVIOUS
<1>2. 1..0 = {}
  OBVIOUS
<1>3. UNION {{c} \X (1..f[c]) : c \in CPUs} = {} /\ UNION {{c} \X (1..(-f[c])) : c \in CPUs} = {}
  BY <1>1, <1>2
<1>4. LA!Cardinality({}) = 0
  BY FS_EmptySet DEF LA!Cardinality, Cardinality
<1>5. /\ LA!Cardinality(UNION {{c} \X (1..f[c]) : c \in CPUs}) = 0
      /\ LA!Cardinality(UNION {{c} \X (1..(-f[c])) : c \in CPUs}) = 0
  BY <1>3, <1>4, Zenon
<1>6. LA!Sum(f, CPUs) = LA!Cardinality(UNION {{c} \X (1..f[c]) : c \in CPUs})
                          - LA!Cardinality(UNION {{c} \X (1..(-f[c])) : c \in CPUs})
  BY Zenon DEF LA!Sum
<1>7. PICK a, b : /\ a = LA!Cardinality(UNION {{c} \X (1..f[c]) : c \in CPUs})
                  /\ b = LA!Cardinality(UNION {{c} \X (1..(-f[c])) : c \in CPUs})
  BY Zenon
<1>8. a = 0 /\ b = 0 /\ LA!Sum(f, CPUs) = a - b
  BY <1>5, <1>6, <1>7, Zenon
<1>. QED BY <1>8

(* One task at another place: which counts are affected.                   *)
Places == {"sleeping", "blocked", "waking", "running"} \X CPUs
On(p, c) == {s \in LoadTasks : p[s] = <<"running", c>>}
Counting(p) == {s \in LoadTasks : p[s][1] \in {"running", "blocked"}}

OnCount(p) == [c \in CPUs |-> Cardinality(On(p, c))]
CountOf(p) == Cardinality(Counting(p))

LEMMA TaskMoves ==
  ASSUME NEW p \in [LoadTasks -> Places], NEW q \in [LoadTasks -> Places],
         NEW t \in LoadTasks, \A s \in LoadTasks \ {t} : q[s] = p[s],
         NEW k, NEW b, p[t] = <<k, b>>, NEW l, NEW c, q[t] = <<l, c>>
  PROVE  /\ \A d \in CPUs :
              OnCount(q)[d] = OnCount(p)[d] + (IF l = "running" /\ d = c THEN 1 ELSE 0)
                                            - (IF k = "running" /\ d = b THEN 1 ELSE 0)
         /\ CountOf(q) = CountOf(p) + (IF l \in {"running", "blocked"} THEN 1 ELSE 0)
                                    - (IF k \in {"running", "blocked"} THEN 1 ELSE 0)
<1>1. IsFiniteSet(LoadTasks)
  BY LoadAssumption
<1>2. ASSUME NEW d \in CPUs
      PROVE  /\ Cardinality(On(p, d)) \in Nat
             /\ Cardinality(On(q, d)) = Cardinality(On(p, d)) + (IF l = "running" /\ d = c THEN 1 ELSE 0)
                                                              - (IF k = "running" /\ d = b THEN 1 ELSE 0)
  <2>1. /\ On(p, d) \in SUBSET LoadTasks /\ On(q, d) \in SUBSET LoadTasks
        /\ \A s \in LoadTasks \ {t} : s \in On(p, d) <=> s \in On(q, d)
        /\ t \in On(p, d) <=> (k = "running" /\ d = b)
        /\ t \in On(q, d) <=> (l = "running" /\ d = c)
    BY DEF On
  <2>2. /\ (t \in On(p, d) <=> t \in On(q, d)) => Cardinality(On(q, d)) = Cardinality(On(p, d))
        /\ t \notin On(p, d) /\ t \in On(q, d) => Cardinality(On(q, d)) = Cardinality(On(p, d)) + 1
        /\ t \in On(p, d) /\ t \notin On(q, d) => Cardinality(On(q, d)) = Cardinality(On(p, d)) - 1
        /\ Cardinality(On(p, d)) \in Nat
    BY <1>1, <2>1, CountOne
  <2>. QED BY <2>1, <2>2
<1>3. /\ Counting(p) \in SUBSET LoadTasks /\ Counting(q) \in SUBSET LoadTasks
      /\ \A s \in LoadTasks \ {t} : s \in Counting(p) <=> s \in Counting(q)
      /\ t \in Counting(p) <=> k \in {"running", "blocked"}
      /\ t \in Counting(q) <=> l \in {"running", "blocked"}
  BY DEF Counting
<1>4. /\ (t \in Counting(p) <=> t \in Counting(q)) => Cardinality(Counting(q)) = Cardinality(Counting(p))
      /\ t \notin Counting(p) /\ t \in Counting(q) => Cardinality(Counting(q)) = Cardinality(Counting(p)) + 1
      /\ t \in Counting(p) /\ t \notin Counting(q) => Cardinality(Counting(q)) = Cardinality(Counting(p)) - 1
      /\ Cardinality(Counting(p)) \in Nat
  BY <1>1, <1>3, CountOne
<1>5. CountOf(q) = CountOf(p) + (IF l \in {"running", "blocked"} THEN 1 ELSE 0)
                              - (IF k \in {"running", "blocked"} THEN 1 ELSE 0)
  BY <1>3, <1>4 DEF CountOf
<1>. QED BY <1>2, <1>5 DEF OnCount

(* What LoadInv says, of the counts at one time and at the next.           *)
DriftOf(p, uninterruptible, added) ==
  [c \in CPUs |-> added[c] - (OnCount(p)[c] + uninterruptible[c])]

LEMMA LoadSays ==
  LA!LoadInv <=> /\ LA!TypeOK
                 /\ x6 = CountOf(x3) + LA!Sum(DriftOf(x3, x4, x5), CPUs)
<1>1. LA!Drift = DriftOf(x3, x4, x5)
  BY DEF LA!Drift, LA!nr_active, LA!Running, DriftOf, OnCount, On, LA!Cardinality, Cardinality
<1>2. LA!Cardinality(LA!Counted) = CountOf(x3)
  BY DEF LA!Counted, CountOf, Counting, LA!Cardinality, Cardinality
<1>. QED BY <1>1, <1>2 DEF LA!LoadInv

LEMMA LoadSaysNext ==
  LA!LoadInv' <=> /\ LA!TypeOK'
                  /\ x6' = CountOf(x3') + LA!Sum(DriftOf(x3', x4', x5'), CPUs)
<1>1. LA!Drift' = DriftOf(x3', x4', x5')
  BY DEF LA!Drift, LA!nr_active, LA!Running, DriftOf, OnCount, On, LA!Cardinality, Cardinality
<1>2. LA!Cardinality(LA!Counted') = CountOf(x3')
  BY DEF LA!Counted, CountOf, Counting, LA!Cardinality, Cardinality
<1>3. LA!Sum(LA!Drift, CPUs)' = LA!Sum(LA!Drift', CPUs) /\ LA!Cardinality(LA!Counted)' = LA!Cardinality(LA!Counted')
  BY DEF LA!Sum, LA!Cardinality
<1>. QED BY <1>1, <1>2, <1>3 DEF LA!LoadInv

LEMMA PairExcept ==
  ASSUME NEW A, NEW B, NEW pair \in A \X B, NEW e
  PROVE  [pair EXCEPT ![1] = e] = <<e, pair[2]>> /\ [pair EXCEPT ![2] = e] = <<pair[1], e>>
OBVIOUS

LEMMA OnType ==
  ASSUME NEW p
  PROVE  OnCount(p) \in [CPUs -> Nat] /\ CountOf(p) \in Nat
<1>1. Counting(p) \in SUBSET LoadTasks /\ \A c : On(p, c) \in SUBSET LoadTasks
  BY DEF On, Counting
<1>2. IsFiniteSet(Counting(p)) /\ \A c : IsFiniteSet(On(p, c))
  BY <1>1, LoadAssumption, FS_Subset
<1>. QED BY <1>2, FS_CardinalityType DEF OnCount, CountOf

(* Two processors have more to add, or less, and calc_load_tasks and the   *)
(* number of tasks differ by so much more.                                 *)
LEMMA DriftStep ==
  ASSUME LA!LoadInv, LA!TypeOK', NEW b \in CPUs, NEW c \in CPUs, b # c,
         NEW m \in Int, NEW n \in Int,
         \A d \in CPUs : x5'[d] - (OnCount(x3')[d] + x4'[d])
                           = x5[d] - (OnCount(x3)[d] + x4[d])
                               + (IF d = b THEN m ELSE IF d = c THEN n ELSE 0),
         x6' - CountOf(x3') = x6 - CountOf(x3) + m + n
  PROVE  LA!LoadInv'
<1>. DEFINE f == DriftOf(x3, x4, x5)
            h == DriftOf(x3', x4', x5')
            g == [f EXCEPT ![b] = f[b] + m]
<1>1. /\ x4 \in [CPUs -> Int] /\ x5 \in [CPUs -> Int] /\ x6 \in Int
      /\ x6 = CountOf(x3) + LA!Sum(f, CPUs)
  BY LoadSays DEF LA!TypeOK
<1>2. x6' \in Int /\ CountOf(x3) \in Nat /\ CountOf(x3') \in Nat
  BY OnType DEF LA!TypeOK
<1>3. /\ f \in [CPUs -> Int]
      /\ \A d \in CPUs : h[d] = f[d] + (IF d = b THEN m ELSE IF d = c THEN n ELSE 0)
  BY <1>1, OnType DEF DriftOf
<1>. HIDE DEF f, h
<1>4. g[b] \in Int /\ g[b] = f[b] + m /\ (\A d \in CPUs \ {b} : g[d] = f[d]) /\ \A d \in CPUs : g[d] \in Int
  BY <1>3
<1>5. h[c] \in Int /\ h[c] = g[c] + n /\ \A d \in CPUs \ {c} : h[d] = g[d]
  BY <1>3, <1>4
<1>. HIDE DEF g
<1>6. LA!Sum(g, CPUs) = LA!Sum(f, CPUs) + g[b] - f[b] /\ LA!Sum(f, CPUs) \in Int
  BY <1>3, <1>4, DriftChange
<1>7. LA!Sum(h, CPUs) = LA!Sum(g, CPUs) + h[c] - g[c] /\ LA!Sum(g, CPUs) \in Int
  BY <1>4, <1>5, DriftChange
<1>8. f[b] \in Int /\ g[c] \in Int
  BY <1>3, <1>4
<1>9. LA!Sum(h, CPUs) = LA!Sum(f, CPUs) + m + n
  BY <1>4, <1>5, <1>6, <1>7, <1>8
<1>10. x6' = CountOf(x3') + LA!Sum(h, CPUs)
  BY <1>1, <1>2, <1>6, <1>9
<1>. QED BY <1>10, LoadSaysNext DEF h

LEMMA DriftStepOne ==
  ASSUME LA!LoadInv, LA!TypeOK', NEW b \in CPUs, NEW m \in Int,
         \A d \in CPUs : x5'[d] - (OnCount(x3')[d] + x4'[d])
                           = x5[d] - (OnCount(x3)[d] + x4[d]) + (IF d = b THEN m ELSE 0),
         x6' - CountOf(x3') = x6 - CountOf(x3) + m
  PROVE  LA!LoadInv'
<1>. DEFINE f == DriftOf(x3, x4, x5)
            h == DriftOf(x3', x4', x5')
<1>1. /\ x4 \in [CPUs -> Int] /\ x5 \in [CPUs -> Int] /\ x6 \in Int
      /\ x6 = CountOf(x3) + LA!Sum(f, CPUs)
  BY LoadSays DEF LA!TypeOK
<1>2. x6' \in Int /\ CountOf(x3) \in Nat /\ CountOf(x3') \in Nat
  BY OnType DEF LA!TypeOK
<1>3. /\ f \in [CPUs -> Int]
      /\ \A d \in CPUs : h[d] = f[d] + (IF d = b THEN m ELSE 0)
  BY <1>1, OnType DEF DriftOf
<1>. HIDE DEF f, h
<1>4. h[b] \in Int /\ h[b] = f[b] + m /\ (\A d \in CPUs \ {b} : h[d] = f[d]) /\ (\A d \in CPUs : f[d] \in Int) /\ f[b] \in Int
  BY <1>3
<1>5. LA!Sum(h, CPUs) = LA!Sum(f, CPUs) + h[b] - f[b] /\ LA!Sum(f, CPUs) \in Int
  BY <1>4, DriftChange
<1>6. LA!Sum(h, CPUs) = LA!Sum(f, CPUs) + m
  BY <1>4, <1>5
<1>7. x6' = CountOf(x3') + LA!Sum(h, CPUs)
  BY <1>1, <1>2, <1>5, <1>6
<1>. QED BY <1>7, LoadSaysNext DEF h

LEMMA LoadInit == ASSUME LA!Init PROVE LA!LoadInv
<1>1. LA!TypeOK
  BY DEF LA!Init, LA!TypeOK
<1>2. \A t \in LoadTasks : x3[t][1] = "sleeping"
  BY DEF LA!Init
<1>3. Counting(x3) = {} /\ \A c \in CPUs : On(x3, c) = {}
  BY <1>2 DEF Counting, On
<1>4. CountOf(x3) = 0 /\ \A c \in CPUs : OnCount(x3)[c] = 0
  BY <1>3, FS_EmptySet DEF CountOf, OnCount
<1>5. \A c \in CPUs : DriftOf(x3, x4, x5)[c] = 0
  BY <1>4 DEF DriftOf, LA!Init
<1>6. LA!Sum(DriftOf(x3, x4, x5), CPUs) = 0
  BY <1>5, DriftNone
<1>. QED BY <1>1, <1>4, <1>6, LoadSays DEF LA!Init

LEMMA LoadStep == ASSUME LA!LoadInv, [LA!Next]_LA!vars PROVE LA!LoadInv'
<1>0. /\ x1 \subseteq CPUs /\ x2 \subseteq CPUs \ x1 /\ CPUs \ Removable \subseteq x1
      /\ x3 \in [LoadTasks -> Places] /\ x4 \in [CPUs -> Int] /\ x5 \in [CPUs -> Int] /\ x6 \in Int
  BY DEF LA!LoadInv, LA!TypeOK, Places
<1>10. /\ OnCount(x3) \in [CPUs -> Nat] /\ OnCount(x3') \in [CPUs -> Nat]
       /\ CountOf(x3) \in Nat /\ CountOf(x3') \in Nat
  BY OnType
<1>1. ASSUME NEW t \in LoadTasks, NEW how \in {"sleeping", "blocked"}, LA!Sleep(t, how)
      PROVE  LA!LoadInv'
  <2>1. PICK b \in CPUs : x3[t] = <<"running", b>>
    BY <1>0, <1>1 DEF LA!Sleep, Places
  <2>2. x3' = [x3 EXCEPT ![t] = [x3[t] EXCEPT ![1] = how]] /\ UNCHANGED <<x1, x2, x5, x6>>
    BY <1>1 DEF LA!Sleep
  <2>3. [x3[t] EXCEPT ![1] = how] = <<how, b>>
    BY <1>0, <2>1, PairExcept DEF Places
  <2>4. /\ x3' \in [LoadTasks -> Places] /\ x3'[t] = <<how, b>>
        /\ \A s \in LoadTasks \ {t} : x3'[s] = x3[s]
    BY <1>0, <2>2, <2>3 DEF Places
  <2>5. /\ \A d \in CPUs :
             OnCount(x3')[d] = OnCount(x3)[d] + (IF how = "running" /\ d = b THEN 1 ELSE 0)
                                              - (IF "running" = "running" /\ d = b THEN 1 ELSE 0)
        /\ CountOf(x3') = CountOf(x3) + (IF how \in {"running", "blocked"} THEN 1 ELSE 0)
                                      - (IF "running" \in {"running", "blocked"} THEN 1 ELSE 0)
    BY <1>0, <2>1, <2>4, TaskMoves
  <2>10. UNCHANGED <<x5, x6>>
    BY <2>2
  <2>6. CASE how = "blocked"
    <3>1. x4' = [x4 EXCEPT ![b] = @ + 1]
      BY <1>1, <2>1, <2>6 DEF LA!Sleep
    <3>2. LA!TypeOK'
      BY <1>0, <2>2, <2>4, <3>1 DEF LA!TypeOK, Places
    <3>3. \A d \in CPUs : x5'[d] - (OnCount(x3')[d] + x4'[d])
                           = x5[d] - (OnCount(x3)[d] + x4[d]) + (IF d = b THEN 0 ELSE 0)
      BY <1>0, <1>10, <2>5, <2>6, <2>10, <3>1
    <3>4. x6' - CountOf(x3') = x6 - CountOf(x3) + 0
      BY <1>0, <1>10, <2>5, <2>6, <2>10
    <3>. QED BY <3>2, <3>3, <3>4, DriftStepOne
  <2>7. CASE how = "sleeping"
    <3>1. x4' = x4
      BY <1>1, <2>7 DEF LA!Sleep
    <3>2. LA!TypeOK'
      BY <1>0, <2>2, <2>4, <3>1 DEF LA!TypeOK, Places
    <3>3. \A d \in CPUs : x5'[d] - (OnCount(x3')[d] + x4'[d])
                           = x5[d] - (OnCount(x3)[d] + x4[d]) + (IF d = b THEN 1 ELSE 0)
      BY <1>0, <1>10, <2>5, <2>7, <2>10, <3>1
    <3>4. x6' - CountOf(x3') = x6 - CountOf(x3) + 1
      BY <1>0, <1>10, <2>5, <2>7, <2>10
    <3>. QED BY <3>2, <3>3, <3>4, DriftStepOne
  <2>. QED BY <2>6, <2>7
<1>2. ASSUME NEW t \in LoadTasks, LA!BeginWake(t)
      PROVE  LA!LoadInv'
  <2>1. PICK b \in CPUs, kind \in {"sleeping", "blocked"} : x3[t] = <<kind, b>>
    BY <1>0, <1>2 DEF LA!BeginWake, Places
  <2>2. x3' = [x3 EXCEPT ![t] = [x3[t] EXCEPT ![1] = "waking"]] /\ UNCHANGED <<x1, x2, x5, x6>>
    BY <1>2 DEF LA!BeginWake
  <2>3. [x3[t] EXCEPT ![1] = "waking"] = <<"waking", b>>
    BY <1>0, <2>1, PairExcept DEF Places
  <2>4. /\ x3' \in [LoadTasks -> Places] /\ x3'[t] = <<"waking", b>>
        /\ \A s \in LoadTasks \ {t} : x3'[s] = x3[s]
    BY <1>0, <2>2, <2>3 DEF Places
  <2>5. /\ \A d \in CPUs :
             OnCount(x3')[d] = OnCount(x3)[d] + (IF "waking" = "running" /\ d = b THEN 1 ELSE 0)
                                              - (IF kind = "running" /\ d = b THEN 1 ELSE 0)
        /\ CountOf(x3') = CountOf(x3) + (IF "waking" \in {"running", "blocked"} THEN 1 ELSE 0)
                                      - (IF kind \in {"running", "blocked"} THEN 1 ELSE 0)
    BY <1>0, <2>1, <2>4, TaskMoves
  <2>10. UNCHANGED <<x5, x6>>
    BY <2>2
  <2>6. CASE kind = "blocked"
    <3>1. x4' = [x4 EXCEPT ![b] = @ - 1]
      BY <1>2, <2>1, <2>6 DEF LA!BeginWake
    <3>2. LA!TypeOK'
      BY <1>0, <2>2, <2>4, <3>1 DEF LA!TypeOK, Places
    <3>3. \A d \in CPUs : x5'[d] - (OnCount(x3')[d] + x4'[d])
                           = x5[d] - (OnCount(x3)[d] + x4[d]) + (IF d = b THEN 1 ELSE 0)
      BY <1>0, <1>10, <2>5, <2>6, <2>10, <3>1
    <3>4. x6' - CountOf(x3') = x6 - CountOf(x3) + 1
      BY <1>0, <1>10, <2>5, <2>6, <2>10
    <3>. QED BY <3>2, <3>3, <3>4, DriftStepOne
  <2>7. CASE kind = "sleeping"
    <3>1. x4' = x4
      BY <1>2, <2>1, <2>7 DEF LA!BeginWake
    <3>2. LA!TypeOK'
      BY <1>0, <2>2, <2>4, <3>1 DEF LA!TypeOK, Places
    <3>3. \A d \in CPUs : x5'[d] - (OnCount(x3')[d] + x4'[d])
                           = x5[d] - (OnCount(x3)[d] + x4[d]) + (IF d = b THEN 0 ELSE 0)
      BY <1>0, <1>10, <2>5, <2>7, <2>10, <3>1
    <3>4. x6' - CountOf(x3') = x6 - CountOf(x3) + 0
      BY <1>0, <1>10, <2>5, <2>7, <2>10
    <3>. QED BY <3>2, <3>3, <3>4, DriftStepOne
  <2>. QED BY <2>6, <2>7
<1>3. ASSUME NEW t \in LoadTasks, NEW c \in CPUs, LA!Wake(t, c)
      PROVE  LA!LoadInv'
  <2>1. PICK b \in CPUs : x3[t] = <<"waking", b>>
    BY <1>0, <1>3 DEF LA!Wake, Places
  <2>2. x3' = [x3 EXCEPT ![t] = <<"running", c>>] /\ UNCHANGED <<x1, x2, x4, x5, x6>>
    BY <1>3 DEF LA!Wake
  <2>3. /\ x3' \in [LoadTasks -> Places] /\ x3'[t] = <<"running", c>>
        /\ \A s \in LoadTasks \ {t} : x3'[s] = x3[s]
    BY <1>0, <2>2 DEF Places
  <2>4. /\ \A d \in CPUs :
             OnCount(x3')[d] = OnCount(x3)[d] + (IF "running" = "running" /\ d = c THEN 1 ELSE 0)
                                              - (IF "waking" = "running" /\ d = b THEN 1 ELSE 0)
        /\ CountOf(x3') = CountOf(x3) + (IF "running" \in {"running", "blocked"} THEN 1 ELSE 0)
                                      - (IF "waking" \in {"running", "blocked"} THEN 1 ELSE 0)
    BY <1>0, <2>1, <2>3, TaskMoves
  <2>10. UNCHANGED <<x4, x5, x6>>
    BY <2>2
  <2>5. LA!TypeOK'
    BY <1>0, <2>2, <2>3 DEF LA!TypeOK, Places
  <2>6. \A d \in CPUs : x5'[d] - (OnCount(x3')[d] + x4'[d])
                         = x5[d] - (OnCount(x3)[d] + x4[d]) + (IF d = c THEN -1 ELSE 0)
    BY <1>0, <1>10, <2>4, <2>10
  <2>7. x6' - CountOf(x3') = x6 - CountOf(x3) + (-1)
    BY <1>0, <1>10, <2>4, <2>10
  <2>. QED BY <2>5, <2>6, <2>7, DriftStepOne
<1>4. ASSUME NEW t \in LoadTasks, NEW c \in CPUs, LA!Move(t, c)
      PROVE  LA!LoadInv'
  <2>1. PICK b \in CPUs, kind \in {"sleeping", "blocked", "running"} : x3[t] = <<kind, b>> /\ b # c
    BY <1>0, <1>4 DEF LA!Move, Places
  <2>2. x3' = [x3 EXCEPT ![t] = [x3[t] EXCEPT ![2] = c]] /\ UNCHANGED <<x1, x2, x4, x5, x6>>
    BY <1>4 DEF LA!Move
  <2>3. [x3[t] EXCEPT ![2] = c] = <<kind, c>>
    BY <1>0, <2>1, PairExcept DEF Places
  <2>4. /\ x3' \in [LoadTasks -> Places] /\ x3'[t] = <<kind, c>>
        /\ \A s \in LoadTasks \ {t} : x3'[s] = x3[s]
    BY <1>0, <2>2, <2>3 DEF Places
  <2>. DEFINE m == IF kind = "running" THEN 1 ELSE 0
  <2>5. /\ \A d \in CPUs :
             OnCount(x3')[d] = OnCount(x3)[d] + (IF kind = "running" /\ d = c THEN 1 ELSE 0)
                                              - (IF kind = "running" /\ d = b THEN 1 ELSE 0)
        /\ CountOf(x3') = CountOf(x3) + (IF kind \in {"running", "blocked"} THEN 1 ELSE 0)
                                      - (IF kind \in {"running", "blocked"} THEN 1 ELSE 0)
    BY <1>0, <2>1, <2>4, TaskMoves
  <2>10. UNCHANGED <<x4, x5, x6>>
    BY <2>2
  <2>6. LA!TypeOK'
    BY <1>0, <2>2, <2>4 DEF LA!TypeOK, Places
  <2>7. m \in Int /\ -m \in Int /\ m + (-m) = 0 /\ m = IF kind = "running" THEN 1 ELSE 0
    OBVIOUS
  <2>. HIDE DEF m
  <2>8. \A d \in CPUs : x5'[d] - (OnCount(x3')[d] + x4'[d])
                         = x5[d] - (OnCount(x3)[d] + x4[d]) + (IF d = b THEN m ELSE IF d = c THEN -m ELSE 0)
    BY <1>0, <1>10, <2>1, <2>5, <2>7, <2>10
  <2>9. x6' - CountOf(x3') = x6 - CountOf(x3) + m + (-m)
    BY <1>0, <1>10, <2>1, <2>5, <2>7, <2>10
  <2>. QED BY <2>1, <2>6, <2>7, <2>8, <2>9, DriftStep
<1>5. ASSUME NEW c \in CPUs, LA!calc_load_account_active(c)
      PROVE  LA!LoadInv'
  <2>1. LA!nr_active(c) = OnCount(x3)[c] + x4[c]
    BY DEF LA!nr_active, LA!Running, OnCount, On, LA!Cardinality, Cardinality
  <2>2. /\ x6' = x6 + (OnCount(x3)[c] + x4[c]) - x5[c]
        /\ x5' = [x5 EXCEPT ![c] = OnCount(x3)[c] + x4[c]] /\ UNCHANGED <<x1, x2, x3, x4>>
    BY <1>5, <2>1 DEF LA!calc_load_account_active
  <2>3. CountOf(x3) \in Nat /\ \A d \in CPUs : OnCount(x3)[d] \in Nat
    BY <1>10
  <2>4. PICK m \in Int : m = OnCount(x3)[c] + x4[c] - x5[c]
    BY <1>0, <2>3
  <2>5. LA!TypeOK'
    BY <1>0, <2>2, <2>3 DEF LA!TypeOK, Places
  <2>6. \A d \in CPUs : x5'[d] - (OnCount(x3')[d] + x4'[d])
                         = x5[d] - (OnCount(x3)[d] + x4[d]) + (IF d = c THEN m ELSE 0)
    BY <1>0, <2>2, <2>3, <2>4
  <2>7. x6' - CountOf(x3') = x6 - CountOf(x3) + m
    BY <1>0, <2>2, <2>3, <2>4
  <2>. QED BY <2>5, <2>6, <2>7, DriftStepOne
<1>6. ASSUME NEW c \in CPUs, LA!Dead(c)
      PROVE  LA!LoadInv'
  <2>1. PICK d : d = CHOOSE e \in x1 : TRUE
    OBVIOUS
  <2>2. d \in CPUs /\ d # c
    BY <1>0, <1>6, <2>1, LoadAssumption DEF LA!Dead
  <2>3. /\ x4' = [x4 EXCEPT ![d] = @ + x4[c], ![c] = 0] /\ x6' = x6 - x5[c]
        /\ x5' = [x5 EXCEPT ![c] = 0] /\ x2' = x2 \ {c} /\ UNCHANGED <<x1, x3>>
    BY <1>6, <2>1 DEF LA!Dead
  <2>4. On(x3, c) = {}
    BY <1>6 DEF LA!Dead, On
  <2>5. OnCount(x3)[c] = 0 /\ CountOf(x3) \in Nat /\ \A e \in CPUs : OnCount(x3)[e] \in Nat
    BY <1>10, <2>4, FS_EmptySet DEF OnCount
  <2>6. /\ x4' \in [CPUs -> Int] /\ x4'[d] = x4[d] + x4[c] /\ x4'[c] = 0
        /\ \A e \in CPUs \ {c, d} : x4'[e] = x4[e]
    BY <1>0, <2>2, <2>3
  <2>7. LA!TypeOK'
    BY <1>0, <2>3, <2>6 DEF LA!TypeOK, Places
  <2>8. PICK m \in Int, n \in Int : m = x4[c] - x5[c] /\ n = -x4[c]
    BY <1>0
  <2>9. \A e \in CPUs : x5'[e] - (OnCount(x3')[e] + x4'[e])
                         = x5[e] - (OnCount(x3)[e] + x4[e]) + (IF e = c THEN m ELSE IF e = d THEN n ELSE 0)
    BY <1>0, <2>2, <2>3, <2>5, <2>6, <2>8
  <2>10. x6' - CountOf(x3') = x6 - CountOf(x3) + m + n
    BY <1>0, <2>3, <2>5, <2>8
  <2>. QED BY <2>2, <2>7, <2>9, <2>10, DriftStep
<1>7. ASSUME LA!TypeOK', UNCHANGED <<x3, x4, x5, x6>>
      PROVE  LA!LoadInv'
  BY <1>7, LoadSays, LoadSaysNext
<1>8. ASSUME NEW c \in CPUs, LA!Down(c) \/ LA!Up(c)
      PROVE  LA!LoadInv'
  BY <1>0, <1>7, <1>8 DEF LA!Down, LA!Up, LA!TypeOK, Places
<1>9. CASE LA!calc_global_load \/ UNCHANGED LA!vars
  BY <1>0, <1>7, <1>9 DEF LA!calc_global_load, LA!vars, LA!TypeOK, Places
<1>. QED BY <1>1, <1>2, <1>3, <1>4, <1>5, <1>6, <1>8, <1>9 DEF LA!Next

-----------------------------------------------------------------------------
LEMMA DivIs ==
  ASSUME NEW n \in Nat, NEW s \in Nat, s > 0
  PROVE  n \div s \in Nat /\ s * (n \div s) <= n /\ n < s * (n \div s + 1)
OBVIOUS

LEMMA LessFactor ==
  ASSUME NEW a \in Nat, NEW b \in Nat, NEW s \in Nat, s > 0
  PROVE  /\ s * a < s * b => a < b
         /\ s * a <= s * b => a <= b
         /\ a <= b => s * a <= s * b
OBVIOUS

(* update_cpu_load() rounds up when the load rises, and down when it falls.*)
LEMMA DecayMoves ==
  ASSUME NEW old \in Nat, NEW new \in Nat, NEW s \in Nat, s > 0
  PROVE  LET next == (old * (s - 1) + new + (IF new > old THEN s - 1 ELSE 0)) \div s
         IN  /\ next \in Nat
             /\ next = new \/ (old < next /\ next < new) \/ (new < next /\ next < old)
<1>1. PICK k \in Nat : k = old * s
  OBVIOUS
<1>2. old * (s - 1) = k - old /\ s * old = k
  BY <1>1
<1>3. PICK n : n = old * (s - 1) + new + (IF new > old THEN s - 1 ELSE 0)
  OBVIOUS
<1>4. CASE new > old
  <2>1. PICK d \in Nat : d > 0 /\ new = old + d
    BY <1>4
  <2>2. n = k + d + s - 1 /\ n \in Nat
    BY <1>2, <1>3, <1>4, <2>1
  <2>3. PICK q \in Nat : q = n \div s /\ s * q <= n /\ n < s * (q + 1)
    BY <2>2, DivIs
  <2>4. s * (old + 1) = k + s
    BY <1>1
  <2>5. s * (old + 1) < s * (q + 1)
    BY <2>1, <2>2, <2>3, <2>4
  <2>6. old + 1 < q + 1
    BY <2>5, LessFactor
  <2>7. s * new = k + s * d
    BY <1>1, <2>1
  <2>8. PICK e \in Nat : d = e + 1
    BY <2>1
  <2>9. s * d = s * e + s /\ s * e >= e /\ s * e \in Nat
    BY <2>8
  <2>10. s * q <= s * new
    BY <2>2, <2>3, <2>7, <2>8, <2>9
  <2>11. q <= new
    BY <2>10, LessFactor
  <2>. QED BY <1>3, <2>3, <2>6, <2>11
<1>5. CASE new <= old
  <2>1. PICK d \in Nat : old = new + d
    BY <1>5
  <2>2. n = k - d
    BY <1>2, <1>3, <1>5, <2>1
  <2>3. k = s * new + s * d
    BY <1>1, <2>1
  <2>4. s * d >= d /\ s * d \in Nat /\ s * new \in Nat
    OBVIOUS
  <2>5. n \in Nat /\ n >= s * new
    BY <2>2, <2>3, <2>4
  <2>6. PICK q \in Nat : q = n \div s /\ s * q <= n /\ n < s * (q + 1)
    BY <2>5, DivIs
  <2>7. s * new < s * (q + 1)
    BY <2>4, <2>5, <2>6
  <2>8. new < q + 1
    BY <2>7, LessFactor
  <2>9. CASE d = 0
    <3>1. s * q <= s * old
      BY <1>2, <2>2, <2>6, <2>9
    <3>2. q <= old
      BY <3>1, LessFactor
    <3>. QED BY <1>3, <2>1, <2>6, <2>8, <2>9, <3>2
  <2>10. CASE d > 0
    <3>1. s * q < s * old
      BY <1>2, <2>2, <2>6, <2>10
    <3>2. q < old
      BY <3>1, LessFactor
    <3>. QED BY <1>3, <2>1, <2>6, <2>8, <3>2
  <2>. QED BY <2>9, <2>10
<1>. QED BY <1>4, <1>5

LEMMA DecayAverage ==
  ASSUME NEW i \in 1..CPU_LOAD_IDX_MAX, NEW old \in Nat, NEW new \in Nat
  PROVE  LET next == CL!Average(old, new, i)
         IN  /\ next \in Nat
             /\ next = new \/ (old < next /\ next < new) \/ (new < next /\ next < old)
<1>1. i - 1 \in {WIDTH} \cup {j - 1 : j \in 1..CPU_LOAD_IDX_MAX}
  OBVIOUS
<1>2. PICK s \in Nat : s > 0 /\ s = 2^(i - 1)
  BY <1>1, PowersAssumption
<1>3. CL!Average(old, new, i) = (old * (s - 1) + new + (IF new > old THEN s - 1 ELSE 0)) \div s
  BY <1>2 DEF CL!Average
<1>. QED BY <1>2, <1>3, DecayMoves

LEMMA DecayInit == ASSUME CL!Init PROVE CL!LoadOK
BY LoadAssumption DEF CL!Init, CL!LoadOK

LEMMA DecayStep == ASSUME CL!LoadOK, [CL!Next]_CL!vars PROVE CL!LoadOK'
<1>1. CASE CL!update_cpu_load
  <2>1. /\ x1' = x1 /\ x2' = [i \in 1..CPU_LOAD_IDX_MAX |-> CL!Average(x2[i], x1, i)]
        /\ x1 \in Nat /\ \A i \in 1..CPU_LOAD_IDX_MAX : x2[i] \in Nat
    BY <1>1 DEF CL!update_cpu_load, CL!LoadOK
  <2>2. \A i \in 1..CPU_LOAD_IDX_MAX : CL!Average(x2[i], x1, i) \in Nat
    BY <2>1, DecayAverage
  <2>. QED BY <2>1, <2>2 DEF CL!LoadOK
<1>2. ASSUME NEW l \in QueueLoads, CL!LoadChanges(l)
      PROVE  CL!LoadOK'
  BY <1>2, LoadAssumption DEF CL!LoadChanges, CL!LoadOK
<1>3. CASE UNCHANGED CL!vars
  BY <1>3 DEF CL!vars, CL!LoadOK
<1>. QED BY <1>1, <1>2, <1>3 DEF CL!Next

LEMMA DecayNeverStuck == ASSUME CL!LoadOK PROVE CL!NeverStuck
<1>1. x1 \in Nat /\ \A i \in 1..CPU_LOAD_IDX_MAX : x2[i] \in Nat
  BY DEF CL!LoadOK
<1>. QED BY <1>1, DecayAverage DEF CL!NeverStuck

-----------------------------------------------------------------------------
(* scale_rt_power(): the periods that have passed.                         *)
LEMMA PeriodsPassed ==
  ASSUME NEW a \in Int, a <= PERIOD + LONG + 1
  PROVE  LET n == RP!Periods(a) IN
           /\ n \in 0..(PERIOD + LONG) /\ PERIOD * n \in Nat
           /\ a - PERIOD * n \in Int /\ a - PERIOD * n <= a
           /\ n > 0 => a - PERIOD * n > 0
           /\ a - PERIOD * n <= PERIOD
<1>. PERIOD \in Nat /\ PERIOD > 0 /\ LONG \in Nat
  BY PeriodAssumption
<1>1. CASE a > PERIOD
  <2>1. PICK n \in Nat : n = (a - 1) \div PERIOD /\ PERIOD * n <= a - 1 /\ a - 1 < PERIOD * (n + 1)
    BY <1>1, DivIs
  <2>2. PERIOD * n >= n /\ PERIOD * n \in Nat /\ PERIOD * (n + 1) = PERIOD * n + PERIOD
    OBVIOUS
  <2>. QED BY <1>1, <2>1, <2>2 DEF RP!Periods
<1>2. CASE a <= PERIOD
  <2>1. RP!Periods(a) = 0 /\ PERIOD * 0 = 0
    BY <1>2 DEF RP!Periods
  <2>. QED BY <1>2, <2>1
<1>. QED BY <1>1, <1>2

(* sched_avg_update(): however many periods have passed, what is left of   *)
(* the sum is as far within the bound as it was, and what was above it is  *)
(* halved as often.                                                        *)
LEMMA HalvedEnough ==
  ASSUME NEW a \in Int, a <= PERIOD + LONG + 1, NEW sum \in Nat, NEW p \in 0..TICK, NEW over \in Nat,
         sum + p < PERIOD + a + TICK + over
  PROVE  LET n == RP!Periods(a) IN
           /\ sum \div 2^n \in Nat /\ over \div 2^n \in Nat
           /\ sum \div 2^n + p < PERIOD + (a - PERIOD * n) + TICK + over \div 2^n
<1>. PERIOD \in Nat /\ PERIOD > 0 /\ LONG \in Nat /\ TICK \in Nat /\ TICK > 0 /\ p \in Nat /\ p <= TICK
  BY PeriodAssumption
<1>1. PICK n \in Nat : n = RP!Periods(a)
  BY PeriodsPassed
<1>2. PICK k \in Nat : k = PERIOD * n
  BY <1>1
<1>3. PICK y \in Int : a = k + y /\ (n > 0 => y > 0)
  <2>1. a - PERIOD * n \in Int /\ (n > 0 => a - PERIOD * n > 0)
    BY <1>1, PeriodsPassed
  <2>2. a - k \in Int /\ (n > 0 => a - k > 0) /\ a = k + (a - k)
    BY <1>2, <2>1
  <2>. QED BY <2>2
<1>4. PICK m \in Nat : m = 2^n /\ m > n /\ (n = 0 => m = 1)
  BY <1>1, PeriodsPassed, PowersAssumption
<1>5. PICK q \in Nat : q = sum \div m /\ m * q <= sum
  BY <1>4, DivIs
<1>6. PICK f \in Nat : f = over \div m /\ over < m * (f + 1)
  BY <1>4, DivIs
<1>7. ASSUME n = 0 PROVE q + p < PERIOD + y + TICK + f
  <2>1. m = 1 /\ k = 0
    BY <1>2, <1>4, <1>7
  <2>2. q <= sum /\ over <= f
    BY <1>5, <1>6, <2>1
  <2>. QED BY <1>3, <2>1, <2>2
<1>8. ASSUME n > 0 PROVE q + p < PERIOD + y + TICK + f
  <2>1. PICK z \in Nat : z = y + TICK - p - 1
    BY <1>3, <1>8
  <2>2. sum <= PERIOD + k + z + over
    BY <1>3, <2>1
  <2>3. PICK w \in Nat : w = PERIOD + z
    OBVIOUS
  <2>4. (n + 1) * w = k + PERIOD + n * z + z /\ n * z \in Nat
    BY <1>2, <2>3
  <2>5. (n + 1) * w <= m * w /\ m * w \in Nat
    BY <1>4
  <2>6. m * (f + 1) \in Nat /\ sum < m * w + m * (f + 1)
    BY <1>6, <2>2, <2>4, <2>5
  <2>7. m * w + m * (f + 1) = m * (w + f + 1)
    OBVIOUS
  <2>8. m * q < m * (w + f + 1)
    BY <1>5, <2>6, <2>7
  <2>9. q < w + f + 1
    BY <1>4, <2>8, LessFactor
  <2>. QED BY <2>1, <2>3, <2>9
<1>9. sum \div 2^RP!Periods(a) = q /\ over \div 2^RP!Periods(a) = f
  BY <1>1, <1>4, <1>5, <1>6
<1>10. a - PERIOD * RP!Periods(a) = y
  BY <1>1, <1>2, <1>3
<1>11. q + p < PERIOD + y + TICK + f
  BY <1>7, <1>8
<1>. QED BY <1>5, <1>6, <1>9, <1>10, <1>11

LEMMA PowerInit == ASSUME RP!Init PROVE RP!PowerInv
<1>1. x1 = 0 /\ x2 = 0 /\ x3 = 0 /\ x6 = 0
  BY DEF RP!Init
<1>2. x4 = {} /\ x5 = FALSE
  BY DEF RP!Init
<1>3. x1 \in Int /\ x1 <= PERIOD + LONG + 1 /\ x2 \in Nat /\ x3 \in 0..TICK /\ x6 \in Nat
  BY <1>1, PeriodAssumption
<1>4. x5 \in BOOLEAN /\ (x5 => x4 # {})
  BY <1>2
<1>5. x2 + x3 < RP!Total + x6
  BY <1>1, PeriodAssumption DEF RP!Total
<1>. QED BY <1>3, <1>4, <1>5 DEF RP!PowerInv

LEMMA AboveCounted ==
  ASSUME NEW had \in Int, NEW total \in Int
  PROVE  LET above == had + 1 - total
             left  == IF above > 0 THEN above ELSE 0
         IN  left \in Nat /\ had < total + left
OBVIOUS

(* One update ends: alone it keeps the bound, and of several what it       *)
(* leaves is counted.                                                      *)
LEMMA LeaveStep ==
  ASSUME RP!PowerInv, NEW who, NEW sum \in Nat, RP!Leave(who, sum), x3' \in 0..TICK,
         ~x5 => sum + x3' < PERIOD + x1 + TICK + x6
  PROVE  RP!PowerInv'
<1>0. /\ x1 \in Int /\ x1 <= PERIOD + LONG + 1 /\ x6 \in Nat
      /\ PERIOD \in Nat /\ PERIOD > 0 /\ LONG \in Nat /\ TICK \in Nat
  BY PeriodAssumption DEF RP!PowerInv
<1>1. x5 \in BOOLEAN /\ x5' \in BOOLEAN /\ (x5' => x4' # {})
  BY Zenon DEF RP!PowerInv, RP!Leave
<1>2. CASE ~x5 /\ RP!sched_avg_update(sum)
  <2>1. PICK n : n = RP!Periods(x1)
    OBVIOUS
  <2>2. x1' = x1 - PERIOD * n /\ x2' = sum \div 2^n /\ x6' = x6 \div 2^n
    BY <1>2, <2>1 DEF RP!sched_avg_update
  <2>3. x1' \in Int /\ x1' <= x1
    BY <1>0, <2>1, <2>2, PeriodsPassed
  <2>4. sum + x3' < PERIOD + x1 + TICK + x6
    BY <1>2
  <2>5. x2' \in Nat /\ x6' \in Nat /\ x2' + x3' < PERIOD + x1' + TICK + x6'
    BY <1>0, <2>1, <2>2, <2>4, HalvedEnough
  <2>6. x1' <= PERIOD + LONG + 1
    BY <1>0, <2>3
  <2>7. ~x5' => x2' + x3' < RP!Total' + x6'
    BY <2>5 DEF RP!Total
  <2>. QED BY <1>1, <2>3, <2>5, <2>6, <2>7 DEF RP!PowerInv
<1>3. CASE x5 /\ RP!Overlapped
  <2>1. x1' \in Int /\ x1' <= PERIOD + LONG /\ x2' \in Nat
    BY <1>3, PeriodAssumption DEF RP!Overlapped
  <2>2. PICK total \in Int : total = RP!Total'
    <3>1. RP!Total' = PERIOD + x1' + TICK
      BY DEF RP!Total
    <3>2. PERIOD + x1' + TICK \in Int
      BY <1>0, <2>1
    <3>. QED BY <3>1, <3>2
  <2>3. PICK had \in Int : had = x2' + x3'
    <3>1. x2' + x3' \in Int
      BY <1>0, <2>1
    <3>. QED BY <3>1, Zenon
  <2>4. x6' = IF had + 1 - total > 0 THEN had + 1 - total ELSE 0
    BY <1>3, <2>2, <2>3 DEF RP!Overlapped
  <2>5. x6' \in Nat /\ x2' + x3' < total + x6'
    BY <2>3, <2>4, AboveCounted
  <2>6. x1' <= PERIOD + LONG + 1
    BY <1>0, <2>1
  <2>. QED BY <1>1, <2>1, <2>2, <2>5, <2>6 DEF RP!PowerInv
<1>. QED BY <1>2, <1>3 DEF RP!Leave

LEMMA PowerStep == ASSUME RP!PowerInv, [RP!Next]_RP!vars PROVE RP!PowerInv'
<1>0. /\ x1 \in Int /\ x1 <= PERIOD + LONG + 1 /\ x2 \in Nat /\ x3 \in 0..TICK /\ x6 \in Nat
      /\ PERIOD \in Nat /\ LONG \in Nat /\ TICK \in Nat /\ TICK > 0
  BY PeriodAssumption DEF RP!PowerInv
<1>0a. x5 \in BOOLEAN /\ (x5 => x4 # {}) /\ (~x5 => x2 + x3 < PERIOD + x1 + TICK + x6)
  BY Zenon DEF RP!PowerInv, RP!Total
<1>1. ASSUME NEW who, RP!Enter(who)
      PROVE  RP!PowerInv'
  <2>1. x4' # {} /\ UNCHANGED <<x1, x2, x3, x6>>
    BY <1>1 DEF RP!Enter
  <2>2. x5' \in BOOLEAN /\ (~x5' => ~x5)
    BY <1>1, Zenon DEF RP!Enter
  <2>3. ~x5' => x2' + x3' < RP!Total' + x6'
    BY <1>0a, <2>1, <2>2 DEF RP!Total
  <2>. QED BY <1>0, <2>1, <2>2, <2>3 DEF RP!PowerInv
<1>2. CASE RP!sched_rt_avg_update
  <2>1. CASE x3' = 0 /\ RP!Leave(RP!Locked, x2 + x3)
    <3>1. x3' \in 0..TICK /\ x2 + x3 \in Nat /\ (~x5 => (x2 + x3) + x3' < PERIOD + x1 + TICK + x6)
      BY <1>0, <1>0a, <2>1
    <3>. QED BY <2>1, <3>1, LeaveStep
  <2>. QED BY <1>1, <1>2, <2>1 DEF RP!sched_rt_avg_update
<1>3. ASSUME NEW who, RP!scale_rt_power(who)
      PROVE  RP!PowerInv'
  <2>1. CASE x3' = x3 /\ RP!Leave(who, x2)
    BY <1>0, <1>0a, <2>1, LeaveStep
  <2>. QED BY <1>1, <1>3, <2>1 DEF RP!scale_rt_power
<1>4. ASSUME NEW ns \in {1, LONG}, RP!Busy \/ RP!Free(ns)
      PROVE  RP!PowerInv'
  <2>1. PICK passed \in Nat, had \in Nat : had <= passed /\ x1' = x1 + passed /\ x3' = x3 + had
    <3>1. CASE RP!Busy
      <4>1. x1' = x1 + 1 /\ x3' = x3 + 1
        BY <3>1 DEF RP!Busy
      <4>. QED BY <4>1
    <3>2. CASE RP!Free(ns)
      <4>1. x1' = x1 + ns /\ x3' = x3 + 0 /\ ns \in Nat
        BY <1>0, <3>2 DEF RP!Free
      <4>. QED BY <4>1
    <3>. QED BY <1>4, <3>1, <3>2
  <2>2. /\ x1' <= PERIOD + LONG + 1 /\ x2' = x2 /\ x6' = x6 /\ x4' = x4 /\ x3' \in 0..TICK
    BY <1>0, <1>4 DEF RP!Busy, RP!Free
  <2>3. x5' \in BOOLEAN /\ (x5' <=> x4 # {})
    BY <1>4, Zenon DEF RP!Busy, RP!Free
  <2>4. ~x5' => ~x5
    BY <1>0a, <2>3, Zenon
  <2>5. x1' \in Int
    BY <1>0, <2>1
  <2>6. ASSUME ~x5' PROVE x2' + x3' < RP!Total' + x6'
    <3>1. x2 + x3 < PERIOD + x1 + TICK + x6
      BY <1>0a, <2>4, <2>6
    <3>2. x2 + (x3 + had) < PERIOD + (x1 + passed) + TICK + x6
      BY <1>0, <2>1, <3>1
    <3>. QED BY <2>1, <2>2, <3>2, Zenon DEF RP!Total
  <2>. QED BY <1>0, <2>2, <2>3, <2>5, <2>6 DEF RP!PowerInv
<1>5. CASE UNCHANGED RP!vars
  <2>1. UNCHANGED <<x1, x2, x3, x4, x5, x6>>
    BY <1>5 DEF RP!vars
  <2>. QED BY <2>1 DEF RP!PowerInv, RP!Total
<1>. QED BY <1>2, <1>3, <1>4, <1>5 DEF RP!Next, RP!Askers

(* calc_load_account_active(), update_cpu_load(), sched_rt_avg_update():   *)
(* the load figures are of the tasks and the time there were, for any      *)
(* processors, tasks, loads and periods.                                   *)
THEOREM LoadsAreTrueHolds == KernelSpec => []LoadsAreTrue
<1>. DEFINE I == /\ part = "LoadAvg" => LA!LoadInv
                 /\ part = "CpuLoad" => CL!LoadOK
                 /\ part = "RtPower" => RP!PowerInv
<1>1. KernelInit => I
  BY PartStarts, LoadInit, DecayInit, PowerInit
<1>2. I /\ [KernelNext]_<<vars, part, slots>> => I'
  BY PartMoves, LoadStep, DecayStep, PowerStep
<1>3. I => LoadsAreTrue
  <2>1. ASSUME LA!LoadInv PROVE LA!LoadIsTrue
    <3>1. SUFFICES ASSUME \A c \in CPUs : x5[c] = LA!nr_active(c)
                   PROVE  x6 = LA!Cardinality(LA!Counted)
      BY DEF LA!LoadIsTrue, LA!Counted
    <3>2. \A c \in CPUs : LA!nr_active(c) = OnCount(x3)[c] + x4[c]
      BY DEF LA!nr_active, LA!Running, OnCount, On, LA!Cardinality, Cardinality
    <3>3. x4 \in [CPUs -> Int] /\ OnCount(x3) \in [CPUs -> Nat] /\ CountOf(x3) \in Nat
      BY <2>1, OnType DEF LA!LoadInv, LA!TypeOK
    <3>4. \A c \in CPUs : DriftOf(x3, x4, x5)[c] = 0
      BY <3>1, <3>2, <3>3 DEF DriftOf
    <3>5. LA!Sum(DriftOf(x3, x4, x5), CPUs) = 0
      BY <3>4, DriftNone
    <3>6. x6 = CountOf(x3)
      BY <2>1, <3>3, <3>5, LoadSays
    <3>. QED BY <3>6 DEF CountOf, Counting, LA!Counted, LA!Cardinality, Cardinality
  <2>2. ASSUME RP!PowerInv PROVE RP!RtWithinTotal
    BY <2>2, PeriodAssumption DEF RP!PowerInv, RP!RtWithinTotal, RP!Total
  <2>. QED BY <2>1, <2>2, DecayNeverStuck DEF LoadsAreTrue
<1>. QED BY <1>1, <1>2, <1>3, PTL DEF KernelSpec

-----------------------------------------------------------------------------
(* task_utime() and task_stime() split the run time.  One half of a number *)
(* no larger than n and the other half of another are less than HALF above.*)
LEMMA HalvesNear ==
  ASSUME NEW n \in Nat, NEW h \in Nat, NEW l \in 0..(HALF - 1), h * HALF <= n
  PROVE  h * HALF + l \in 0..(n + HALF - 1)
<1>1. HALF \in Nat /\ h * HALF \in Nat
  BY TimesAssumption
<1>2. PICK m \in Nat : m = h * HALF
  BY <1>1
<1>3. m + l \in 0..(n + HALF - 1)
  BY <1>1, <1>2
<1>. QED BY <1>2, <1>3

LEMMA HighHalf ==
  ASSUME NEW n \in Nat
  PROVE  n \div HALF \in Nat /\ (n \div HALF) * HALF <= n /\ n % HALF \in 0..(HALF - 1)
<1>1. HALF \in Nat /\ HALF > 0
  BY TimesAssumption
<1>2. n \div HALF \in Nat /\ HALF * (n \div HALF) <= n /\ n % HALF \in 0..(HALF - 1)
  BY <1>1
<1>3. PICK q \in Nat : q = n \div HALF
  BY <1>2
<1>4. q * HALF = HALF * q
  BY <1>1
<1>. QED BY <1>2, <1>3, <1>4

LEMMA SplitInit == ASSUME TT!Init PROVE TT!TimesInv
<1>1. HALF \in Nat /\ HALF > 0 /\ 0 * HALF = 0
  BY TimesAssumption
<1>2. x1 = 0 /\ x2 = 0 /\ x3 = 0 /\ x4 = 0 /\ x5 = 0 /\ x6 = 0 /\ x7 = 0 /\ x8 = [r \in Readers |-> TT!Idle]
  BY DEF TT!Init
<1>3. 0 \in TT!Near /\ 0 \in 0..(HALF - 1)
  BY <1>1, <1>2 DEF TT!Near
<1>. QED BY <1>1, <1>2, <1>3 DEF TT!TimesInv, TT!Idle

LEMMA SplitStep == ASSUME TT!TimesInv, [TT!Next]_TT!vars PROVE TT!TimesInv'
<1>. DEFINE Ats == {"utime", "put", "stime", "utime2", "put2", "diff", "puts"}
            Top(n) == 0..(n + HALF - 1)
            Reading(n) == {e \in [at : Ats, half : {"none", "high", "low"}, had : Nat,
                                  rtime : {-1} \cup Top(n), val : Top(n)] :
                             /\ e.half = "high" => e.had * HALF <= n
                             /\ e.half = "low" => e.had < HALF}
<1>a. HALF \in Nat /\ HALF > 0
  BY TimesAssumption
<1>0. /\ x1 \in Nat /\ x2 \in Nat /\ x3 \in Nat /\ x4 \in Nat /\ x5 \in 0..(HALF - 1) /\ x4 * HALF <= x3
      /\ x6 \in Top(x3) /\ x7 \in Top(x3)
      /\ x8 \in [Readers -> Reading(x3)]
  BY DEF TT!TimesInv, TT!Near
<1>1. ASSUME x1' \in Nat, x2' \in Nat, x3' \in Nat, x4' \in Nat, x5' \in 0..(HALF - 1), x4' * HALF <= x3',
             x6' \in Top(x3'), x7' \in Top(x3'),
             x8' \in [Readers -> Reading(x3')]
      PROVE  TT!TimesInv'
  BY <1>1 DEF TT!TimesInv, TT!Near
<1>2. CASE TT!Runs
  <2>1. x3' = x3 + 1 /\ UNCHANGED <<x1, x2, x6, x7, x8>>
    BY <1>2 DEF TT!Runs
  <2>2. PICK n \in Nat : n = x3' /\ n = x3 + 1
    BY <1>0, <2>1
  <2>3. n \div HALF \in Nat /\ (n \div HALF) * HALF <= n /\ n % HALF \in 0..(HALF - 1)
    BY HighHalf
  <2>4. x4' \in Nat /\ x5' \in 0..(HALF - 1) /\ x4' * HALF <= n
    <3>1. CASE TT!StoresHigh
      BY <1>0, <2>2, <2>3, <3>1 DEF TT!StoresHigh
    <3>2. CASE TT!StoresLow
      <4>1. x4' = x4 /\ x5' = n % HALF
        BY <2>2, <3>2 DEF TT!StoresLow
      <4>2. PICK m \in Nat : m = x4 * HALF /\ m <= x3
        BY <1>a, <1>0
      <4>. QED BY <1>0, <2>2, <2>3, <4>1, <4>2
    <3>. QED BY <1>2, <3>1, <3>2 DEF TT!Runs
  <2>5. x6' \in Top(n) /\ x7' \in Top(n)
    BY <1>a, <1>0, <2>1, <2>2
  <2>6. ASSUME NEW e \in Reading(x3) PROVE e \in Reading(n)
    <3>1. e.rtime \in {-1} \cup Top(n) /\ e.val \in Top(n)
      BY <1>a, <1>0, <2>2
    <3>2. e.half = "high" => e.had * HALF <= n
      <4>1. e.half = "high" => e.had * HALF <= x3 /\ e.had \in Nat
        OBVIOUS
      <4>2. e.had * HALF \in Nat
        BY <1>a
      <4>3. PICK m \in Nat : m = e.had * HALF
        BY <4>2
      <4>. QED BY <1>0, <2>2, <4>1, <4>3
    <3>3. /\ e \in [at : Ats, half : {"none", "high", "low"}, had : Nat, rtime : {-1} \cup Top(x3), val : Top(x3)]
          /\ e.half = "low" => e.had < HALF
      OBVIOUS
    <3>4. e \in [at : Ats, half : {"none", "high", "low"}, had : Nat, rtime : {-1} \cup Top(n), val : Top(n)]
      BY <3>1, <3>3
    <3>. QED BY <3>2, <3>3, <3>4
  <2>7. x8' \in [Readers -> Reading(n)]
    <3>. HIDE DEF Reading
    <3>. QED BY <1>0, <2>1, <2>6
  <2>. QED BY <1>0, <1>1, <2>1, <2>2, <2>4, <2>5, <2>7
<1>3. CASE TT!RunsOn
  <2>1. x3' = x3 /\ x4' = x3 \div HALF /\ x5' = x3 % HALF /\ UNCHANGED <<x1, x2, x6, x7, x8>>
    BY <1>3 DEF TT!RunsOn
  <2>2. x4' \in Nat /\ x4' * HALF <= x3 /\ x5' \in 0..(HALF - 1)
    BY <1>0, <2>1, HighHalf
  <2>. QED BY <1>0, <1>1, <2>1, <2>2
<1>4. CASE TT!Tick
  BY <1>0, <1>1, <1>4 DEF TT!Tick
<1>5. ASSUME NEW r \in Readers, NEW e \in Reading(x3), x8' = [x8 EXCEPT ![r] = e],
             x6' \in Top(x3), x7' \in Top(x3), UNCHANGED <<x1, x2, x3, x4, x5>>
      PROVE  TT!TimesInv'
  <2>1. x8' \in [Readers -> Reading(x3)]
    <3>. HIDE DEF Reading
    <3>. QED BY <1>0, <1>5
  <2>. QED BY <1>0, <1>1, <1>5, <2>1
<1>6. \A r \in Readers : x8[r] \in Reading(x3)
  <2>. HIDE DEF Reading
  <2>. QED BY <1>0
<1>b. \A r \in Readers : x8 = [x8 EXCEPT ![r] = x8[r]]
  BY <1>0
<1>7. ASSUME NEW r \in Readers, TT!LoadHalf(r)
      PROVE  TT!TimesInv'
  <2>1. UNCHANGED <<x1, x2, x3, x4, x5, x6, x7>>
    BY <1>7 DEF TT!LoadHalf
  <2>2. PICK half \in {"high", "low"}, had \in Nat :
          /\ half = "high" => had = x4
          /\ half = "low" => had = x5
          /\ x8' = [x8 EXCEPT ![r] = [x8[r] EXCEPT !.half = half, !.had = had]]
    <3>1. \/ x8' = [x8 EXCEPT ![r].half = "high", ![r].had = x4]
          \/ x8' = [x8 EXCEPT ![r].half = "low", ![r].had = x5]
      BY <1>7 DEF TT!LoadHalf
    <3>2. x5 \in Nat
      BY <1>a, <1>0
    <3>3. CASE x8' = [x8 EXCEPT ![r].half = "high", ![r].had = x4]
      <4>1. x8' = [x8 EXCEPT ![r] = [x8[r] EXCEPT !.half = "high", !.had = x4]]
        BY <3>3
      <4>. QED BY <1>0, <4>1
    <3>4. CASE x8' = [x8 EXCEPT ![r].half = "low", ![r].had = x5]
      <4>1. x8' = [x8 EXCEPT ![r] = [x8[r] EXCEPT !.half = "low", !.had = x5]]
        BY <3>4
      <4>. QED BY <3>2, <4>1
    <3>. QED BY <3>1, <3>3, <3>4
  <2>3. (half = "high" => had * HALF <= x3) /\ (half = "low" => had < HALF)
    BY <1>a, <1>0, <2>2
  <2>4. PICK e : e = [x8[r] EXCEPT !.half = half, !.had = had]
    OBVIOUS
  <2>5. e \in Reading(x3)
    <3>1. e.half = half /\ e.had = had
      BY <1>6, <2>4
    <3>2. e \in [at : Ats, half : {"none", "high", "low"}, had : Nat, rtime : {-1} \cup Top(x3), val : Top(x3)]
      BY <1>6, <2>4
    <3>. QED BY <2>3, <3>1, <3>2
  <2>. QED BY <1>0, <1>5, <2>1, <2>2, <2>4, <2>5
<1>8. ASSUME NEW r \in Readers, x8[r].half # "none" PROVE TT!Loaded(r) \in Top(x3)
  <2>1. PICK half \in {"high", "low"}, had \in Nat : half = x8[r].half /\ had = x8[r].had
    BY <1>6, <1>8
  <2>2. (half = "high" => had * HALF <= x3) /\ (half = "low" => had < HALF)
    BY <1>6, <2>1
  <2>3. CASE half = "high"
    <3>1. had * HALF + x5 \in Top(x3)
      BY <1>0, <2>2, <2>3, HalvesNear
    <3>. QED BY <2>1, <2>3, <3>1 DEF TT!Loaded
  <2>4. CASE half = "low"
    <3>1. had \in 0..(HALF - 1)
      BY <1>a, <2>2, <2>4
    <3>2. x4 * HALF + had \in Top(x3)
      BY <1>0, <3>1, HalvesNear
    <3>. QED BY <2>1, <2>4, <3>2 DEF TT!Loaded
  <2>. QED BY <2>3, <2>4
<1>9. ASSUME NEW r \in Readers, NEW at \in Ats, NEW rtime \in {-1} \cup Top(x3), NEW val \in Top(x3)
      PROVE  [x8[r] EXCEPT !.at = at, !.half = "none", !.had = 0, !.rtime = rtime, !.val = val] \in Reading(x3)
  <2>1. PICK e : e = [x8[r] EXCEPT !.at = at, !.half = "none", !.had = 0, !.rtime = rtime, !.val = val]
    OBVIOUS
  <2>2. x8[r] \in [at : Ats, half : {"none", "high", "low"}, had : Nat, rtime : {-1} \cup Top(x3), val : Top(x3)]
    BY <1>6
  <2>3. e \in [at : Ats, half : {"none", "high", "low"}, had : Nat, rtime : {-1} \cup Top(x3), val : Top(x3)]
    BY <2>1, <2>2
  <2>4. e.half = "none"
    BY <2>1, <2>2
  <2>. QED BY <2>1, <2>3, <2>4
<1>10. ASSUME NEW r \in Readers, TT!BeginStime(r)
       PROVE  TT!TimesInv'
  <2>1. PICK rtime : rtime = IF x8[r].half = "none" THEN -1 ELSE TT!Loaded(r)
    OBVIOUS
  <2>2. rtime \in {-1} \cup Top(x3)
    BY <1>8, <2>1
  <2>3. PICK val \in Top(x3) : val = x8[r].val
    BY <1>6
  <2>4. /\ x8' = [x8 EXCEPT ![r] = [x8[r] EXCEPT !.at = "utime2", !.half = "none", !.had = 0, !.rtime = rtime, !.val = val]]
        /\ UNCHANGED <<x1, x2, x3, x4, x5, x6, x7>>
    BY <1>0, <1>6, <1>10, <2>1, <2>3 DEF TT!BeginStime
  <2>5. PICK e \in Reading(x3) : e = [x8[r] EXCEPT !.at = "utime2", !.half = "none", !.had = 0, !.rtime = rtime, !.val = val]
    <3>. HIDE DEF Reading, Top
    <3>. QED BY <1>9, <2>2
  <2>. QED BY <1>0, <1>5, <2>4, <2>5
<1>11. ASSUME NEW r \in Readers, TT!LoadUtime(r)
       PROVE  TT!TimesInv'
  <2>1. PICK n \in Nat : n = TT!Loaded(r) /\ n \in Top(x3)
    BY <1>8, <1>11 DEF TT!LoadUtime
  <2>2. TT!scaled(n) \in 0..n
    <3>1. CASE x1 + x2 = 0
      BY <3>1 DEF TT!scaled
    <3>2. CASE x1 + x2 # 0
      <4>1. x1 <= x1 + x2 /\ x1 + x2 > 0 /\ x1 + x2 \in Nat
        BY <1>0, <3>2
      <4>2. (n * x1) \div (x1 + x2) \in Nat /\ (n * x1) \div (x1 + x2) <= n
        BY <1>0, <4>1, PartOfWhole
      <4>. QED BY <1>0, <3>2, <4>2 DEF TT!scaled
    <3>. QED BY <3>1, <3>2
  <2>3. PICK v : v = TT!Bigger(x6, TT!scaled(n))
    OBVIOUS
  <2>4. v \in Top(x3)
    <3>1. TT!scaled(n) \in Top(x3)
      BY <1>a, <1>0, <2>1, <2>2
    <3>. QED BY <1>0, <2>3, <3>1 DEF TT!Bigger
  <2>5. PICK at \in Ats : at = IF x8[r].at = "utime" THEN "put" ELSE "put2"
    OBVIOUS
  <2>6. PICK rtime \in {-1} \cup Top(x3) : rtime = x8[r].rtime
    BY <1>6
  <2>7. /\ x8' = [x8 EXCEPT ![r] = [x8[r] EXCEPT !.at = at, !.half = "none", !.had = 0, !.rtime = rtime, !.val = v]]
        /\ UNCHANGED <<x1, x2, x3, x4, x5, x6, x7>>
    BY <1>0, <1>6, <1>11, <2>1, <2>3, <2>5, <2>6 DEF TT!LoadUtime
  <2>8. PICK e \in Reading(x3) : e = [x8[r] EXCEPT !.at = at, !.half = "none", !.had = 0, !.rtime = rtime, !.val = v]
    <3>. HIDE DEF Reading, Top
    <3>. QED BY <1>9, <2>4
  <2>. QED BY <1>0, <1>5, <2>7, <2>8
<1>12. ASSUME NEW r \in Readers, TT!StoreUtime(r)
       PROVE  TT!TimesInv'
  <2>1. PICK val \in Top(x3) : val = x8[r].val
    BY <1>6
  <2>2. PICK at \in Ats : at = IF x8[r].at = "put" THEN "stime" ELSE "diff"
    OBVIOUS
  <2>3. PICK v \in Top(x3) : v = IF x8[r].at = "put" THEN 0 ELSE val
    BY <1>a, <1>0
  <2>4. /\ x8' = [x8 EXCEPT ![r] = [x8[r] EXCEPT !.at = at, !.val = v]]
        /\ x6' = val /\ UNCHANGED <<x1, x2, x3, x4, x5, x7>>
    BY <1>0, <1>12, <2>1, <2>2, <2>3 DEF TT!StoreUtime
  <2>5. PICK e : e = [x8[r] EXCEPT !.at = at, !.val = v]
    OBVIOUS
  <2>6. e \in Reading(x3)
    <3>1. x8[r] \in Reading(x3)
      BY <1>6
    <3>2. e.half = x8[r].half /\ e.had = x8[r].had
      BY <2>5, <3>1
    <3>3. e \in [at : Ats, half : {"none", "high", "low"}, had : Nat, rtime : {-1} \cup Top(x3), val : Top(x3)]
      BY <2>5, <3>1
    <3>. QED BY <3>1, <3>2, <3>3
  <2>. QED BY <1>0, <1>5, <2>4, <2>5, <2>6
<1>13. TT!Idle \in Reading(x3)
  BY <1>a, <1>0 DEF TT!Idle
<1>14. ASSUME NEW v \in Top(x3) PROVE [TT!Idle EXCEPT !.at = "puts", !.val = v] \in Reading(x3)
  <2>1. PICK e : e = [TT!Idle EXCEPT !.at = "puts", !.val = v]
    OBVIOUS
  <2>2. e \in [at : Ats, half : {"none", "high", "low"}, had : Nat, rtime : {-1} \cup Top(x3), val : Top(x3)]
    BY <1>13, <2>1
  <2>3. e.half = "none"
    BY <2>1 DEF TT!Idle
  <2>. QED BY <2>1, <2>2, <2>3
<1>15. ASSUME NEW r \in Readers, TT!LoadStime(r)
       PROVE  TT!TimesInv'
  <2>1. PICK rtime : rtime = IF x8[r].rtime = -1 THEN TT!Loaded(r) ELSE x8[r].rtime
    OBVIOUS
  <2>2. rtime \in Top(x3)
    BY <1>6, <1>8, <1>15, <2>1 DEF TT!LoadStime, TT!Has
  <2>3. PICK val \in Top(x3) : val = x8[r].val
    BY <1>6
  <2>4. PICK diff \in Int : diff = rtime - val
    BY <2>2
  <2>5. TT!Difference(r) = diff
    BY <2>1, <2>3, <2>4 DEF TT!Difference
  <2>6. PICK m \in Nat : m > 0 /\ m = 2^WIDTH
    BY PowersAssumption
  <2>7. /\ x8' = [x8 EXCEPT ![r] = IF diff >= 0 THEN [TT!Idle EXCEPT !.at = "puts", !.val = TT!Bigger(x7, diff % m)]
                                                 ELSE TT!Idle]
        /\ UNCHANGED <<x1, x2, x3, x4, x5, x6, x7>>
    BY <1>15, <2>5, <2>6 DEF TT!LoadStime
  <2>8. CASE diff >= 0
    <3>1. diff % m \in Nat /\ diff % m <= diff
      BY <2>4, <2>6, <2>8
    <3>2. diff % m \in Top(x3)
      BY <1>a, <1>0, <2>2, <2>4, <3>1
    <3>3. PICK v \in Top(x3) : v = TT!Bigger(x7, diff % m)
      BY <1>0, <3>2 DEF TT!Bigger
    <3>4. x8' = [x8 EXCEPT ![r] = [TT!Idle EXCEPT !.at = "puts", !.val = v]]
      BY <2>7, <2>8, <3>3
    <3>. QED BY <1>0, <1>5, <1>14, <2>7, <3>4
  <2>9. CASE ~(diff >= 0)
    BY <1>0, <1>5, <1>13, <2>7, <2>9
  <2>. QED BY <2>8, <2>9
<1>16. ASSUME NEW r \in Readers, TT!StoreStime(r)
       PROVE  TT!TimesInv'
  <2>1. x8' = [x8 EXCEPT ![r] = TT!Idle] /\ x7' = x8[r].val /\ UNCHANGED <<x1, x2, x3, x4, x5, x6>>
    BY <1>16 DEF TT!StoreStime
  <2>2. x8[r].val \in Top(x3)
    BY <1>6
  <2>. QED BY <1>0, <1>5, <1>13, <2>1, <2>2
<1>17. CASE UNCHANGED TT!vars
  BY <1>0, <1>1, <1>17 DEF TT!vars
<1>. QED BY <1>2, <1>3, <1>4, <1>7, <1>10, <1>11, <1>12, <1>15, <1>16, <1>17 DEF TT!Next

-----------------------------------------------------------------------------
(* account_user_time() and the other accounts of a tick.                   *)
LEMMA SumUp ==
  ASSUME NEW S, IsFiniteSet(S), NEW f, \A k \in S : f[k] \in Nat, NEW k \in S,
         NEW g, g[k] = f[k] + 1, \A l \in S \ {k} : g[l] = f[l]
  PROVE  CT!Sum(g, S) = CT!Sum(f, S) + 1 /\ CT!Sum(f, S) \in Nat
<1>1. CT!Sum(f, S) = Cardinality(Units(f, S)) /\ CT!Sum(g, S) = Cardinality(Units(g, S))
  BY DEF CT!Sum, Units, CT!Cardinality, Cardinality
<1>2. (\A l \in S : f[l] \in Int) /\ g[k] \in Int /\ f[k] \in Nat
  OBVIOUS
<1>3. /\ Cardinality(Units(g, S)) = Cardinality(Units(f, S)) + Positive(g[k]) - Positive(f[k])
      /\ Cardinality(Units(f, S)) \in Nat
  BY <1>2, UnitsChange
<1>4. Positive(g[k]) = f[k] + 1 /\ Positive(f[k]) = f[k]
  BY <1>2 DEF Positive
<1>. QED BY <1>1, <1>2, <1>3, <1>4

LEMMA SumSame ==
  ASSUME NEW S, IsFiniteSet(S), NEW f, \A k \in S : f[k] \in Nat, NEW g, \A k \in S : g[k] = f[k]
  PROVE  CT!Sum(g, S) = CT!Sum(f, S) /\ CT!Sum(f, S) \in Nat
<1>1. CT!Sum(f, S) = Cardinality(Units(f, S)) /\ CT!Sum(g, S) = Cardinality(Units(g, S))
  BY DEF CT!Sum, Units, CT!Cardinality, Cardinality
<1>2. \A k \in S : f[k] \in Int
  OBVIOUS
<1>. QED BY <1>1, <1>2, UnitsSame, UnitsFinite

LEMMA SumZero ==
  ASSUME NEW S, NEW f, \A k \in S : f[k] = 0
  PROVE  CT!Sum(f, S) = 0
<1>1. CT!Sum(f, S) = Cardinality(Units(f, S))
  BY DEF CT!Sum, Units, CT!Cardinality, Cardinality
<1>. QED BY <1>1, UnitsNone

Everyone   == TimeTasks \cup {None}
BusyKinds  == {"user", "nice", "system", "irq", "softirq"}
TickKinds  == CT!Kinds \ {"guest"}
BusyOf(f)  == [c \in CPUs |-> CT!Sum(f[c], BusyKinds)]
WaitsAt(w, c) == {t \in TimeTasks : w[t] = c}
CpuStats   == [CPUs -> [CT!Kinds -> Nat]]
CaStats    == [Groups -> [user : Nat, system : Nat]]

LEMMA KindsFinite == IsFiniteSet(CT!Kinds) /\ IsFiniteSet(BusyKinds) /\ IsFiniteSet(TickKinds) /\ IsFiniteSet(Everyone)
<1>1. IsFiniteSet({})
  BY FS_EmptySet
<1>2. IsFiniteSet({"user"})
  BY FS_Singleton
<1>3. IsFiniteSet({"user", "nice"})
  BY <1>2, FS_AddElement
<1>4. IsFiniteSet({"user", "nice", "system"})
  BY <1>3, FS_AddElement
<1>5. IsFiniteSet({"user", "nice", "system", "irq"})
  BY <1>4, FS_AddElement
<1>6. IsFiniteSet(BusyKinds)
  BY <1>5, FS_AddElement DEF BusyKinds
<1>7. IsFiniteSet(BusyKinds \cup {"steal"})
  BY <1>6, FS_AddElement
<1>8. IsFiniteSet((BusyKinds \cup {"steal"}) \cup {"idle"})
  BY <1>7, FS_AddElement
<1>9. IsFiniteSet(((BusyKinds \cup {"steal"}) \cup {"idle"}) \cup {"iowait"})
  BY <1>8, FS_AddElement
<1>10. IsFiniteSet((((BusyKinds \cup {"steal"}) \cup {"idle"}) \cup {"iowait"}) \cup {"guest"})
  BY <1>9, FS_AddElement
<1>11. (((BusyKinds \cup {"steal"}) \cup {"idle"}) \cup {"iowait"}) \cup {"guest"} = CT!Kinds
  BY DEF BusyKinds, CT!Kinds
<1>12. TickKinds \in SUBSET CT!Kinds
  BY DEF TickKinds
<1>13. IsFiniteSet(CT!Kinds)
  BY <1>10, <1>11
<1>14. IsFiniteSet(TickKinds)
  BY <1>12, <1>13, FS_Subset
<1>15. IsFiniteSet(Everyone)
  BY TimesAssumption, FS_AddElement DEF Everyone
<1>. QED BY <1>6, <1>13, <1>14, <1>15

CountsMore(f, h, c, kinds) ==
  /\ \A d \in CPUs \ {c} : h[d] = f[d]
  /\ \A l \in CT!Kinds : h[c][l] = f[c][l] + (IF l \in kinds THEN 1 ELSE 0)

(* One kind of time, guest time aside, is one more.                        *)
LEMMA KindUp ==
  ASSUME NEW f \in CpuStats, NEW c \in CPUs, NEW kinds \in SUBSET CT!Kinds,
         NEW k \in TickKinds, k \in kinds, kinds \subseteq {k, "guest"},
         NEW h, CountsMore(f, h, c, kinds)
  PROVE  /\ CT!Sum(h[c], TickKinds) = CT!Sum(f[c], TickKinds) + 1
         /\ k \in BusyKinds => CT!Sum(BusyOf(h), CPUs) = CT!Sum(BusyOf(f), CPUs) + 1
         /\ k \notin BusyKinds => CT!Sum(BusyOf(h), CPUs) = CT!Sum(BusyOf(f), CPUs)
         /\ CT!Sum(BusyOf(f), CPUs) \in Nat
<1>1. /\ f[c] \in [CT!Kinds -> Nat]
      /\ \A d \in CPUs \ {c} : h[d] = f[d]
      /\ \A l \in CT!Kinds : h[c][l] = f[c][l] + (IF l \in kinds THEN 1 ELSE 0)
  BY DEF CpuStats, CountsMore
<1>2. /\ \A l \in CT!Kinds : f[c][l] \in Nat
      /\ h[c][k] = f[c][k] + 1
      /\ \A l \in TickKinds \ {k} : h[c][l] = f[c][l]
      /\ k \in CT!Kinds /\ TickKinds \subseteq CT!Kinds /\ BusyKinds \subseteq TickKinds
  BY <1>1 DEF TickKinds, BusyKinds, CT!Kinds
<1>3. CT!Sum(h[c], TickKinds) = CT!Sum(f[c], TickKinds) + 1
  BY <1>2, KindsFinite, SumUp
<1>4. \A d \in CPUs : BusyOf(f)[d] = CT!Sum(f[d], BusyKinds) /\ BusyOf(h)[d] = CT!Sum(h[d], BusyKinds)
  BY DEF BusyOf
<1>5. ASSUME NEW d \in CPUs PROVE BusyOf(f)[d] \in Nat
  <2>1. \A l \in BusyKinds : f[d][l] \in Nat
    BY <1>2 DEF CpuStats
  <2>2. CT!Sum(f[d], BusyKinds) \in Nat
    BY <2>1, KindsFinite, SumSame
  <2>. QED BY <1>4, <2>2
<1>6. \A d \in CPUs \ {c} : BusyOf(h)[d] = BusyOf(f)[d]
  BY <1>1, <1>4
<1>7. IsFiniteSet(CPUs)
  BY ProcessorsAssumption
<1>8. ASSUME k \in BusyKinds PROVE CT!Sum(BusyOf(h), CPUs) = CT!Sum(BusyOf(f), CPUs) + 1
  <2>1. CT!Sum(h[c], BusyKinds) = CT!Sum(f[c], BusyKinds) + 1
    BY <1>2, <1>8, KindsFinite, SumUp
  <2>2. BusyOf(h)[c] = BusyOf(f)[c] + 1
    BY <1>4, <2>1
  <2>. QED BY <1>5, <1>6, <1>7, <2>2, SumUp
<1>9. ASSUME k \notin BusyKinds PROVE CT!Sum(BusyOf(h), CPUs) = CT!Sum(BusyOf(f), CPUs)
  <2>1. \A l \in BusyKinds : f[c][l] \in Nat /\ h[c][l] = f[c][l]
    BY <1>2, <1>9
  <2>2. CT!Sum(h[c], BusyKinds) = CT!Sum(f[c], BusyKinds)
    BY <2>1, KindsFinite, SumSame
  <2>3. \A d \in CPUs : BusyOf(h)[d] = BusyOf(f)[d]
    BY <1>4, <1>6, <2>2
  <2>. QED BY <1>5, <1>7, <2>3, SumSame
<1>10. CT!Sum(BusyOf(f), CPUs) \in Nat
  BY <1>5, <1>7, SumSame
<1>. QED BY <1>3, <1>8, <1>9, <1>10

(* The root is above every group.                                          *)
LEMMA RootAbove ==
  ASSUME NEW g \in Groups, NEW root \in Groups, Parent[root] = None
  PROVE  root \in CT!Above(g)
<1>. SUFFICES ASSUME NEW S \in SUBSET Groups, g \in S, \A k \in S : Parent[k] # None => Parent[k] \in S
              PROVE  root \in S
  BY DEF CT!Above
<1>1. PICK top \in S : Parent[top] \notin S
  BY TreeAssumption
<1>2. Parent[top] = None
  BY <1>1
<1>. QED BY <1>1, <1>2, TreeAssumption

LEMMA RootUp ==
  ASSUME x7 \in CaStats, x2 \in [TimeTasks -> Groups],
         NEW t \in Everyone, NEW idx \in {"user", "system"}, CT!cpuacct_update_stats(t, idx)
  PROVE  /\ x7' \in CaStats
         /\ \A g \in Groups : Parent[g] = None =>
              x7'[g].user + x7'[g].system = x7[g].user + x7[g].system + 1
<1>1. PICK U \in SUBSET Groups :
        /\ x7' = [g \in Groups |-> IF g \in U THEN [x7[g] EXCEPT ![idx] = @ + 1] ELSE x7[g]]
        /\ \A g \in Groups : Parent[g] = None => g \in U
  <2>1. CASE t = None
    <3>1. x7' = [g \in Groups |-> IF g \in {h \in Groups : Parent[h] = None} THEN [x7[g] EXCEPT ![idx] = @ + 1] ELSE x7[g]]
      BY <2>1 DEF CT!cpuacct_update_stats
    <3>. QED BY <3>1, ZenonT(30)
  <2>2. CASE t # None
    <3>1. x7' = [g \in Groups |-> IF g \in CT!Above(x2[t]) THEN [x7[g] EXCEPT ![idx] = @ + 1] ELSE x7[g]]
      BY <2>2 DEF CT!cpuacct_update_stats
    <3>2. x2[t] \in Groups /\ CT!Above(x2[t]) \in SUBSET Groups
      BY <2>2 DEF Everyone, CT!Above
    <3>3. \A g \in Groups : Parent[g] = None => g \in CT!Above(x2[t])
      BY <3>2, RootAbove
    <3>. QED BY <3>1, <3>2, <3>3
  <2>. QED BY <2>1, <2>2
<1>2. ASSUME NEW g \in Groups
      PROVE  /\ [x7[g] EXCEPT ![idx] = @ + 1] \in [user : Nat, system : Nat]
             /\ [x7[g] EXCEPT ![idx] = @ + 1].user + [x7[g] EXCEPT ![idx] = @ + 1].system = x7[g].user + x7[g].system + 1
  <2>1. x7[g] \in [user : Nat, system : Nat]
    BY DEF CaStats
  <2>2. CASE idx = "user"
    BY <2>1, <2>2
  <2>3. CASE idx = "system"
    BY <2>1, <2>3
  <2>. QED BY <2>2, <2>3
<1>3. x7' \in CaStats
  BY <1>1, <1>2 DEF CaStats
<1>4. \A g \in Groups : Parent[g] = None => x7'[g] = [x7[g] EXCEPT ![idx] = @ + 1]
  BY <1>1
<1>. QED BY <1>2, <1>3, <1>4

(* What TicksCountedOnce says, of the counts at one time and at the next.  *)
TicksTold(f, u, s, v, a, w, n, k) ==
  /\ \A c \in CPUs : CT!Sum(f[c], TickKinds) = k[c]
  /\ CT!Sum(u, Everyone) + CT!Sum(s, Everyone) = CT!Sum(BusyOf(f), CPUs)
  /\ \A g \in Groups : Parent[g] = None =>
       a[g].user + a[g].system = CT!Sum(u, Everyone) + CT!Sum(s, Everyone) - CT!Sum(v, Everyone)
  /\ \A c \in CPUs : n[c] = Cardinality(WaitsAt(w, c))

LEMMA TicksSay == CT!TicksCountedOnce <=> TicksTold(x3, x4, x5, x6, x7, x8, x9, x10)
BY DEF CT!TicksCountedOnce, TicksTold, TickKinds, Everyone, BusyOf, BusyKinds, WaitsAt, CT!Cardinality, Cardinality

LEMMA TicksSayNext == CT!TicksCountedOnce' <=> TicksTold(x3', x4', x5', x6', x7', x8', x9', x10')
BY DEF CT!TicksCountedOnce, TicksTold, TickKinds, Everyone, BusyOf, BusyKinds, WaitsAt, CT!Sum, CT!Cardinality, Cardinality

LEMMA TicksInit == ASSUME CT!Init PROVE CT!TicksInv
<1>1. CT!TypeOK
  BY DEF CT!Init, CT!TypeOK, CT!Kinds
<1>2. CT!RunsOnce
  BY DEF CT!Init, CT!RunsOnce
<1>3. /\ \A t \in Everyone : x4[t] = 0 /\ x5[t] = 0 /\ x6[t] = 0
      /\ \A c \in CPUs : \A k \in CT!Kinds : x3[c][k] = 0
      /\ \A c \in CPUs : x9[c] = 0 /\ x10[c] = 0 /\ \A t \in TimeTasks : x8[t] # c
      /\ \A g \in Groups : x7[g].user = 0 /\ x7[g].system = 0
  BY ProcessorsAssumption DEF CT!Init, Everyone
<1>4. CT!Sum(x4, Everyone) = 0 /\ CT!Sum(x5, Everyone) = 0 /\ CT!Sum(x6, Everyone) = 0
  BY <1>3, SumZero
<1>5. BusyKinds \subseteq CT!Kinds /\ TickKinds \subseteq CT!Kinds
  BY DEF BusyKinds, TickKinds, CT!Kinds
<1>6. \A c \in CPUs : CT!Sum(x3[c], TickKinds) = 0 /\ CT!Sum(x3[c], BusyKinds) = 0
  BY <1>3, <1>5, SumZero
<1>7. \A c \in CPUs : BusyOf(x3)[c] = 0
  BY <1>6 DEF BusyOf
<1>8. CT!Sum(BusyOf(x3), CPUs) = 0
  BY <1>7, SumZero
<1>9. \A c \in CPUs : WaitsAt(x8, c) = {}
  BY <1>3 DEF WaitsAt
<1>10. \A c \in CPUs : Cardinality(WaitsAt(x8, c)) = 0
  BY <1>9, FS_EmptySet
<1>11. TicksTold(x3, x4, x5, x6, x7, x8, x9, x10)
  BY <1>3, <1>4, <1>6, <1>8, <1>10 DEF TicksTold
<1>. QED BY <1>1, <1>2, <1>11, TicksSay DEF CT!TicksInv

(* A time of one task is a tick more.                                      *)
LEMMA TimeUp ==
  ASSUME NEW u \in [Everyone -> Nat], NEW t \in Everyone, NEW v, v = [u EXCEPT ![t] = @ + 1]
  PROVE  v \in [Everyone -> Nat] /\ CT!Sum(v, Everyone) = CT!Sum(u, Everyone) + 1
<1>1. (\A s \in Everyone : u[s] \in Nat) /\ v[t] = u[t] + 1 /\ \A s \in Everyone \ {t} : v[s] = u[s]
  OBVIOUS
<1>2. CT!Sum(v, Everyone) = CT!Sum(u, Everyone) + 1
  BY <1>1, KindsFinite, SumUp
<1>. QED BY <1>2

(* A tick that is counted once more everywhere, or nowhere but as idle or  *)
(* stolen time.                                                            *)
LEMMA TickCounted ==
  ASSUME CT!TicksInv, NEW c \in CPUs, NEW kinds \in SUBSET CT!Kinds, CT!Count(c, kinds),
         NEW k \in TickKinds, k \in kinds, kinds \subseteq {k, "guest"},
         NEW one \in Nat, one = (IF k \in BusyKinds THEN 1 ELSE 0),
         x4' \in [Everyone -> Nat], x5' \in [Everyone -> Nat], x6' \in [Everyone -> Nat], x7' \in CaStats,
         CT!Sum(x4', Everyone) + CT!Sum(x5', Everyone)
           = CT!Sum(x4, Everyone) + CT!Sum(x5, Everyone) + one,
         \A g \in Groups : Parent[g] = None =>
           x7'[g].user + x7'[g].system
             = x7[g].user + x7[g].system + one
                 - (CT!Sum(x6', Everyone) - CT!Sum(x6, Everyone))
  PROVE  CT!TicksInv'
<1>1. /\ CT!TypeOK /\ CT!RunsOnce
      /\ x3 \in CpuStats /\ x10 \in [CPUs -> Nat]
      /\ x4 \in [Everyone -> Nat] /\ x5 \in [Everyone -> Nat] /\ x6 \in [Everyone -> Nat] /\ x7 \in CaStats
  BY DEF CT!TicksInv, CT!TypeOK, CpuStats, CaStats, Everyone
<1>2. TicksTold(x3, x4, x5, x6, x7, x8, x9, x10)
  BY TicksSay DEF CT!TicksInv
<1>3. /\ x3' = [x3 EXCEPT ![c] = [l \in CT!Kinds |-> x3[c][l] + (IF l \in kinds THEN 1 ELSE 0)]]
      /\ x10' = [x10 EXCEPT ![c] = @ + 1]
  BY DEF CT!Count
<1>4. UNCHANGED <<x1, x2, x8, x9>>
  BY DEF CT!Count
<1>5. /\ x3' \in CpuStats
      /\ CT!Sum(x3'[c], TickKinds) = CT!Sum(x3[c], TickKinds) + 1
      /\ \A d \in CPUs \ {c} : x3'[d] = x3[d]
      /\ k \in BusyKinds => CT!Sum(BusyOf(x3'), CPUs) = CT!Sum(BusyOf(x3), CPUs) + 1
      /\ k \notin BusyKinds => CT!Sum(BusyOf(x3'), CPUs) = CT!Sum(BusyOf(x3), CPUs)
      /\ CT!Sum(BusyOf(x3), CPUs) \in Nat
  <2>1. /\ x3' \in CpuStats
        /\ \A d \in CPUs \ {c} : x3'[d] = x3[d]
        /\ \A l \in CT!Kinds : x3'[c][l] = x3[c][l] + (IF l \in kinds THEN 1 ELSE 0)
    BY <1>1, <1>3 DEF CpuStats
  <2>2. CountsMore(x3, x3', c, kinds)
    BY <2>1 DEF CountsMore
  <2>3. /\ CT!Sum(x3'[c], TickKinds) = CT!Sum(x3[c], TickKinds) + 1
        /\ k \in BusyKinds => CT!Sum(BusyOf(x3'), CPUs) = CT!Sum(BusyOf(x3), CPUs) + 1
        /\ k \notin BusyKinds => CT!Sum(BusyOf(x3'), CPUs) = CT!Sum(BusyOf(x3), CPUs)
        /\ CT!Sum(BusyOf(x3), CPUs) \in Nat
    BY <1>1, <2>2, KindUp
  <2>. QED BY <2>1, <2>3
<1>6. x10' \in [CPUs -> Nat] /\ x10'[c] = x10[c] + 1 /\ \A d \in CPUs \ {c} : x10'[d] = x10[d]
  BY <1>1, <1>3
<1>7. CT!TypeOK' /\ CT!RunsOnce'
  BY <1>1, <1>4, <1>5, <1>6 DEF CT!TypeOK, CT!RunsOnce, CpuStats, CaStats, Everyone
<1>8. \A d \in CPUs : CT!Sum(x3'[d], TickKinds) = x10'[d]
  BY <1>2, <1>5, <1>6 DEF TicksTold
<1>9. CT!Sum(x4', Everyone) + CT!Sum(x5', Everyone) = CT!Sum(BusyOf(x3'), CPUs)
  BY <1>2, <1>5 DEF TicksTold
<1>10. \A d \in CPUs : x9'[d] = Cardinality(WaitsAt(x8', d))
  BY <1>2, <1>4 DEF TicksTold
<1>11. /\ CT!Sum(x4, Everyone) \in Nat /\ CT!Sum(x5, Everyone) \in Nat
       /\ CT!Sum(x6, Everyone) \in Nat /\ CT!Sum(x6', Everyone) \in Nat
  BY <1>1, KindsFinite, SumSame
<1>12. ASSUME NEW g \in Groups, Parent[g] = None
       PROVE  x7'[g].user + x7'[g].system
                = CT!Sum(x4', Everyone) + CT!Sum(x5', Everyone) - CT!Sum(x6', Everyone)
  <2>1. x7[g].user + x7[g].system
          = CT!Sum(x4, Everyone) + CT!Sum(x5, Everyone) - CT!Sum(x6, Everyone)
    BY <1>2, <1>12 DEF TicksTold
  <2>2. x7'[g].user + x7'[g].system
          = x7[g].user + x7[g].system + one - (CT!Sum(x6', Everyone) - CT!Sum(x6, Everyone))
    BY <1>12
  <2>3. CT!Sum(x4', Everyone) + CT!Sum(x5', Everyone) = CT!Sum(x4, Everyone) + CT!Sum(x5, Everyone) + one
    OBVIOUS
  <2>4. /\ CT!Sum(x4', Everyone) \in Nat /\ CT!Sum(x5', Everyone) \in Nat
        /\ x7[g].user \in Nat /\ x7[g].system \in Nat
    BY <1>1, KindsFinite, SumSame DEF CaStats
  <2>. QED BY <1>11, <2>1, <2>2, <2>3, <2>4
<1>13. TicksTold(x3', x4', x5', x6', x7', x8', x9', x10')
  BY <1>8, <1>9, <1>10, <1>12 DEF TicksTold
<1>. QED BY <1>7, <1>13, TicksSayNext DEF CT!TicksInv

(* Who runs or waits for I/O may be another task; no tick is counted.      *)
LEMMA TickKept ==
  ASSUME CT!TicksInv, UNCHANGED <<x2, x3, x4, x5, x6, x7, x10>>,
         x1' \in [CPUs -> Everyone], x8' \in [TimeTasks -> CPUs \cup {None}], x9' \in [CPUs -> Nat],
         CT!RunsOnce', \A c \in CPUs : x9'[c] = Cardinality(WaitsAt(x8', c))
  PROVE  CT!TicksInv'
<1>1. CT!TypeOK'
  BY DEF CT!TicksInv, CT!TypeOK, Everyone
<1>2. TicksTold(x3, x4, x5, x6, x7, x8, x9, x10)
  BY TicksSay DEF CT!TicksInv
<1>3. TicksTold(x3', x4', x5', x6', x7', x8', x9', x10')
  BY <1>2 DEF TicksTold
<1>. QED BY <1>1, <1>3, TicksSayNext DEF CT!TicksInv

OneWaits(w, v, t, at) == v[t] = at /\ \A s \in TimeTasks \ {t} : v[s] = w[s]

(* A task begins to wait, or ends.                                         *)
LEMMA WaiterMoves ==
  ASSUME NEW w \in [TimeTasks -> CPUs \cup {None}], NEW t \in TimeTasks, NEW at,
         NEW v, OneWaits(w, v, t, at), NEW c \in CPUs
  PROVE  /\ Cardinality(WaitsAt(w, c)) \in Nat
         /\ w[t] # c /\ at = c => Cardinality(WaitsAt(v, c)) = Cardinality(WaitsAt(w, c)) + 1
         /\ w[t] = c /\ at # c => Cardinality(WaitsAt(v, c)) = Cardinality(WaitsAt(w, c)) - 1
         /\ (w[t] = c <=> at = c) => Cardinality(WaitsAt(v, c)) = Cardinality(WaitsAt(w, c))
         /\ w[t] = c => Cardinality(WaitsAt(w, c)) > 0
<1>1. /\ WaitsAt(w, c) \in SUBSET TimeTasks /\ WaitsAt(v, c) \in SUBSET TimeTasks
      /\ \A s \in TimeTasks \ {t} : s \in WaitsAt(w, c) <=> s \in WaitsAt(v, c)
      /\ t \in WaitsAt(w, c) <=> w[t] = c
      /\ t \in WaitsAt(v, c) <=> at = c
  BY DEF WaitsAt, OneWaits
<1>2. IsFiniteSet(TimeTasks)
  BY TimesAssumption
<1>3. /\ (t \in WaitsAt(w, c) <=> t \in WaitsAt(v, c)) => Cardinality(WaitsAt(v, c)) = Cardinality(WaitsAt(w, c))
      /\ t \notin WaitsAt(w, c) /\ t \in WaitsAt(v, c) => Cardinality(WaitsAt(v, c)) = Cardinality(WaitsAt(w, c)) + 1
      /\ t \in WaitsAt(w, c) /\ t \notin WaitsAt(v, c) => Cardinality(WaitsAt(v, c)) = Cardinality(WaitsAt(w, c)) - 1
      /\ Cardinality(WaitsAt(w, c)) \in Nat
  BY <1>1, <1>2, CountOne
<1>4. ASSUME w[t] = c PROVE Cardinality(WaitsAt(w, c)) > 0
  <2>1. IsFiniteSet(WaitsAt(w, c)) /\ WaitsAt(w, c) # {}
    BY <1>1, <1>2, <1>4, FS_Subset
  <2>2. Cardinality(WaitsAt(w, c)) # 0
    BY <2>1, FS_EmptySet
  <2>. QED BY <1>3, <2>2
<1>. QED BY <1>1, <1>3, <1>4

LEMMA TicksStep == ASSUME CT!TicksInv, [CT!Next]_CT!vars PROVE CT!TicksInv'
<1>1. /\ CT!TypeOK /\ CT!RunsOnce
      /\ x1 \in [CPUs -> Everyone] /\ x2 \in [TimeTasks -> Groups]
      /\ x4 \in [Everyone -> Nat] /\ x5 \in [Everyone -> Nat] /\ x6 \in [Everyone -> Nat] /\ x7 \in CaStats
      /\ x8 \in [TimeTasks -> CPUs \cup {None}] /\ x9 \in [CPUs -> Nat]
  BY DEF CT!TicksInv, CT!TypeOK, CaStats, Everyone
<1>2. /\ CT!Sum(x4, Everyone) \in Nat /\ CT!Sum(x5, Everyone) \in Nat /\ CT!Sum(x6, Everyone) \in Nat
      /\ \A g \in Groups : x7[g].user \in Nat /\ x7[g].system \in Nat
  BY <1>1, KindsFinite, SumSame DEF CaStats
<1>3. \A c \in CPUs : x9[c] = Cardinality(WaitsAt(x8, c))
  BY TicksSay DEF CT!TicksInv, TicksTold
<1>4. {"user", "nice", "system", "irq", "softirq", "steal", "idle", "iowait"} \subseteq TickKinds
      /\ TickKinds \subseteq CT!Kinds
  BY DEF TickKinds, CT!Kinds
<1>5. ASSUME NEW c \in CPUs, CT!account_user_time(c) PROVE CT!TicksInv'
  <2>1. PICK k \in {"user", "nice"} : CT!Count(c, {k})
    BY <1>5 DEF CT!account_user_time
  <2>2. k \in BusyKinds /\ k \in TickKinds /\ {k} \in SUBSET CT!Kinds
    BY <1>4 DEF BusyKinds
  <2>3. x1[c] \in Everyone
    BY <1>1
  <2>4. x4' = [x4 EXCEPT ![x1[c]] = @ + 1] /\ UNCHANGED <<x5, x6>>
        /\ CT!cpuacct_update_stats(x1[c], "user")
    BY <1>5 DEF CT!account_user_time
  <2>5. x4' \in [Everyone -> Nat] /\ CT!Sum(x4', Everyone) = CT!Sum(x4, Everyone) + 1
    BY <1>1, <2>3, <2>4, TimeUp
  <2>6. x7' \in CaStats /\ \A g \in Groups : Parent[g] = None =>
          x7'[g].user + x7'[g].system = x7[g].user + x7[g].system + 1
    BY <1>1, <2>3, <2>4, RootUp
  <2>7. x5' = x5 /\ x6' = x6 /\ CT!Sum(x6', Everyone) = CT!Sum(x6, Everyone)
    BY <2>4
  <2>8. CT!Sum(x4', Everyone) + CT!Sum(x5', Everyone) = CT!Sum(x4, Everyone) + CT!Sum(x5, Everyone) + 1
    BY <1>2, <2>5, <2>7
  <2>9. \A g \in Groups : Parent[g] = None =>
          x7'[g].user + x7'[g].system
            = x7[g].user + x7[g].system + 1 - (CT!Sum(x6', Everyone) - CT!Sum(x6, Everyone))
    BY <1>2, <2>6, <2>7
  <2>10. x5' \in [Everyone -> Nat] /\ x6' \in [Everyone -> Nat]
    BY <1>1, <2>7
  <2>11. 1 = (IF k \in BusyKinds THEN 1 ELSE 0) /\ 1 \in Nat /\ k \in {k} /\ {k} \subseteq {k, "guest"}
    BY <2>2
  <2>. QED BY <2>1, <2>2, <2>5, <2>6, <2>8, <2>9, <2>10, <2>11, TickCounted
<1>6. ASSUME NEW c \in CPUs, CT!account_guest_time(c) PROVE CT!TicksInv'
  <2>1. CT!Count(c, {"user", "guest"})
    BY <1>6 DEF CT!account_guest_time
  <2>2. "user" \in BusyKinds /\ "user" \in TickKinds /\ {"user", "guest"} \in SUBSET CT!Kinds
    BY <1>4 DEF BusyKinds, CT!Kinds
  <2>3. x1[c] \in Everyone
    BY <1>1
  <2>4. /\ x4' = [x4 EXCEPT ![x1[c]] = @ + 1] /\ x6' = [x6 EXCEPT ![x1[c]] = @ + 1]
        /\ UNCHANGED <<x5, x7>>
    BY <1>6 DEF CT!account_guest_time
  <2>5. x4' \in [Everyone -> Nat] /\ CT!Sum(x4', Everyone) = CT!Sum(x4, Everyone) + 1
    BY <1>1, <2>3, <2>4, TimeUp
  <2>6. x6' \in [Everyone -> Nat] /\ CT!Sum(x6', Everyone) = CT!Sum(x6, Everyone) + 1
    BY <1>1, <2>3, <2>4, TimeUp
  <2>7. x5' = x5 /\ x7' = x7
    BY <2>4
  <2>8. CT!Sum(x4', Everyone) + CT!Sum(x5', Everyone) = CT!Sum(x4, Everyone) + CT!Sum(x5, Everyone) + 1
    BY <1>2, <2>5, <2>7
  <2>9. \A g \in Groups : Parent[g] = None =>
          x7'[g].user + x7'[g].system
            = x7[g].user + x7[g].system + 1 - (CT!Sum(x6', Everyone) - CT!Sum(x6, Everyone))
    BY <1>2, <2>6, <2>7
  <2>10. x5' \in [Everyone -> Nat] /\ x7' \in CaStats
    BY <1>1, <2>7
  <2>11. 1 = (IF "user" \in BusyKinds THEN 1 ELSE 0) /\ 1 \in Nat
         /\ "user" \in {"user", "guest"} /\ {"user", "guest"} \subseteq {"user", "guest"}
    BY <2>2
  <2>. QED BY <2>1, <2>2, <2>5, <2>6, <2>8, <2>9, <2>10, <2>11, TickCounted
<1>7. ASSUME NEW c \in CPUs, NEW k \in {"system", "irq", "softirq"}, CT!account_system_time(c, k)
      PROVE  CT!TicksInv'
  <2>1. CT!Count(c, {k})
    BY <1>7 DEF CT!account_system_time
  <2>2. k \in BusyKinds /\ k \in TickKinds /\ {k} \in SUBSET CT!Kinds
    BY <1>4 DEF BusyKinds
  <2>3. x1[c] \in Everyone
    BY <1>1
  <2>4. x5' = [x5 EXCEPT ![x1[c]] = @ + 1] /\ UNCHANGED <<x4, x6>>
        /\ CT!cpuacct_update_stats(x1[c], "system")
    BY <1>7 DEF CT!account_system_time
  <2>5. x5' \in [Everyone -> Nat] /\ CT!Sum(x5', Everyone) = CT!Sum(x5, Everyone) + 1
    BY <1>1, <2>3, <2>4, TimeUp
  <2>6. x7' \in CaStats /\ \A g \in Groups : Parent[g] = None =>
          x7'[g].user + x7'[g].system = x7[g].user + x7[g].system + 1
    BY <1>1, <2>3, <2>4, RootUp
  <2>7. x4' = x4 /\ x6' = x6 /\ CT!Sum(x6', Everyone) = CT!Sum(x6, Everyone)
    BY <2>4
  <2>8. CT!Sum(x4', Everyone) + CT!Sum(x5', Everyone) = CT!Sum(x4, Everyone) + CT!Sum(x5, Everyone) + 1
    BY <1>2, <2>5, <2>7
  <2>9. \A g \in Groups : Parent[g] = None =>
          x7'[g].user + x7'[g].system
            = x7[g].user + x7[g].system + 1 - (CT!Sum(x6', Everyone) - CT!Sum(x6, Everyone))
    BY <1>2, <2>6, <2>7
  <2>10. x4' \in [Everyone -> Nat] /\ x6' \in [Everyone -> Nat]
    BY <1>1, <2>7
  <2>11. 1 = (IF k \in BusyKinds THEN 1 ELSE 0) /\ 1 \in Nat /\ k \in {k} /\ {k} \subseteq {k, "guest"}
    BY <2>2
  <2>. QED BY <2>1, <2>2, <2>5, <2>6, <2>8, <2>9, <2>10, <2>11, TickCounted
<1>8. ASSUME NEW c \in CPUs, CT!account_idle_time(c) \/ CT!account_steal_time(c) PROVE CT!TicksInv'
  <2>1. PICK k \in {"idle", "iowait", "steal"} : CT!Count(c, {k})
    BY <1>8 DEF CT!account_idle_time, CT!account_steal_time
  <2>2. k \notin BusyKinds /\ k \in TickKinds /\ {k} \in SUBSET CT!Kinds
    BY <1>4 DEF BusyKinds
  <2>3. x4' = x4 /\ x5' = x5 /\ x6' = x6 /\ x7' = x7
    BY <1>8 DEF CT!account_idle_time, CT!account_steal_time
  <2>4. CT!Sum(x4', Everyone) + CT!Sum(x5', Everyone) = CT!Sum(x4, Everyone) + CT!Sum(x5, Everyone) + 0
    BY <1>2, <2>3
  <2>5. \A g \in Groups : Parent[g] = None =>
          x7'[g].user + x7'[g].system
            = x7[g].user + x7[g].system + 0 - (CT!Sum(x6', Everyone) - CT!Sum(x6, Everyone))
    BY <1>2, <2>3
  <2>6. x4' \in [Everyone -> Nat] /\ x5' \in [Everyone -> Nat] /\ x6' \in [Everyone -> Nat] /\ x7' \in CaStats
    BY <1>1, <2>3
  <2>7. 0 = (IF k \in BusyKinds THEN 1 ELSE 0) /\ 0 \in Nat /\ k \in {k} /\ {k} \subseteq {k, "guest"}
    BY <2>2
  <2>. QED BY <2>1, <2>2, <2>4, <2>5, <2>6, <2>7, TickCounted
<1>9. ASSUME NEW c \in CPUs, CT!Preempted(c) PROVE CT!TicksInv'
  <2>1. x1' = [x1 EXCEPT ![c] = None] /\ x8' = x8 /\ x9' = x9
    BY <1>9 DEF CT!Preempted
  <2>2. x1' \in [CPUs -> Everyone] /\ CT!RunsOnce'
    BY <1>1, <2>1 DEF CT!RunsOnce, Everyone
  <2>3. UNCHANGED <<x2, x3, x4, x5, x6, x7, x10>>
    BY <1>9 DEF CT!Preempted
  <2>. QED BY <1>1, <1>3, <2>1, <2>2, <2>3, TickKept
<1>10. ASSUME NEW c \in CPUs, NEW t \in TimeTasks, CT!Runs(t, c) PROVE CT!TicksInv'
  <2>1. /\ x1[c] = None /\ x8[t] = None /\ \A d \in CPUs : x1[d] # t
        /\ x1' = [x1 EXCEPT ![c] = t] /\ x8' = x8 /\ x9' = x9
    BY <1>10 DEF CT!Runs
  <2>2. x1' \in [CPUs -> Everyone] /\ CT!RunsOnce'
    BY <1>1, <2>1 DEF CT!RunsOnce, Everyone
  <2>3. UNCHANGED <<x2, x3, x4, x5, x6, x7, x10>>
    BY <1>10 DEF CT!Runs
  <2>. QED BY <1>1, <1>3, <2>1, <2>2, <2>3, TickKept
<1>11. ASSUME NEW c \in CPUs, CT!io_schedule(c) PROVE CT!TicksInv'
  <2>1. PICK t \in TimeTasks : t = x1[c]
    BY <1>1, <1>11 DEF CT!io_schedule, Everyone
  <2>2. t # None /\ x8[t] = None /\ \A d \in CPUs \ {c} : x1[d] # t
    BY <1>1, <1>11, <2>1 DEF CT!io_schedule, CT!RunsOnce
  <2>3. x1' = [x1 EXCEPT ![c] = None] /\ x8' = [x8 EXCEPT ![t] = c] /\ x9' = [x9 EXCEPT ![c] = @ + 1]
    BY <1>11, <2>1 DEF CT!io_schedule
  <2>4. x1' \in [CPUs -> Everyone] /\ x8' \in [TimeTasks -> CPUs \cup {None}] /\ x9' \in [CPUs -> Nat]
    BY <1>1, <2>3 DEF Everyone
  <2>5. CT!RunsOnce'
    BY <1>1, <2>2, <2>3 DEF CT!RunsOnce, Everyone
  <2>6. OneWaits(x8, x8', t, c)
    BY <1>1, <2>3 DEF OneWaits
  <2>7. ASSUME NEW d \in CPUs PROVE x9'[d] = Cardinality(WaitsAt(x8', d))
    <3>1. x9[d] = Cardinality(WaitsAt(x8, d)) /\ x9'[d] = x9[d] + (IF d = c THEN 1 ELSE 0) /\ x8[t] # d
      BY <1>1, <1>3, <2>2, <2>3, ProcessorsAssumption
    <3>2. /\ x8[t] # d /\ c = d => Cardinality(WaitsAt(x8', d)) = Cardinality(WaitsAt(x8, d)) + 1
          /\ (x8[t] = d <=> c = d) => Cardinality(WaitsAt(x8', d)) = Cardinality(WaitsAt(x8, d))
      BY <1>1, <2>6, WaiterMoves
    <3>. QED BY <1>1, <3>1, <3>2
  <2>8. UNCHANGED <<x2, x3, x4, x5, x6, x7, x10>>
    BY <1>11 DEF CT!io_schedule
  <2>. QED BY <2>4, <2>5, <2>7, <2>8, TickKept
<1>12. ASSUME NEW c \in CPUs, NEW t \in TimeTasks, CT!IoDone(t, c) PROVE CT!TicksInv'
  <2>1. /\ x8[t] # None /\ x1[c] = None
        /\ x1' = [x1 EXCEPT ![c] = t] /\ x8' = [x8 EXCEPT ![t] = None] /\ x9' = [x9 EXCEPT ![x8[t]] = @ - 1]
    BY <1>12 DEF CT!IoDone
  <2>2. PICK b \in CPUs : b = x8[t]
    BY <1>1, <2>1
  <2>3. \A d \in CPUs : x1[d] # t
    BY <1>1, <2>1, TimesAssumption DEF CT!RunsOnce
  <2>4. x1' \in [CPUs -> Everyone] /\ x8' \in [TimeTasks -> CPUs \cup {None}] /\ CT!RunsOnce'
    BY <1>1, <2>1, <2>3, TimesAssumption DEF CT!RunsOnce, Everyone
  <2>5. ASSUME NEW d \in CPUs PROVE x9'[d] = Cardinality(WaitsAt(x8', d)) /\ x9'[d] \in Nat
    <3>1. x9[d] = Cardinality(WaitsAt(x8, d)) /\ x9'[d] = x9[d] - (IF d = b THEN 1 ELSE 0) /\ x9[d] \in Nat
      BY <1>1, <1>3, <2>1, <2>2
    <3>2. OneWaits(x8, x8', t, None) /\ None # d
      BY <1>1, <2>1, ProcessorsAssumption DEF OneWaits
    <3>3. /\ x8[t] = d /\ None # d => Cardinality(WaitsAt(x8', d)) = Cardinality(WaitsAt(x8, d)) - 1
          /\ (x8[t] = d <=> None = d) => Cardinality(WaitsAt(x8', d)) = Cardinality(WaitsAt(x8, d))
          /\ x8[t] = d => Cardinality(WaitsAt(x8, d)) > 0
      BY <1>1, <3>2, WaiterMoves
    <3>. QED BY <2>2, <3>1, <3>2, <3>3
  <2>6. x9' \in [CPUs -> Nat]
    BY <1>1, <2>1, <2>5
  <2>7. UNCHANGED <<x2, x3, x4, x5, x6, x7, x10>>
    BY <1>12 DEF CT!IoDone
  <2>. QED BY <2>4, <2>5, <2>6, <2>7, TickKept
<1>13. CASE UNCHANGED CT!vars
  <2>1. UNCHANGED <<x2, x3, x4, x5, x6, x7, x10>> /\ x1' = x1 /\ x8' = x8 /\ x9' = x9
    BY <1>13 DEF CT!vars
  <2>2. CT!RunsOnce'
    BY <1>1, <2>1 DEF CT!RunsOnce
  <2>. QED BY <1>1, <1>3, <2>1, <2>2, TickKept
<1>. QED BY <1>5, <1>6, <1>7, <1>8, <1>9, <1>10, <1>11, <1>12, <1>13 DEF CT!Next

-----------------------------------------------------------------------------
(* cpuacct_charge(): what a group has used on a processor.                 *)
LEMMA SumOfUse ==
  ASSUME NEW S \in SUBSET CPUs, NEW f, \A c \in S : f[c] \in Nat
  PROVE  /\ CA!Sum(f, S) = Cardinality(Units(f, S)) /\ CA!Sum(f, S) \in Nat
         /\ \A c \in S : f[c] \in Int
         /\ IsFiniteSet(S)
<1>1. CA!Sum(f, S) = Cardinality(Units(f, S))
  BY DEF CA!Sum, Units, CA!Cardinality, Cardinality
<1>2. IsFiniteSet(S)
  BY ProcessorsAssumption, FS_Subset
<1>3. \A c \in S : f[c] \in Int
  OBVIOUS
<1>. QED BY <1>1, <1>2, <1>3, UnitsFinite

LEMMA UseChanges ==
  ASSUME NEW S \in SUBSET CPUs, NEW f, NEW g, NEW c \in S, \A d \in S : f[d] \in Nat,
         g[c] \in Nat, \A d \in S \ {c} : g[d] = f[d]
  PROVE  CA!Sum(g, S) = CA!Sum(f, S) + g[c] - f[c] /\ CA!Sum(f, S) \in Nat /\ f[c] <= CA!Sum(f, S)
<1>1. \A d \in S : g[d] \in Nat
  OBVIOUS
<1>2. CA!Sum(f, S) = Cardinality(Units(f, S)) /\ CA!Sum(f, S) \in Nat /\ IsFiniteSet(S) /\ \A d \in S : f[d] \in Int
  BY SumOfUse
<1>3. CA!Sum(g, S) = Cardinality(Units(g, S)) /\ \A d \in S : g[d] \in Int
  BY <1>1, SumOfUse
<1>4. Cardinality(Units(g, S)) = Cardinality(Units(f, S)) + Positive(g[c]) - Positive(f[c])
  BY <1>2, <1>3, UnitsChange
<1>5. Positive(g[c]) = g[c] /\ Positive(f[c]) = f[c]
  BY DEF Positive
<1>6. f[c] <= Cardinality(Units(f, S))
  BY <1>2, UnitsOfOne
<1>. QED BY <1>2, <1>3, <1>4, <1>5, <1>6

LEMMA UseSame ==
  ASSUME NEW S \in SUBSET CPUs, NEW f, NEW g, \A d \in S : f[d] \in Nat, \A d \in S : g[d] = f[d]
  PROVE  CA!Sum(g, S) = CA!Sum(f, S)
<1>1. \A d \in S : g[d] \in Nat
  OBVIOUS
<1>2. CA!Sum(f, S) = Cardinality(Units(f, S)) /\ CA!Sum(g, S) = Cardinality(Units(g, S))
  BY <1>1, SumOfUse
<1>. QED BY <1>2, UnitsSame

LEMMA UseSplit ==
  ASSUME NEW S \in SUBSET CPUs, NEW f, NEW c \in S, \A d \in S : f[d] \in Nat
  PROVE  CA!Sum(f, S) = CA!Sum(f, S \ {c}) + f[c] /\ CA!Sum(f, S \ {c}) \in Nat
<1>1. S \ {c} \in SUBSET CPUs /\ \A d \in S \ {c} : f[d] \in Nat
  OBVIOUS
<1>2. CA!Sum(f, S) = Cardinality(Units(f, S)) /\ IsFiniteSet(S) /\ \A d \in S : f[d] \in Int
  BY SumOfUse
<1>3. CA!Sum(f, S \ {c}) = Cardinality(Units(f, S \ {c})) /\ CA!Sum(f, S \ {c}) \in Nat
  BY <1>1, SumOfUse
<1>4. Cardinality(Units(f, S)) = Cardinality(Units(f, S \ {c})) + Positive(f[c])
  BY <1>2, UnitsSplit
<1>5. Positive(f[c]) = f[c]
  BY DEF Positive
<1>. QED BY <1>2, <1>3, <1>4, <1>5

LEMMA UseNone ==
  ASSUME NEW S \in SUBSET CPUs, NEW f, \A d \in S : f[d] = 0
  PROVE  CA!Sum(f, S) = 0
<1>1. CA!Sum(f, S) = Cardinality(Units(f, S))
  BY SumOfUse
<1>. QED BY <1>1, UnitsNone

(* The low half wraps and the high half takes the carry.                   *)
LEMMA Carry ==
  ASSUME NEW h \in Nat, NEW l \in 0..(HALF - 1)
  PROVE  /\ (l + 1) % HALF \in 0..(HALF - 1)
         /\ (h * HALF + l + 1) \div HALF \in Nat
         /\ ((h * HALF + l + 1) \div HALF) * HALF + ((l + 1) % HALF) - 1 = h * HALF + l
         /\ h * HALF + l \in Nat
<1>1. HALF \in Nat /\ HALF > 0
  BY TimesAssumption
<1>2. PICK m \in Nat : m = h * HALF
  BY <1>1
<1>3. CASE l + 1 < HALF
  <2>1. (l + 1) % HALF = l + 1
    BY <1>1, <1>3
  <2>2. m + l + 1 < HALF * (h + 1) /\ HALF * h <= m + l + 1
    BY <1>1, <1>2, <1>3
  <2>3. (m + l + 1) \div HALF = h
    BY <1>1, <1>2, <2>2
  <2>4. h * HALF + l + 1 = m + l + 1
    BY <1>2
  <2>5. (h * HALF + l + 1) \div HALF = h
    BY <2>3, <2>4, Zenon
  <2>. QED BY <1>1, <1>2, <1>3, <2>1, <2>5
<1>4. CASE l + 1 = HALF
  <2>1. (l + 1) % HALF = 0
    BY <1>1, <1>4
  <2>2. m + l + 1 = HALF * (h + 1)
    BY <1>1, <1>2, <1>4
  <2>3. (m + l + 1) \div HALF = h + 1
    BY <1>1, <1>2, <2>2
  <2>4. (h + 1) * HALF = m + HALF
    BY <1>1, <1>2
  <2>5. h * HALF + l + 1 = m + l + 1
    BY <1>2
  <2>6. (h * HALF + l + 1) \div HALF = h + 1
    BY <2>3, <2>5, Zenon
  <2>. QED BY <1>1, <1>2, <1>4, <2>1, <2>4, <2>6
<1>. QED BY <1>1, <1>3, <1>4

(* What UsageInv says, of the state at one time and at the next.           *)
Holds(ac, r, c) == ac[r] # None /\ ac[r].half /\ c = CA!Lowest(ac[r].todo)
Spent(u, ch, ac, g, c) ==
  IF ch[c] # CA!Idle /\ ch[c].group = g /\ ch[c].high # None THEN ch[c].high * HALF + u[g][c][2] - 1
  ELSE IF \E r \in Readers : Holds(ac, r, c) /\ ac[r].group = g THEN 0 ELSE u[g][c][1] * HALF + u[g][c][2]
SpentBy(u, ch, ac, g) == [c \in CPUs |-> Spent(u, ch, ac, g, c)]
ChargedTold(u, ch, ac, k) == \A g \in Groups :
  /\ \A c \in CPUs : SpentBy(u, ch, ac, g)[c] \in Nat
  /\ k[g] = CA!Sum(SpentBy(u, ch, ac, g), CPUs)
OneTold(u, ch, ac, a) == a # None /\ a.how = "read" =>
  a.total + CA!Sum(SpentBy(u, ch, ac, a.group), a.todo) \in a.low..a.most
ReadTold(u, ch, ac) == \A r \in Readers : OneTold(u, ch, ac, ac[r])
LockTold(u, ch, ac) == \A r \in Readers : ac[r] # None /\ ac[r].half =>
  /\ ac[r].how = "write" /\ ac[r].todo # {}
  /\ ch[CA!Lowest(ac[r].todo)] = CA!Idle /\ u[ac[r].group][CA!Lowest(ac[r].todo)][2] = 0
  /\ \A o \in Readers \ {r} : ~Holds(ac, o, CA!Lowest(ac[r].todo))
MixTold(ac) == \A w, r \in Readers :
  ac[w] # None /\ ac[w].how = "write" /\ ac[r] # None /\ ac[r].how = "read" /\ ac[w].group = ac[r].group
    => ac[r].low = 0
Usages   == [Groups -> [CPUs -> Nat \X (0..(HALF - 1))]]
Charges  == {CA!Idle} \cup [group : Groups, high : Nat \cup {None}]
TypeTold(u, ch, ac, k) ==
  /\ u \in Usages /\ ch \in [CPUs -> Charges] /\ ac \in [Readers -> {None} \cup CA!Accesses]
  /\ k \in [Groups -> Nat]

LEMMA MixSays == ASSUME x6 \in [Readers -> {None} \cup CA!Accesses] PROVE CA!ResetsMix <=> MixTold(x6)
<1>1. ASSUME NEW r \in Readers, x6[r] # None PROVE x6[r].group \in Groups
  BY <1>1 DEF CA!Accesses
<1>. QED BY <1>1 DEF CA!ResetsMix, MixTold, CA!Resetting, CA!Reads

LEMMA MixSaysNext == ASSUME x6' \in [Readers -> {None} \cup CA!Accesses] PROVE CA!ResetsMix' <=> MixTold(x6')
<1>1. ASSUME NEW r \in Readers, x6'[r] # None PROVE x6'[r].group \in Groups
  BY <1>1 DEF CA!Accesses
<1>. QED BY <1>1 DEF CA!ResetsMix, MixTold, CA!Resetting, CA!Reads

LEMMA UsageSays ==
  CA!UsageInv <=> /\ TypeTold(x4, x5, x6, x7) /\ LockTold(x4, x5, x6) /\ MixTold(x6)
                  /\ ChargedTold(x4, x5, x6, x7) /\ ReadTold(x4, x5, x6) /\ ~x8
<1>1. \A g, c : CA!Used(g, c) = Spent(x4, x5, x6, g, c)
  BY DEF CA!Used, CA!Value, CA!Writing, Holds, Spent
<1>2. \A g : CA!UsedBy(g) = SpentBy(x4, x5, x6, g)
  BY <1>1 DEF CA!UsedBy, SpentBy
<1>3. \A g : \A c \in CPUs : SpentBy(x4, x5, x6, g)[c] = CA!Used(g, c)
  BY <1>1 DEF SpentBy
<1>4. CA!NoneLost <=> ChargedTold(x4, x5, x6, x7)
  BY <1>2, <1>3 DEF CA!NoneLost, ChargedTold
<1>5. CA!ReadSoFar <=> ReadTold(x4, x5, x6)
  BY <1>2 DEF CA!ReadSoFar, ReadTold, OneTold
<1>6. CA!LockHeld <=> LockTold(x4, x5, x6)
  BY DEF CA!LockHeld, LockTold, CA!Writing, Holds
<1>7. CA!UsageTypeOK <=> TypeTold(x4, x5, x6, x7)
  BY DEF CA!UsageTypeOK, TypeTold, Usages, Charges
<1>8. TypeTold(x4, x5, x6, x7) => (CA!ResetsMix <=> MixTold(x6))
  BY MixSays DEF TypeTold
<1>. QED BY <1>4, <1>5, <1>6, <1>7, <1>8 DEF CA!UsageInv

LEMMA UsageSaysNext ==
  CA!UsageInv' <=> /\ TypeTold(x4', x5', x6', x7') /\ LockTold(x4', x5', x6') /\ MixTold(x6')
                   /\ ChargedTold(x4', x5', x6', x7') /\ ReadTold(x4', x5', x6') /\ ~x8'
<1>1. \A g, c : CA!Used(g, c)' = Spent(x4', x5', x6', g, c)
  BY DEF CA!Used, CA!Value, CA!Writing, Holds, Spent
<1>2. \A g : CA!UsedBy(g)' = SpentBy(x4', x5', x6', g)
  BY <1>1 DEF CA!UsedBy, SpentBy
<1>3. \A g : \A c \in CPUs : SpentBy(x4', x5', x6', g)[c] = CA!Used(g, c)'
  BY <1>1 DEF SpentBy
<1>4. \A g : CA!Sum(CA!UsedBy(g), CPUs)' = CA!Sum(SpentBy(x4', x5', x6', g), CPUs)
  <2>1. \A g : CA!Sum(CA!UsedBy(g), CPUs)' = CA!Sum(CA!UsedBy(g)', CPUs)
    BY DEF CA!Sum, CA!Cardinality
  <2>. QED BY <1>2, <2>1
<1>5. \A r \in Readers : CA!Sum(CA!UsedBy(x6[r].group), x6[r].todo)' = CA!Sum(SpentBy(x4', x5', x6', x6'[r].group), x6'[r].todo)
  <2>. SUFFICES ASSUME NEW r \in Readers
                PROVE  CA!Sum(CA!UsedBy(x6[r].group), x6[r].todo)' = CA!Sum(SpentBy(x4', x5', x6', x6'[r].group), x6'[r].todo)
    OBVIOUS
  <2>1. CA!Sum(CA!UsedBy(x6[r].group), x6[r].todo)' = CA!Sum(CA!UsedBy(x6[r].group)', x6'[r].todo)
    BY DEF CA!Sum, CA!Cardinality
  <2>2. CA!UsedBy(x6[r].group)' = SpentBy(x4', x5', x6', x6'[r].group)
    BY DEF CA!UsedBy, SpentBy, CA!Used, CA!Value, Spent, CA!Writing, Holds
  <2>. QED BY <2>1, <2>2
<1>6. CA!NoneLost' <=> ChargedTold(x4', x5', x6', x7')
  BY <1>3, <1>4 DEF CA!NoneLost, ChargedTold
<1>7. CA!ReadSoFar' <=> ReadTold(x4', x5', x6')
  BY <1>5 DEF CA!ReadSoFar, ReadTold, OneTold
<1>8. CA!LockHeld' <=> LockTold(x4', x5', x6')
  BY DEF CA!LockHeld, LockTold, CA!Lowest, CA!Idle, CA!Writing, Holds
<1>9. CA!UsageTypeOK' <=> TypeTold(x4', x5', x6', x7')
  BY DEF CA!UsageTypeOK, TypeTold, Usages, Charges, CA!Idle, CA!Accesses
<1>10. TypeTold(x4', x5', x6', x7') => (CA!ResetsMix' <=> MixTold(x6'))
  BY MixSaysNext DEF TypeTold
<1>. QED BY <1>6, <1>7, <1>8, <1>9, <1>10 DEF CA!UsageInv

(* One half of what a group has on a processor is written.                 *)
OneHalf(u, v, g, c, pair) ==
  /\ v \in Usages /\ v[g][c] = pair
  /\ \A h \in Groups, d \in CPUs : ~(h = g /\ d = c) => v[h][d] = u[h][d]

LEMMA HalfWritten ==
  ASSUME NEW u \in Usages, NEW g \in Groups, NEW c \in CPUs, NEW v
  PROVE  /\ u[g][c][1] \in Nat /\ u[g][c][2] \in 0..(HALF - 1)
         /\ \A e \in Nat : v = [u EXCEPT ![g][c][1] = e] => OneHalf(u, v, g, c, <<e, u[g][c][2]>>)
         /\ \A e \in 0..(HALF - 1) : v = [u EXCEPT ![g][c][2] = e] => OneHalf(u, v, g, c, <<u[g][c][1], e>>)
<1>1. u[g] \in [CPUs -> Nat \X (0..(HALF - 1))] /\ u[g][c] \in Nat \X (0..(HALF - 1))
  BY DEF Usages
<1>2. ASSUME NEW pair \in Nat \X (0..(HALF - 1)), v = [u EXCEPT ![g] = [u[g] EXCEPT ![c] = pair]]
      PROVE  OneHalf(u, v, g, c, pair)
  <2>1. [u[g] EXCEPT ![c] = pair] \in [CPUs -> Nat \X (0..(HALF - 1))]
    BY <1>1
  <2>2. v \in Usages /\ v[g] = [u[g] EXCEPT ![c] = pair] /\ \A h \in Groups \ {g} : v[h] = u[h]
    BY <1>2, <2>1 DEF Usages
  <2>3. v[g][c] = pair /\ \A d \in CPUs \ {c} : v[g][d] = u[g][d]
    BY <1>1, <2>2
  <2>. QED BY <2>2, <2>3 DEF OneHalf
<1>3. ASSUME NEW e \in Nat, v = [u EXCEPT ![g][c][1] = e] PROVE OneHalf(u, v, g, c, <<e, u[g][c][2]>>)
  <2>1. [u[g][c] EXCEPT ![1] = e] = <<e, u[g][c][2]>>
    BY <1>1, PairExcept
  <2>2. v = [u EXCEPT ![g] = [u[g] EXCEPT ![c] = [u[g][c] EXCEPT ![1] = e]]]
    BY <1>3
  <2>3. <<e, u[g][c][2]>> \in Nat \X (0..(HALF - 1))
    BY <1>1
  <2>. QED BY <1>2, <2>1, <2>2, <2>3
<1>4. ASSUME NEW e \in 0..(HALF - 1), v = [u EXCEPT ![g][c][2] = e] PROVE OneHalf(u, v, g, c, <<u[g][c][1], e>>)
  <2>1. [u[g][c] EXCEPT ![2] = e] = <<u[g][c][1], e>>
    BY <1>1, PairExcept
  <2>2. v = [u EXCEPT ![g] = [u[g] EXCEPT ![c] = [u[g][c] EXCEPT ![2] = e]]]
    BY <1>4
  <2>3. <<u[g][c][1], e>> \in Nat \X (0..(HALF - 1))
    BY <1>1
  <2>. QED BY <1>2, <2>1, <2>2, <2>3
<1>. QED BY <1>1, <1>3, <1>4

LEMMA UsageInit == ASSUME CA!Init PROVE CA!UsageInv
<1>1. HALF \in Nat /\ HALF > 0
  BY TimesAssumption
<1>2. TypeTold(x4, x5, x6, x7)
  BY <1>1 DEF CA!Init, TypeTold, Usages, Charges
<1>3. /\ \A g \in Groups : \A c \in CPUs : x4[g][c][1] = 0 /\ x4[g][c][2] = 0
      /\ (\A c \in CPUs : x5[c] = CA!Idle) /\ (\A r \in Readers : x6[r] = None) /\ \A g \in Groups : x7[g] = 0
  BY DEF CA!Init
<1>4. \A g \in Groups : \A c \in CPUs : Spent(x4, x5, x6, g, c) = 0
  BY <1>1, <1>3 DEF Spent, Holds
<1>5. \A g \in Groups : \A c \in CPUs : SpentBy(x4, x5, x6, g)[c] = 0
  BY <1>4 DEF SpentBy
<1>6. \A g \in Groups : CA!Sum(SpentBy(x4, x5, x6, g), CPUs) = 0
  BY <1>5, UseNone
<1>7. ChargedTold(x4, x5, x6, x7)
  BY <1>3, <1>5, <1>6 DEF ChargedTold
<1>8. LockTold(x4, x5, x6) /\ MixTold(x6) /\ ReadTold(x4, x5, x6)
  BY <1>3 DEF LockTold, MixTold, ReadTold, OneTold
<1>. QED BY <1>2, <1>7, <1>8, UsageSays DEF CA!Init

(* A step that charges one group, or none.                                 *)
LEMMA OneCharged ==
  ASSUME CA!UsageInv, TypeTold(x4', x5', x6', x7'), LockTold(x4', x5', x6'), MixTold(x6'), ~x8', NEW g \in Groups,
         \A h \in Groups \ {g} : \A c \in CPUs : Spent(x4', x5', x6', h, c) = Spent(x4, x5, x6, h, c),
         \A h \in Groups \ {g} : x7'[h] = x7[h],
         \A c \in CPUs : SpentBy(x4', x5', x6', g)[c] \in Nat,
         x7'[g] = CA!Sum(SpentBy(x4', x5', x6', g), CPUs),
         ReadTold(x4', x5', x6')
  PROVE  CA!UsageInv'
<1>1. ChargedTold(x4, x5, x6, x7)
  BY UsageSays
<1>2. ASSUME NEW h \in Groups
      PROVE  /\ \A c \in CPUs : SpentBy(x4', x5', x6', h)[c] \in Nat
             /\ x7'[h] = CA!Sum(SpentBy(x4', x5', x6', h), CPUs)
  <2>1. CASE h = g
    BY <2>1
  <2>2. CASE h # g
    <3>1. SpentBy(x4', x5', x6', h) = SpentBy(x4, x5, x6, h)
      BY <2>2 DEF SpentBy
    <3>2. x7'[h] = x7[h]
      BY <2>2
    <3>. QED BY <1>1, <3>1, <3>2 DEF ChargedTold
  <2>. QED BY <2>1, <2>2
<1>3. ChargedTold(x4', x5', x6', x7')
  BY <1>2 DEF ChargedTold
<1>. QED BY <1>3, UsageSaysNext

SameSpent == \A g \in Groups : \A c \in CPUs : Spent(x4', x5', x6', g, c) = Spent(x4, x5, x6, g, c)

(* A reader whose group has used what it had is told what it was told.     *)
LEMMA ToldAgain ==
  ASSUME NEW a \in {None} \cup CA!Accesses, OneTold(x4, x5, x6, a),
         a # None => \A c \in CPUs : Spent(x4', x5', x6', a.group, c) = Spent(x4, x5, x6, a.group, c)
  PROVE  OneTold(x4', x5', x6', a)
<1>1. CASE a = None
  BY <1>1 DEF OneTold
<1>2. CASE a # None
  <2>1. SpentBy(x4', x5', x6', a.group) = SpentBy(x4, x5, x6, a.group)
    BY <1>2 DEF SpentBy
  <2>. QED BY <2>1 DEF OneTold
<1>. QED BY <1>1, <1>2

LEMMA NoneCharged ==
  ASSUME CA!UsageInv, TypeTold(x4', x5', x6', x7'), LockTold(x4', x5', x6'), MixTold(x6'), ~x8', x7' = x7, SameSpent,
         \A r \in Readers : x6'[r] = x6[r] \/ OneTold(x4', x5', x6', x6'[r])
  PROVE  CA!UsageInv'
<1>1. /\ ChargedTold(x4, x5, x6, x7) /\ ReadTold(x4, x5, x6)
      /\ x6 \in [Readers -> {None} \cup CA!Accesses]
  BY UsageSays DEF TypeTold
<1>2. \A g \in Groups : SpentBy(x4', x5', x6', g) = SpentBy(x4, x5, x6, g)
  BY DEF SpentBy, SameSpent
<1>3. ChargedTold(x4', x5', x6', x7')
  BY <1>1, <1>2 DEF ChargedTold
<1>4. ASSUME NEW r \in Readers, x6'[r] = x6[r] PROVE OneTold(x4', x5', x6', x6'[r])
  <2>1. OneTold(x4, x5, x6, x6[r])
    BY <1>1 DEF ReadTold
  <2>2. x6[r] \in {None} \cup CA!Accesses /\ (x6[r] # None => x6[r].group \in Groups)
    BY <1>1 DEF CA!Accesses
  <2>3. x6[r] # None => \A c \in CPUs : Spent(x4', x5', x6', x6[r].group, c) = Spent(x4, x5, x6, x6[r].group, c)
    BY <2>2 DEF SameSpent
  <2>4. OneTold(x4', x5', x6', x6[r])
    BY <2>1, <2>2, <2>3, ToldAgain
  <2>. QED BY <1>4, <2>4
<1>5. ReadTold(x4', x5', x6')
  BY <1>4 DEF ReadTold
<1>. QED BY <1>3, <1>5, UsageSaysNext

LEMMA LowestLeft ==
  ASSUME NEW S, S \subseteq CPUs, S # {}
  PROVE  CA!Lowest(S) \in S
BY LeastNumber, ProcessorsAssumption DEF CA!Lowest

(* As long as the same processors are held for the same groups, a group    *)
(* has used as much.                                                       *)
HeldFor(ac, g, c) == \E r \in Readers : Holds(ac, r, c) /\ ac[r].group = g

LEMMA UsageStep == ASSUME CA!UsageInv, [CA!Next]_CA!vars PROVE CA!UsageInv'
<1>1. /\ TypeTold(x4, x5, x6, x7) /\ LockTold(x4, x5, x6) /\ MixTold(x6)
      /\ ChargedTold(x4, x5, x6, x7) /\ ReadTold(x4, x5, x6) /\ ~x8
  BY UsageSays
<1>2. /\ x4 \in Usages /\ x5 \in [CPUs -> Charges] /\ x7 \in [Groups -> Nat]
      /\ x6 \in [Readers -> {None} \cup CA!Accesses]
      /\ HALF \in Nat /\ HALF > 0
  BY <1>1, TimesAssumption DEF TypeTold
<1>3. \A g \in Groups : \A c \in CPUs : x4[g][c][1] \in Nat /\ x4[g][c][2] \in 0..(HALF - 1)
  BY <1>2 DEF Usages
<1>4. \A c \in CPUs : x5[c] # CA!Idle => /\ x5[c] \in [group : Groups, high : Nat \cup {None}]
                                         /\ \A r \in Readers : ~Holds(x6, r, c)
  BY <1>1, <1>2 DEF Charges, LockTold, Holds
<1>5. \A r \in Readers : x6[r] # None => x6[r] \in CA!Accesses /\ x6[r].group \in Groups /\ x6[r].todo \in SUBSET CPUs
  BY <1>2 DEF CA!Accesses
<1>6. \A g \in Groups : /\ \A c \in CPUs : Spent(x4, x5, x6, g, c) \in Nat
                        /\ x7[g] = CA!Sum(SpentBy(x4, x5, x6, g), CPUs)
  BY <1>1 DEF ChargedTold, SpentBy
<1>7. ASSUME UNCHANGED <<x4, x5, x6, x7, x8>> PROVE CA!UsageInv'
  <2>1. SameSpent
    BY <1>7 DEF SameSpent
  <2>. QED BY <1>1, <1>7, <2>1, NoneCharged
<1>8. ASSUME NEW g \in Groups, CA!cpuacct_destroy(g) PROVE CA!UsageInv'
  <2>1. x4' = [x4 EXCEPT ![g] = [c \in CPUs |-> <<0, 0>>]] /\ x7' = [x7 EXCEPT ![g] = 0]
    BY <1>8 DEF CA!cpuacct_destroy
  <2>2. x5' = x5 /\ x6' = x6 /\ x8' = x8
    BY <1>8 DEF CA!cpuacct_destroy
  <2>3. g \in CA!Above(g)
    BY DEF CA!Above
  <2>4. ASSUME NEW c \in CPUs, x5[c] # CA!Idle PROVE x5[c].group # g
    BY <1>8, <2>3, <2>4 DEF CA!cpuacct_destroy
  <2>5. \A r \in Readers : x6[r] # None => x6[r].group # g
    BY <1>8 DEF CA!cpuacct_destroy
  <2>6. [c \in CPUs |-> <<0, 0>>] \in [CPUs -> Nat \X (0..(HALF - 1))]
    BY <1>2
  <2>7. /\ x4' \in Usages /\ \A c \in CPUs : x4'[g][c][1] = 0 /\ x4'[g][c][2] = 0
        /\ \A h \in Groups \ {g} : x4'[h] = x4[h] /\ x7'[h] = x7[h]
        /\ x7' \in [Groups -> Nat] /\ x7'[g] = 0
    BY <1>2, <2>1, <2>6 DEF Usages
  <2>8. TypeTold(x4', x5', x6', x7') /\ MixTold(x6')
    BY <1>1, <2>2, <2>7 DEF TypeTold
  <2>8a. LockTold(x4', x5', x6')
    BY <1>1, <1>5, <2>2, <2>5, <2>7 DEF LockTold
  <2>9. \A c \in CPUs : Spent(x4', x5', x6', g, c) = 0
    BY <1>2, <2>2, <2>4, <2>5, <2>7 DEF Spent, Holds
  <2>10. \A h \in Groups \ {g} : \A c \in CPUs : Spent(x4', x5', x6', h, c) = Spent(x4, x5, x6, h, c)
    BY <2>2, <2>7 DEF Spent
  <2>11. \A c \in CPUs : SpentBy(x4', x5', x6', g)[c] = 0
    BY <2>9 DEF SpentBy
  <2>12. CA!Sum(SpentBy(x4', x5', x6', g), CPUs) = 0
    BY <2>11, UseNone
  <2>13. ReadTold(x4', x5', x6')
    <3>1. ASSUME NEW r \in Readers PROVE OneTold(x4', x5', x6', x6[r])
      <4>1. OneTold(x4, x5, x6, x6[r]) /\ x6[r] \in {None} \cup CA!Accesses
        BY <1>1, <1>2 DEF ReadTold
      <4>2. x6[r] # None => \A c \in CPUs : Spent(x4', x5', x6', x6[r].group, c) = Spent(x4, x5, x6, x6[r].group, c)
        BY <1>5, <2>5, <2>10
      <4>. QED BY <4>1, <4>2, ToldAgain
    <3>. QED BY <2>2, <3>1 DEF ReadTold
  <2>14. ~x8'
    BY <1>1, <2>2
  <2>. QED BY <2>7, <2>8, <2>8a, <2>10, <2>11, <2>12, <2>13, <2>14, OneCharged
<1>9. ASSUME NEW c \in CPUs, NEW g \in Groups, CA!BeginCharge(c, g) PROVE CA!UsageInv'
  <2>1. x5' = [x5 EXCEPT ![c] = [group |-> g, high |-> None]] /\ x5[c] = CA!Idle /\ \A r \in Readers : ~Holds(x6, r, c)
    BY <1>9 DEF CA!BeginCharge, CA!LockFree, CA!Writing, Holds
  <2>2. x4' = x4 /\ x6' = x6 /\ x7' = x7 /\ ~x8'
    BY <1>1, <1>9 DEF CA!BeginCharge
  <2>3. x5' \in [CPUs -> Charges] /\ x5'[c] = [group |-> g, high |-> None] /\ \A d \in CPUs \ {c} : x5'[d] = x5[d]
    BY <1>2, <2>1 DEF Charges
  <2>4. TypeTold(x4', x5', x6', x7') /\ MixTold(x6')
    BY <1>1, <2>2, <2>3 DEF TypeTold
  <2>4a. LockTold(x4', x5', x6')
    <3>1. ASSUME NEW r \in Readers, x6[r] # None, x6[r].half PROVE x5'[CA!Lowest(x6[r].todo)] = CA!Idle
      <4>1. CA!Lowest(x6[r].todo) # c /\ CA!Lowest(x6[r].todo) \in CPUs
        BY <1>1, <1>5, <2>1, <3>1, LowestLeft DEF Holds, LockTold
      <4>. QED BY <1>1, <2>3, <3>1, <4>1 DEF LockTold
    <3>. QED BY <1>1, <2>2, <3>1 DEF LockTold
  <2>5. ASSUME NEW h \in Groups, NEW d \in CPUs
        PROVE  Spent(x4', x5', x6', h, d) = Spent(x4, x5, x6, h, d)
    <3>1. CASE d = c
      BY <2>1, <2>2, <2>3, <3>1 DEF Spent
    <3>2. CASE d # c
      BY <2>2, <2>3, <3>2 DEF Spent
    <3>. QED BY <3>1, <3>2
  <2>. QED BY <2>2, <2>4, <2>4a, <2>5, NoneCharged DEF SameSpent
<1>10. ASSUME NEW c \in CPUs, CA!ChargeLow(c) PROVE CA!UsageInv'
  <2>1. PICK g \in Groups : g = x5[c].group /\ x5[c] # CA!Idle /\ x5[c].high = None /\ \A r \in Readers : ~Holds(x6, r, c)
    BY <1>4, <1>10 DEF CA!ChargeLow
  <2>2. PICK h \in Nat, l \in 0..(HALF - 1) : h = x4[g][c][1] /\ l = x4[g][c][2]
    BY <1>3
  <2>3. PICK high \in Nat, low \in 0..(HALF - 1) :
          /\ high = (h * HALF + l + 1) \div HALF /\ low = (l + 1) % HALF
          /\ high * HALF + low - 1 = h * HALF + l
    BY Carry
  <2>4. x4' = [x4 EXCEPT ![g][c][2] = low] /\ x5' = [x5 EXCEPT ![c].high = high]
    BY <1>10, <2>1, <2>2, <2>3 DEF CA!ChargeLow, CA!Value
  <2>5. x6' = x6 /\ x7' = x7 /\ ~x8'
    BY <1>1, <1>10 DEF CA!ChargeLow
  <2>6. OneHalf(x4, x4', g, c, <<h, low>>)
    BY <1>2, <2>2, <2>4, HalfWritten
  <2>7. x5' \in [CPUs -> Charges] /\ x5'[c].group = g /\ x5'[c].high = high /\ \A d \in CPUs \ {c} : x5'[d] = x5[d]
    BY <1>2, <1>4, <2>1, <2>4 DEF Charges
  <2>8. x5'[c] # CA!Idle /\ high # None
    BY <2>7, TimesAssumption DEF CA!Idle
  <2>9. TypeTold(x4', x5', x6', x7') /\ MixTold(x6')
    BY <1>1, <2>5, <2>6, <2>7 DEF TypeTold, OneHalf
  <2>10. LockTold(x4', x5', x6')
    <3>1. ASSUME NEW r \in Readers, x6[r] # None, x6[r].half
          PROVE  /\ x5'[CA!Lowest(x6[r].todo)] = CA!Idle
                 /\ x4'[x6[r].group][CA!Lowest(x6[r].todo)][2] = 0
      <4>1. CA!Lowest(x6[r].todo) # c /\ CA!Lowest(x6[r].todo) \in CPUs
        BY <1>1, <1>5, <2>1, <3>1, LowestLeft DEF Holds, LockTold
      <4>. QED BY <1>1, <1>5, <2>6, <2>7, <3>1, <4>1 DEF LockTold, OneHalf
    <3>. QED BY <1>1, <2>5, <3>1 DEF LockTold
  <2>11. ASSUME NEW k \in Groups, NEW d \in CPUs
         PROVE  Spent(x4', x5', x6', k, d) = Spent(x4, x5, x6, k, d)
    <3>1. CASE d = c /\ k = g
      <4>1. Spent(x4, x5, x6, g, c) = h * HALF + l
        BY <2>1, <2>2 DEF Spent
      <4>2. x4'[g][c][2] = low
        BY <2>6 DEF OneHalf
      <4>3. Spent(x4', x5', x6', g, c) = high * HALF + low - 1
        BY <2>7, <2>8, <4>2 DEF Spent
      <4>. QED BY <2>3, <3>1, <4>1, <4>3
    <3>2. CASE d = c /\ k # g
      BY <2>1, <2>5, <2>6, <2>7, <3>2 DEF Spent, OneHalf
    <3>3. CASE d # c
      BY <2>5, <2>6, <2>7, <3>3 DEF Spent, OneHalf
    <3>. QED BY <3>1, <3>2, <3>3
  <2>. QED BY <2>5, <2>9, <2>10, <2>11, NoneCharged DEF SameSpent
<1>11. ASSUME NEW c \in CPUs, CA!ChargeHigh(c) PROVE CA!UsageInv'
  <2>1. PICK g \in Groups : g = x5[c].group /\ x5[c] # CA!Idle /\ x5[c].high # None /\ \A r \in Readers : ~Holds(x6, r, c)
    BY <1>4, <1>11 DEF CA!ChargeHigh
  <2>2. PICK h \in Nat, l \in 0..(HALF - 1) : h = x5[c].high /\ l = x4[g][c][2]
    BY <1>3, <1>4, <2>1
  <2>3. /\ x4' = [x4 EXCEPT ![g][c][1] = h]
        /\ x5' = [x5 EXCEPT ![c] = IF Parent[g] = None THEN CA!Idle ELSE [group |-> Parent[g], high |-> None]]
        /\ x7' = [x7 EXCEPT ![g] = @ + 1]
        /\ x6' = [r \in Readers |-> IF CA!Reads(r, g) THEN [x6[r] EXCEPT !.most = @ + 1] ELSE x6[r]]
    BY <1>11, <2>1, <2>2 DEF CA!ChargeHigh
  <2>4. ASSUME NEW r \in Readers
        PROVE  /\ x6'[r] \in {None} \cup CA!Accesses
               /\ x6[r] = None => x6'[r] = None
               /\ x6[r] # None => /\ x6'[r] # None /\ x6'[r].how = x6[r].how /\ x6'[r].group = x6[r].group
                                  /\ x6'[r].todo = x6[r].todo /\ x6'[r].half = x6[r].half
                                  /\ x6'[r].total = x6[r].total /\ x6'[r].low = x6[r].low
                                  /\ x6[r].how = "read" /\ x6[r].group = g => x6'[r].most = x6[r].most + 1
                                  /\ ~(x6[r].how = "read" /\ x6[r].group = g) => x6'[r] = x6[r]
    <3>1. CASE CA!Reads(r, g)
      <4>1. x6[r] # None /\ x6[r] \in CA!Accesses /\ x6[r].group = g /\ x6[r].how = "read"
        BY <1>5, <3>1 DEF CA!Reads
      <4>2. PICK m \in Nat : m = x6[r].most + 1
        BY <4>1 DEF CA!Accesses
      <4>3. x6'[r] = [x6[r] EXCEPT !.most = m]
        BY <2>3, <3>1, <4>2
      <4>4. /\ x6'[r] \in CA!Accesses /\ x6'[r].how = x6[r].how /\ x6'[r].group = x6[r].group
            /\ x6'[r].todo = x6[r].todo /\ x6'[r].half = x6[r].half
            /\ x6'[r].total = x6[r].total /\ x6'[r].low = x6[r].low /\ x6'[r].most = m
        BY <4>1, <4>3 DEF CA!Accesses
      <4>5. x6'[r] # None
        BY <4>4, ProcessorsAssumption
      <4>. QED BY <4>1, <4>2, <4>4, <4>5
    <3>2. CASE ~CA!Reads(r, g)
      BY <1>2, <2>3, <3>2 DEF CA!Reads
    <3>. QED BY <3>1, <3>2
  <2>5. OneHalf(x4, x4', g, c, <<h, l>>)
    BY <1>2, <2>2, <2>3, HalfWritten
  <2>6. /\ x5' \in [CPUs -> Charges] /\ \A d \in CPUs \ {c} : x5'[d] = x5[d]
        /\ x5'[c] # CA!Idle => x5'[c].high = None
    BY <1>2, <2>3, TreeAssumption DEF Charges
  <2>7. x7' \in [Groups -> Nat] /\ x7'[g] = x7[g] + 1 /\ \A k \in Groups \ {g} : x7'[k] = x7[k]
    BY <1>2, <2>3
  <2>8. TypeTold(x4', x5', x6', x7')
    <3>1. x6' \in [Readers -> {None} \cup CA!Accesses]
      BY <2>3, <2>4
    <3>. QED BY <2>5, <2>6, <2>7, <3>1 DEF TypeTold, OneHalf
  <2>9. \A r \in Readers : \A d : Holds(x6', r, d) <=> Holds(x6, r, d)
    BY <2>4 DEF Holds
  <2>9a. LockTold(x4', x5', x6')
    <3>1. ASSUME NEW r \in Readers, x6'[r] # None, x6'[r].half
          PROVE  /\ x6'[r].how = "write" /\ x6'[r].todo # {}
                 /\ x5'[CA!Lowest(x6'[r].todo)] = CA!Idle
                 /\ x4'[x6'[r].group][CA!Lowest(x6'[r].todo)][2] = 0
                 /\ \A o \in Readers \ {r} : ~Holds(x6', o, CA!Lowest(x6'[r].todo))
      <4>1. /\ x6[r] # None /\ x6[r].half /\ x6[r].how = x6'[r].how /\ x6[r].todo = x6'[r].todo
            /\ x6[r].group = x6'[r].group /\ x6[r].group \in Groups
        BY <1>5, <2>4, <3>1
      <4>2. /\ x6[r].how = "write" /\ x6[r].todo # {}
            /\ x5[CA!Lowest(x6[r].todo)] = CA!Idle /\ x4[x6[r].group][CA!Lowest(x6[r].todo)][2] = 0
            /\ \A o \in Readers \ {r} : ~Holds(x6, o, CA!Lowest(x6[r].todo))
        BY <1>1, <4>1 DEF LockTold
      <4>3. CA!Lowest(x6[r].todo) # c /\ CA!Lowest(x6[r].todo) \in CPUs
        BY <1>5, <2>1, <4>1, <4>2, LowestLeft DEF Holds
      <4>4. x5'[CA!Lowest(x6[r].todo)] = CA!Idle /\ x4'[x6[r].group][CA!Lowest(x6[r].todo)][2] = 0
        BY <2>5, <2>6, <4>1, <4>2, <4>3 DEF OneHalf
      <4>. QED BY <2>9, <4>1, <4>2, <4>4
    <3>. QED BY <3>1 DEF LockTold
  <2>9b. MixTold(x6')
    BY <1>1, <2>4 DEF MixTold
  <2>10. Spent(x4, x5, x6, g, c) = h * HALF + l - 1
    BY <2>1, <2>2 DEF Spent
  <2>11. Spent(x4', x5', x6', g, c) = h * HALF + l
    <3>1. x4'[g][c][1] = h /\ x4'[g][c][2] = l
      BY <2>5 DEF OneHalf
    <3>. QED BY <2>1, <2>6, <2>9, <3>1 DEF Spent
  <2>12. /\ Spent(x4, x5, x6, g, c) \in Nat
         /\ Spent(x4', x5', x6', g, c) = Spent(x4, x5, x6, g, c) + 1
    <3>1. PICK m \in Nat : m = h * HALF
      BY <1>2
    <3>. QED BY <1>6, <2>10, <2>11, <3>1
  <2>13. ASSUME NEW k \in Groups, NEW d \in CPUs, ~(k = g /\ d = c)
         PROVE  Spent(x4', x5', x6', k, d) = Spent(x4, x5, x6, k, d)
    <3>0. HeldFor(x6', k, d) <=> HeldFor(x6, k, d)
      BY <2>4, <2>9 DEF HeldFor, Holds
    <3>0a. x4'[k][d] = x4[k][d]
      BY <2>5, <2>13 DEF OneHalf
    <3>1. CASE d = c
      BY <2>1, <2>6, <2>13, <3>0, <3>0a, <3>1 DEF Spent, HeldFor
    <3>2. CASE d # c
      BY <2>6, <3>0, <3>0a, <3>2 DEF Spent, HeldFor
    <3>. QED BY <3>1, <3>2
  <2>14. PICK f, n : f = SpentBy(x4, x5, x6, g) /\ n = SpentBy(x4', x5', x6', g)
    OBVIOUS
  <2>15. /\ \A d \in CPUs : f[d] \in Nat /\ n[d] \in Nat
         /\ n[c] = f[c] + 1 /\ \A d \in CPUs \ {c} : n[d] = f[d]
    BY <1>6, <2>12, <2>13, <2>14 DEF SpentBy
  <2>16. CA!Sum(n, CPUs) = CA!Sum(f, CPUs) + n[c] - f[c]
    BY <2>15, UseChanges
  <2>17. x7'[g] = CA!Sum(n, CPUs)
    BY <1>2, <1>6, <2>7, <2>14, <2>15, <2>16
  <2>18. ASSUME NEW r \in Readers PROVE OneTold(x4', x5', x6', x6'[r])
    <3>1. OneTold(x4, x5, x6, x6[r]) /\ x6[r] \in {None} \cup CA!Accesses
      BY <1>1, <1>2 DEF ReadTold
    <3>2. CASE x6[r] # None /\ x6[r].how = "read" /\ x6[r].group = g
      <4>1. PICK S \in SUBSET CPUs, total \in Nat, low \in Nat, most \in Nat :
              S = x6[r].todo /\ total = x6[r].total /\ low = x6[r].low /\ most = x6[r].most
        BY <1>5, <3>2 DEF CA!Accesses
      <4>2. total + CA!Sum(f, S) \in low..most
        BY <2>14, <3>1, <3>2, <4>1 DEF OneTold
      <4>3. CA!Sum(f, S) \in Nat /\ (CA!Sum(n, S) = CA!Sum(f, S) \/ CA!Sum(n, S) = CA!Sum(f, S) + 1)
        <5>1. CASE c \in S
          <6>1. (\A d \in S : f[d] \in Nat) /\ n[c] \in Nat /\ (\A d \in S \ {c} : n[d] = f[d]) /\ f[c] \in Nat /\ n[c] = f[c] + 1
            BY <2>15, <5>1
          <6>2. CA!Sum(n, S) = CA!Sum(f, S) + n[c] - f[c] /\ CA!Sum(f, S) \in Nat
            BY <5>1, <6>1, UseChanges
          <6>. QED BY <6>1, <6>2
        <5>2. CASE c \notin S
          <6>1. (\A d \in S : f[d] \in Nat) /\ \A d \in S : n[d] = f[d]
            BY <2>15, <5>2
          <6>2. CA!Sum(n, S) = CA!Sum(f, S) /\ CA!Sum(f, S) \in Nat
            BY <6>1, UseSame, SumOfUse
          <6>. QED BY <6>2
        <5>. QED BY <5>1, <5>2
      <4>4. total + CA!Sum(n, S) \in low..(most + 1)
        BY <4>2, <4>3
      <4>5. x6'[r].group = g /\ x6'[r].todo = S /\ x6'[r].total = total /\ x6'[r].low = low /\ x6'[r].most = most + 1
        BY <2>4, <3>2, <4>1
      <4>. QED BY <2>14, <4>4, <4>5 DEF OneTold
    <3>3. CASE ~(x6[r] # None /\ x6[r].how = "read" /\ x6[r].group = g)
      <4>1. x6'[r] = x6[r]
        BY <2>4, <3>3
      <4>2. CASE x6[r] = None \/ x6[r].how # "read"
        BY <4>1, <4>2 DEF OneTold
      <4>3. CASE x6[r] # None /\ x6[r].group # g
        <5>1. \A d \in CPUs : Spent(x4', x5', x6', x6[r].group, d) = Spent(x4, x5, x6, x6[r].group, d)
          BY <1>5, <2>13, <4>3
        <5>. QED BY <3>1, <4>1, <5>1, ToldAgain
      <4>. QED BY <3>3, <4>2, <4>3
    <3>. QED BY <3>2, <3>3
  <2>19. ~x8'
    BY <1>1, <1>11 DEF CA!ChargeHigh
  <2>20. ReadTold(x4', x5', x6')
    BY <2>18 DEF ReadTold
  <2>. QED BY <2>7, <2>8, <2>9a, <2>9b, <2>13, <2>14, <2>15, <2>17, <2>19, <2>20, OneCharged
<1>12. ASSUME NEW r \in Readers, NEW e \in CA!Accesses \cup {None}, x6' = [x6 EXCEPT ![r] = e],
              UNCHANGED <<x4, x5, x7>>, ~x8', x6[r] = None \/ ~x6[r].half, e = None \/ ~e.half,
              MixTold(x6'), SameSpent => OneTold(x4', x5', x6', e)
       PROVE  CA!UsageInv'
  <2>1. x6'[r] = e /\ \A o \in Readers \ {r} : x6'[o] = x6[o]
    BY <1>2, <1>12
  <2>2. ASSUME NEW o \in Readers, NEW d PROVE Holds(x6', o, d) <=> Holds(x6, o, d)
    BY <1>12, <2>1 DEF Holds
  <2>3. ASSUME NEW o \in Readers, x6'[o] # None, x6'[o].half PROVE x6'[o] = x6[o] /\ o # r
    BY <1>12, <2>1, <2>3
  <2>4. LockTold(x4', x5', x6')
    BY <1>1, <1>12, <2>2, <2>3 DEF LockTold
  <2>5. ASSUME NEW k \in Groups, NEW d \in CPUs PROVE HeldFor(x6', k, d) <=> HeldFor(x6, k, d)
    <3>1. ASSUME NEW o \in Readers PROVE (Holds(x6', o, d) /\ x6'[o].group = k) <=> (Holds(x6, o, d) /\ x6[o].group = k)
      BY <2>1, <2>2, <1>12 DEF Holds
    <3>. QED BY <3>1 DEF HeldFor
  <2>6. SameSpent
    BY <1>12, <2>5 DEF SameSpent, Spent, HeldFor
  <2>7. x6' \in [Readers -> {None} \cup CA!Accesses]
    BY <1>2, <1>12
  <2>8. TypeTold(x4', x5', x6', x7')
    BY <1>2, <1>12, <2>7 DEF TypeTold
  <2>9. \A o \in Readers : x6'[o] = x6[o] \/ OneTold(x4', x5', x6', x6'[o])
    BY <1>12, <2>1, <2>6
  <2>10. ~x8' /\ x7' = x7 /\ MixTold(x6')
    BY <1>1, <1>12
  <2>. QED BY <2>4, <2>6, <2>8, <2>9, <2>10, NoneCharged
<1>13. ASSUME NEW r \in Readers, NEW g \in Groups, CA!cpuusage_read(r, g) PROVE CA!UsageInv'
  <2>1. PICK low, most \in Nat : most = x7[g] /\ low = IF CA!Resetting(g) THEN 0 ELSE most
    BY <1>2
  <2>2. PICK e : e = [how |-> "read", group |-> g, todo |-> CPUs, half |-> FALSE, total |-> 0, low |-> low, most |-> most]
    OBVIOUS
  <2>3. /\ e \in CA!Accesses /\ e.how = "read" /\ e.group = g /\ e.todo = CPUs /\ ~e.half /\ e.total = 0
        /\ e.low = low /\ e.most = most
    BY <2>2 DEF CA!Accesses
  <2>4. x6' = [x6 EXCEPT ![r] = e] /\ x6[r] = None
    BY <1>13, <2>1, <2>2 DEF CA!cpuusage_read, CA!Starts
  <2>5. UNCHANGED <<x4, x5, x7>> /\ ~x8'
    BY <1>1, <1>13 DEF CA!cpuusage_read
  <2>6. MixTold(x6')
    <3>1. SUFFICES ASSUME NEW w \in Readers, NEW o \in Readers, x6'[w] # None, x6'[w].how = "write",
                          x6'[o] # None, x6'[o].how = "read", x6'[w].group = x6'[o].group
                   PROVE  x6'[o].low = 0
      BY DEF MixTold
    <3>2. w # r /\ x6[w] = x6'[w]
      BY <1>2, <2>3, <2>4, <3>1
    <3>3. CASE o = r
      <4>1. CA!Resetting(g)
        BY <1>2, <2>3, <2>4, <3>1, <3>2, <3>3 DEF CA!Resetting
      <4>. QED BY <1>2, <2>1, <2>3, <2>4, <3>3, <4>1
    <3>4. CASE o # r
      BY <1>1, <1>2, <2>4, <3>1, <3>2, <3>4 DEF MixTold
    <3>. QED BY <3>3, <3>4
  <2>7. ASSUME SameSpent PROVE OneTold(x4', x5', x6', e)
    <3>1. SpentBy(x4', x5', x6', g) = SpentBy(x4, x5, x6, g)
      BY <2>7 DEF SpentBy, SameSpent
    <3>2. CA!Sum(SpentBy(x4', x5', x6', g), CPUs) = most /\ low \in 0..most
      BY <1>6, <2>1, <3>1
    <3>3. 0 + CA!Sum(SpentBy(x4', x5', x6', g), CPUs) \in low..most
      BY <3>2
    <3>. QED BY <2>3, <3>3 DEF OneTold
  <2>. QED BY <1>12, <2>3, <2>4, <2>5, <2>6, <2>7
<1>14. ASSUME NEW r \in Readers, CA!cpuacct_cpuusage_read(r) PROVE CA!UsageInv'
  <2>1. x6[r] # None /\ x6[r].how = "read" /\ x6[r].todo # {}
    BY <1>14 DEF CA!cpuacct_cpuusage_read, CA!Busy
  <2>2. x6[r] \in CA!Accesses /\ ~x6[r].half
    BY <1>1, <1>5, <2>1 DEF LockTold
  <2>3. PICK g \in Groups, S \in SUBSET CPUs, total \in Nat, low \in Nat, most \in Nat :
          /\ g = x6[r].group /\ S = x6[r].todo /\ total = x6[r].total /\ low = x6[r].low /\ most = x6[r].most
    BY <2>2 DEF CA!Accesses
  <2>4. PICK c \in S : c = CA!Lowest(S)
    BY <2>1, <2>3, LowestLeft
  <2>5. /\ x5[c] = CA!Idle /\ \A o \in Readers : ~Holds(x6, o, c)
        /\ x6' = [x6 EXCEPT ![r].todo = @ \ {c}, ![r].total = @ + CA!Value(x4[g][c])]
    BY <1>14, <2>3, <2>4 DEF CA!cpuacct_cpuusage_read, CA!LockFree, CA!Writing, Holds
  <2>6. UNCHANGED <<x4, x5, x7>> /\ ~x8'
    BY <1>1, <1>14 DEF CA!cpuacct_cpuusage_read
  <2>8. PICK f : f = SpentBy(x4, x5, x6, g)
    OBVIOUS
  <2>9. (\A d \in S : f[d] \in Nat) /\ f[c] = CA!Value(x4[g][c])
    BY <1>6, <2>3, <2>5, <2>8 DEF SpentBy, Spent, CA!Value
  <2>10. CA!Sum(f, S) = CA!Sum(f, S \ {c}) + f[c] /\ CA!Sum(f, S \ {c}) \in Nat
    BY <2>9, UseSplit
  <2>11. PICK t \in Nat : t = total + f[c]
    BY <2>9
  <2>12. PICK e : e = [x6[r] EXCEPT !.todo = S \ {c}, !.total = t]
    OBVIOUS
  <2>13. x6' = [x6 EXCEPT ![r] = e]
    <3>1. e = [x6[r] EXCEPT !.todo = x6[r].todo \ {c}, !.total = x6[r].total + CA!Value(x4[g][c])]
      BY <2>3, <2>9, <2>11, <2>12
    <3>. QED BY <2>5, <3>1
  <2>14. /\ e \in CA!Accesses /\ e.how = "read" /\ e.group = g /\ e.todo = S \ {c} /\ ~e.half /\ e.total = t
         /\ e.low = low /\ e.most = most
    BY <2>1, <2>2, <2>3, <2>12 DEF CA!Accesses
  <2>15. MixTold(x6')
    <3>1. x6'[r] = e /\ \A o \in Readers \ {r} : x6'[o] = x6[o]
      BY <1>2, <2>13
    <3>. QED BY <1>1, <2>1, <2>3, <2>14, <3>1 DEF MixTold
  <2>16. ASSUME SameSpent PROVE OneTold(x4', x5', x6', e)
    <3>1. SpentBy(x4', x5', x6', g) = f
      BY <2>8, <2>16 DEF SpentBy, SameSpent
    <3>2. total + CA!Sum(f, S) \in low..most
      BY <1>1, <2>1, <2>3, <2>8 DEF ReadTold, OneTold
    <3>3. t + CA!Sum(f, S \ {c}) \in low..most
      BY <2>9, <2>10, <2>11, <3>2
    <3>. QED BY <2>14, <3>1, <3>3 DEF OneTold
  <2>. QED BY <1>12, <2>2, <2>6, <2>13, <2>14, <2>15, <2>16
<1>15. ASSUME NEW r \in Readers, CA!Return(r) PROVE CA!UsageInv'
  <2>1. x6[r] # None /\ x6[r].todo = {} /\ x6' = [x6 EXCEPT ![r] = None]
    BY <1>15 DEF CA!Return
  <2>2. UNCHANGED <<x4, x5, x7>>
    BY <1>15 DEF CA!Return
  <2>3. x6[r] \in CA!Accesses /\ ~x6[r].half
    BY <1>1, <1>5, <2>1 DEF LockTold
  <2>4. x6[r].how = "read" => x6[r].total \in x6[r].low..x6[r].most
    <3>1. SUFFICES ASSUME x6[r].how = "read" PROVE x6[r].total \in x6[r].low..x6[r].most
      OBVIOUS
    <3>2. x6[r].total + CA!Sum(SpentBy(x4, x5, x6, x6[r].group), {}) \in x6[r].low..x6[r].most
      BY <1>1, <2>1, <3>1 DEF ReadTold, OneTold
    <3>3. CA!Sum(SpentBy(x4, x5, x6, x6[r].group), {}) = 0
      BY UseNone
    <3>. QED BY <2>3, <3>2, <3>3 DEF CA!Accesses
  <2>5. ~x8'
    BY <1>1, <1>15, <2>4 DEF CA!Return
  <2>7. MixTold(x6')
    BY <1>1, <1>2, <2>1 DEF MixTold
  <2>8. OneTold(x4', x5', x6', None)
    BY DEF OneTold
  <2>. QED BY <1>12, <2>1, <2>2, <2>3, <2>5, <2>7, <2>8
<1>16. ASSUME NEW r \in Readers, NEW g \in Groups, CA!cpuusage_write(r, g) PROVE CA!UsageInv'
  <2>1. PICK e : e = [how |-> "write", group |-> g, todo |-> CPUs, half |-> FALSE, total |-> 0, low |-> 0, most |-> 0]
    OBVIOUS
  <2>2. e \in CA!Accesses /\ e.how = "write" /\ e.group = g /\ e.todo = CPUs /\ ~e.half /\ e # None
    <3>1. e \in CA!Accesses
      BY <2>1 DEF CA!Accesses
    <3>. QED BY <2>1, <3>1, ProcessorsAssumption
  <2>3. /\ x6' = [o \in Readers |-> IF o = r THEN e ELSE IF CA!Reads(o, g) THEN [x6[o] EXCEPT !.low = 0] ELSE x6[o]]
        /\ x6[r] = None
    BY <1>16, <2>1 DEF CA!cpuusage_write, CA!Starts
  <2>4. UNCHANGED <<x4, x5, x7>> /\ ~x8'
    BY <1>1, <1>16 DEF CA!cpuusage_write
  <2>5. x6'[r] = e
    BY <2>3
  <2>6. ASSUME NEW o \in Readers \ {r}
        PROVE  /\ x6'[o] \in {None} \cup CA!Accesses
               /\ x6[o] = None => x6'[o] = None
               /\ x6[o] # None => /\ x6'[o] # None /\ x6'[o].how = x6[o].how /\ x6'[o].group = x6[o].group
                                  /\ x6'[o].todo = x6[o].todo /\ x6'[o].half = x6[o].half
                                  /\ x6'[o].total = x6[o].total /\ x6'[o].most = x6[o].most
                                  /\ x6[o].how = "read" /\ x6[o].group = g => x6'[o].low = 0
                                  /\ ~(x6[o].how = "read" /\ x6[o].group = g) => x6'[o] = x6[o]
    <3>1. CASE CA!Reads(o, g)
      <4>1. x6[o] # None /\ x6[o] \in CA!Accesses /\ x6[o].group = g /\ x6[o].how = "read"
        BY <1>5, <3>1 DEF CA!Reads
      <4>2. x6'[o] = [x6[o] EXCEPT !.low = 0]
        BY <2>3, <3>1
      <4>3. /\ x6'[o] \in CA!Accesses /\ x6'[o].how = x6[o].how /\ x6'[o].group = x6[o].group
            /\ x6'[o].todo = x6[o].todo /\ x6'[o].half = x6[o].half
            /\ x6'[o].total = x6[o].total /\ x6'[o].low = 0 /\ x6'[o].most = x6[o].most
        BY <4>1, <4>2 DEF CA!Accesses
      <4>4. x6'[o] # None
        BY <4>3, ProcessorsAssumption
      <4>. QED BY <4>1, <4>3, <4>4
    <3>2. CASE ~CA!Reads(o, g)
      BY <1>2, <2>3, <3>2 DEF CA!Reads
    <3>. QED BY <3>1, <3>2
  <2>7. x6' \in [Readers -> {None} \cup CA!Accesses]
    BY <2>2, <2>3, <2>5, <2>6
  <2>8. TypeTold(x4', x5', x6', x7')
    BY <1>1, <2>4, <2>7 DEF TypeTold
  <2>9. ASSUME NEW o \in Readers, NEW d
        PROVE  /\ Holds(x6', o, d) <=> Holds(x6, o, d)
               /\ Holds(x6, o, d) => x6'[o].group = x6[o].group
    <3>1. CASE o = r
      BY <2>2, <2>3, <2>5, <3>1 DEF Holds
    <3>2. CASE o # r
      BY <2>6, <3>2 DEF Holds
    <3>. QED BY <3>1, <3>2
  <2>10. LockTold(x4', x5', x6')
    <3>1. ASSUME NEW o \in Readers, x6'[o] # None, x6'[o].half
          PROVE  /\ x6'[o].how = "write" /\ x6'[o].todo # {}
                 /\ x5'[CA!Lowest(x6'[o].todo)] = CA!Idle
                 /\ x4'[x6'[o].group][CA!Lowest(x6'[o].todo)][2] = 0
                 /\ \A i \in Readers \ {o} : ~Holds(x6', i, CA!Lowest(x6'[o].todo))
      <4>1. o # r
        BY <2>2, <2>5, <3>1
      <4>2. /\ x6[o] # None /\ x6[o].half /\ x6[o].how = x6'[o].how /\ x6[o].todo = x6'[o].todo
            /\ x6[o].group = x6'[o].group
        BY <2>6, <3>1, <4>1
      <4>3. /\ x6[o].how = "write" /\ x6[o].todo # {}
            /\ x5[CA!Lowest(x6[o].todo)] = CA!Idle /\ x4[x6[o].group][CA!Lowest(x6[o].todo)][2] = 0
            /\ \A i \in Readers \ {o} : ~Holds(x6, i, CA!Lowest(x6[o].todo))
        BY <1>1, <4>2 DEF LockTold
      <4>. QED BY <2>4, <2>9, <4>2, <4>3
    <3>. QED BY <3>1 DEF LockTold
  <2>11. SameSpent
    <3>1. ASSUME NEW k \in Groups, NEW d \in CPUs PROVE HeldFor(x6', k, d) <=> HeldFor(x6, k, d)
      BY <2>9 DEF HeldFor
    <3>. QED BY <2>4, <3>1 DEF SameSpent, Spent, HeldFor
  <2>12. MixTold(x6')
    <3>1. SUFFICES ASSUME NEW w \in Readers, NEW o \in Readers, x6'[w] # None, x6'[w].how = "write",
                          x6'[o] # None, x6'[o].how = "read", x6'[w].group = x6'[o].group
                   PROVE  x6'[o].low = 0
      BY DEF MixTold
    <3>2. o # r /\ x6[o] # None /\ x6[o].how = "read" /\ x6[o].group = x6'[o].group
      BY <2>2, <2>5, <2>6, <3>1
    <3>3. CASE x6[o].group = g
      BY <2>6, <3>2, <3>3
    <3>4. CASE x6[o].group # g
      <4>1. x6'[o] = x6[o] /\ w # r
        BY <2>2, <2>5, <2>6, <3>1, <3>2, <3>4
      <4>2. x6[w] # None /\ x6[w].how = "write" /\ x6[w].group = x6[o].group
        BY <2>6, <3>1, <3>2, <4>1
      <4>. QED BY <1>1, <3>2, <4>1, <4>2 DEF MixTold
    <3>. QED BY <3>3, <3>4
  <2>13. ASSUME NEW o \in Readers PROVE x6'[o] = x6[o] \/ OneTold(x4', x5', x6', x6'[o])
    <3>1. CASE o = r
      BY <2>2, <2>5, <3>1 DEF OneTold
    <3>2. CASE o # r /\ x6[o] # None /\ x6[o].how = "read" /\ x6[o].group = g
      <4>1. PICK S \in SUBSET CPUs, total \in Nat, low \in Nat, most \in Nat :
              S = x6[o].todo /\ total = x6[o].total /\ low = x6[o].low /\ most = x6[o].most
        BY <1>5, <3>2 DEF CA!Accesses
      <4>2. PICK f : f = SpentBy(x4, x5, x6, g)
        OBVIOUS
      <4>3. total + CA!Sum(f, S) \in low..most
        BY <1>1, <3>2, <4>1, <4>2 DEF ReadTold, OneTold
      <4>4. \A d \in S : f[d] \in Nat
        BY <1>6, <4>1, <4>2 DEF SpentBy
      <4>5. CA!Sum(f, S) \in Nat
        BY <4>4, SumOfUse
      <4>6. total + CA!Sum(f, S) \in 0..most
        BY <4>3, <4>5
      <4>7. SpentBy(x4', x5', x6', g) = f
        BY <2>11, <4>2 DEF SameSpent, SpentBy
      <4>8. x6'[o].group = g /\ x6'[o].todo = S /\ x6'[o].total = total /\ x6'[o].low = 0 /\ x6'[o].most = most
        BY <2>6, <3>2, <4>1
      <4>. QED BY <4>6, <4>7, <4>8 DEF OneTold
    <3>3. CASE o # r /\ ~(x6[o] # None /\ x6[o].how = "read" /\ x6[o].group = g)
      BY <2>6, <3>3
    <3>. QED BY <3>1, <3>2, <3>3
  <2>. QED BY <2>4, <2>8, <2>10, <2>11, <2>12, <2>13, NoneCharged
<1>17. ASSUME NEW r \in Readers, CA!cpuacct_cpuusage_write(r) PROVE CA!UsageInv'
  <2>1. x6[r] # None /\ x6[r].how = "write" /\ x6[r].todo # {}
    BY <1>17 DEF CA!cpuacct_cpuusage_write, CA!Busy
  <2>2. x6[r] \in CA!Accesses
    BY <1>5, <2>1
  <2>3. PICK g \in Groups, S \in SUBSET CPUs : g = x6[r].group /\ S = x6[r].todo
    BY <2>2 DEF CA!Accesses
  <2>4. PICK c \in S : c = CA!Lowest(S)
    BY <2>1, <2>3, LowestLeft
  <2>5. PICK h \in Nat, l \in 0..(HALF - 1) : h = x4[g][c][1] /\ l = x4[g][c][2]
    BY <1>3
  <2>6. x5' = x5 /\ ~x8' /\ 0 \in Nat /\ 0 \in 0..(HALF - 1)
    BY <1>1, <1>2, <1>17 DEF CA!cpuacct_cpuusage_write
  <2>7. CASE ~x6[r].half
    <3>1. /\ x5[c] = CA!Idle /\ \A o \in Readers : ~Holds(x6, o, c)
          /\ x6' = [x6 EXCEPT ![r].half = TRUE]
          /\ x4' = [x4 EXCEPT ![g][c][2] = 0] /\ x7' = [x7 EXCEPT ![g] = @ - CA!Value(x4[g][c])]
      BY <1>17, <2>3, <2>4, <2>7 DEF CA!cpuacct_cpuusage_write, CA!LockFree, CA!Writing, Holds
    <3>2. PICK e : e = [x6[r] EXCEPT !.half = TRUE]
      OBVIOUS
    <3>3. /\ e \in CA!Accesses /\ e.how = "write" /\ e.group = g /\ e.todo = S /\ e.half /\ e # None
      <4>1. e \in CA!Accesses /\ e.how = "write" /\ e.group = g /\ e.todo = S /\ e.half
        BY <2>1, <2>2, <2>3, <3>2 DEF CA!Accesses
      <4>. QED BY <4>1, ProcessorsAssumption
    <3>4. x6'[r] = e /\ \A o \in Readers \ {r} : x6'[o] = x6[o]
      BY <1>2, <3>1, <3>2
    <3>5. x6' \in [Readers -> {None} \cup CA!Accesses]
      BY <1>2, <3>1, <3>2, <3>3
    <3>6. OneHalf(x4, x4', g, c, <<h, 0>>)
      BY <1>2, <2>5, <2>6, <3>1, HalfWritten
    <3>7. x4'[g][c][2] = 0
      BY <3>6 DEF OneHalf
    <3>8. /\ \A d : Holds(x6', r, d) <=> d = c
          /\ \A d : ~Holds(x6, r, d)
          /\ \A o \in Readers \ {r} : \A d : Holds(x6', o, d) <=> Holds(x6, o, d)
      BY <2>4, <2>7, <3>3, <3>4 DEF Holds
    <3>9. LockTold(x4', x5', x6')
      <4>1. ASSUME NEW o \in Readers, x6'[o] # None, x6'[o].half
            PROVE  /\ x6'[o].how = "write" /\ x6'[o].todo # {}
                   /\ x5'[CA!Lowest(x6'[o].todo)] = CA!Idle
                   /\ x4'[x6'[o].group][CA!Lowest(x6'[o].todo)][2] = 0
                   /\ \A i \in Readers \ {o} : ~Holds(x6', i, CA!Lowest(x6'[o].todo))
        <5>1. CASE o = r
          BY <2>1, <2>3, <2>4, <2>6, <3>1, <3>3, <3>4, <3>7, <3>8, <5>1
        <5>2. CASE o # r
          <6>1. /\ x6'[o] = x6[o] /\ x6[o].how = "write" /\ x6[o].todo # {}
                /\ x5[CA!Lowest(x6[o].todo)] = CA!Idle /\ x4[x6[o].group][CA!Lowest(x6[o].todo)][2] = 0
                /\ \A i \in Readers \ {o} : ~Holds(x6, i, CA!Lowest(x6[o].todo))
            BY <1>1, <3>4, <4>1, <5>2 DEF LockTold
          <6>2. CA!Lowest(x6[o].todo) # c /\ CA!Lowest(x6[o].todo) \in CPUs /\ x6[o].group \in Groups
            BY <1>5, <3>1, <4>1, <6>1, LowestLeft DEF Holds
          <6>3. x4'[x6[o].group][CA!Lowest(x6[o].todo)] = x4[x6[o].group][CA!Lowest(x6[o].todo)]
            BY <3>6, <6>2 DEF OneHalf
          <6>. QED BY <2>6, <3>8, <6>1, <6>2, <6>3
        <5>. QED BY <5>1, <5>2
      <4>. QED BY <4>1 DEF LockTold
    <3>10. PICK f, n : f = SpentBy(x4, x5, x6, g) /\ n = SpentBy(x4', x5', x6', g)
      OBVIOUS
    <3>11. f[c] = CA!Value(x4[g][c]) /\ n[c] = 0
      <4>1. f[c] = Spent(x4, x5, x6, g, c) /\ n[c] = Spent(x4', x5', x6', g, c)
        BY <3>10 DEF SpentBy
      <4>2. Spent(x4, x5, x6, g, c) = CA!Value(x4[g][c])
        BY <3>1 DEF Spent, CA!Value
      <4>3. \E o \in Readers : Holds(x6', o, c) /\ x6'[o].group = g
        BY <3>3, <3>4, <3>8
      <4>4. Spent(x4', x5', x6', g, c) = 0
        BY <2>6, <3>1, <4>3 DEF Spent
      <4>. QED BY <4>1, <4>2, <4>4
    <3>12. ASSUME NEW k \in Groups, NEW d \in CPUs, ~(k = g /\ d = c)
           PROVE  Spent(x4', x5', x6', k, d) = Spent(x4, x5, x6, k, d)
      <4>1. HeldFor(x6', k, d) <=> HeldFor(x6, k, d)
        BY <3>3, <3>4, <3>8, <3>12 DEF HeldFor
      <4>2. x4'[k][d] = x4[k][d]
        BY <3>6, <3>12 DEF OneHalf
      <4>. QED BY <2>6, <4>1, <4>2 DEF Spent, HeldFor
    <3>13. (\A d \in CPUs : f[d] \in Nat /\ n[d] \in Nat) /\ \A d \in CPUs \ {c} : n[d] = f[d]
      BY <1>6, <3>10, <3>11, <3>12 DEF SpentBy
    <3>14. CA!Sum(n, CPUs) = CA!Sum(f, CPUs) + n[c] - f[c] /\ CA!Sum(f, CPUs) \in Nat /\ f[c] <= CA!Sum(f, CPUs)
      BY <3>13, UseChanges
    <3>15. /\ x7'[g] = CA!Sum(n, CPUs) /\ x7'[g] \in Nat /\ \A k \in Groups \ {g} : x7'[k] = x7[k]
      BY <1>2, <1>6, <3>1, <3>10, <3>11, <3>13, <3>14
    <3>16. x7' \in [Groups -> Nat]
      BY <1>2, <3>1, <3>15
    <3>17. TypeTold(x4', x5', x6', x7')
      BY <1>1, <2>6, <3>5, <3>6, <3>16 DEF TypeTold, OneHalf
    <3>18. MixTold(x6')
      <4>1. SUFFICES ASSUME NEW w \in Readers, NEW o \in Readers, x6'[w] # None, x6'[w].how = "write",
                            x6'[o] # None, x6'[o].how = "read", x6'[w].group = x6'[o].group
                     PROVE  x6'[o].low = 0
        BY DEF MixTold
      <4>2. o # r /\ x6'[o] = x6[o]
        BY <3>3, <3>4, <4>1
      <4>3. x6[w] # None /\ x6[w].how = "write" /\ x6[w].group = x6'[w].group
        BY <2>1, <2>3, <3>3, <3>4, <4>1
      <4>. QED BY <1>1, <4>1, <4>2, <4>3 DEF MixTold
    <3>19. ASSUME NEW o \in Readers PROVE OneTold(x4', x5', x6', x6'[o])
      <4>1. CASE o = r
        BY <3>3, <3>4, <4>1 DEF OneTold
      <4>2. CASE o # r /\ x6[o] # None /\ x6[o].how = "read" /\ x6[o].group = g
        <5>1. PICK T \in SUBSET CPUs, total \in Nat, low \in Nat, most \in Nat :
                T = x6[o].todo /\ total = x6[o].total /\ low = x6[o].low /\ most = x6[o].most
          BY <1>5, <4>2 DEF CA!Accesses
        <5>2. total + CA!Sum(f, T) \in low..most
          BY <1>1, <3>10, <4>2, <5>1 DEF ReadTold, OneTold
        <5>3. low = 0
          BY <1>1, <2>1, <2>3, <4>2, <5>1 DEF MixTold
        <5>4. CA!Sum(f, T) \in Nat /\ CA!Sum(n, T) \in Nat /\ CA!Sum(n, T) <= CA!Sum(f, T)
          <6>1. CASE c \in T
            <7>1. (\A d \in T : f[d] \in Nat) /\ n[c] \in Nat /\ (\A d \in T \ {c} : n[d] = f[d]) /\ f[c] \in Nat /\ n[c] = 0
              BY <3>11, <3>13, <6>1
            <7>2. CA!Sum(n, T) = CA!Sum(f, T) + n[c] - f[c] /\ CA!Sum(f, T) \in Nat /\ f[c] <= CA!Sum(f, T)
              BY <6>1, <7>1, UseChanges
            <7>. QED BY <7>1, <7>2
          <6>2. CASE c \notin T
            <7>1. (\A d \in T : f[d] \in Nat) /\ \A d \in T : n[d] = f[d]
              BY <3>13, <6>2
            <7>2. CA!Sum(n, T) = CA!Sum(f, T) /\ CA!Sum(f, T) \in Nat
              BY <7>1, UseSame, SumOfUse
            <7>. QED BY <7>2
          <6>. QED BY <6>1, <6>2
        <5>5. total + CA!Sum(n, T) \in low..most
          BY <5>2, <5>3, <5>4
        <5>6. x6'[o] = x6[o]
          BY <3>4, <4>2
        <5>. QED BY <3>10, <4>2, <5>1, <5>5, <5>6 DEF OneTold
      <4>3. CASE o # r /\ ~(x6[o] # None /\ x6[o].how = "read" /\ x6[o].group = g)
        <5>1. x6'[o] = x6[o] /\ OneTold(x4, x5, x6, x6[o]) /\ x6[o] \in {None} \cup CA!Accesses
          BY <1>1, <1>2, <3>4, <4>3 DEF ReadTold
        <5>2. CASE x6[o] = None \/ x6[o].how # "read"
          BY <5>1, <5>2 DEF OneTold
        <5>3. CASE x6[o] # None /\ x6[o].group # g
          <6>1. \A d \in CPUs : Spent(x4', x5', x6', x6[o].group, d) = Spent(x4, x5, x6, x6[o].group, d)
            BY <1>5, <3>12, <5>3
          <6>. QED BY <5>1, <6>1, ToldAgain
        <5>. QED BY <4>3, <5>2, <5>3
      <4>. QED BY <4>1, <4>2, <4>3
    <3>20. ReadTold(x4', x5', x6')
      BY <3>19 DEF ReadTold
    <3>. QED BY <2>6, <3>9, <3>10, <3>12, <3>13, <3>15, <3>17, <3>18, <3>20, OneCharged
  <2>8. CASE x6[r].half
    <3>1. /\ x6' = [x6 EXCEPT ![r].half = FALSE, ![r].todo = @ \ {c}]
          /\ x4' = [x4 EXCEPT ![g][c][1] = 0] /\ x7' = x7
      BY <1>17, <2>3, <2>4, <2>8 DEF CA!cpuacct_cpuusage_write
    <3>2. /\ x5[c] = CA!Idle /\ x4[g][c][2] = 0 /\ Holds(x6, r, c)
          /\ \A o \in Readers \ {r} : ~Holds(x6, o, c)
      BY <1>1, <2>1, <2>3, <2>4, <2>8 DEF LockTold, Holds
    <3>3. PICK e : e = [x6[r] EXCEPT !.half = FALSE, !.todo = S \ {c}]
      OBVIOUS
    <3>4. /\ e \in CA!Accesses /\ e.how = "write" /\ e.group = g /\ ~e.half
      BY <2>1, <2>2, <2>3, <3>3 DEF CA!Accesses
    <3>5. x6' = [x6 EXCEPT ![r] = e]
      BY <2>3, <3>1, <3>3
    <3>6. x6'[r] = e /\ (\A o \in Readers \ {r} : x6'[o] = x6[o]) /\ x6' \in [Readers -> {None} \cup CA!Accesses]
      BY <1>2, <3>4, <3>5
    <3>7. OneHalf(x4, x4', g, c, <<0, 0>>)
      BY <1>2, <2>6, <3>1, <3>2, HalfWritten
    <3>8. /\ \A d : ~Holds(x6', r, d)
          /\ \A o \in Readers \ {r} : \A d : Holds(x6', o, d) <=> Holds(x6, o, d)
      BY <3>4, <3>6 DEF Holds
    <3>9. LockTold(x4', x5', x6')
      <4>1. ASSUME NEW o \in Readers, x6'[o] # None, x6'[o].half
            PROVE  /\ x6'[o].how = "write" /\ x6'[o].todo # {}
                   /\ x5'[CA!Lowest(x6'[o].todo)] = CA!Idle
                   /\ x4'[x6'[o].group][CA!Lowest(x6'[o].todo)][2] = 0
                   /\ \A i \in Readers \ {o} : ~Holds(x6', i, CA!Lowest(x6'[o].todo))
        <5>1. o # r
          BY <3>4, <3>6, <4>1
        <5>2. /\ x6'[o] = x6[o] /\ x6[o].how = "write" /\ x6[o].todo # {}
              /\ x5[CA!Lowest(x6[o].todo)] = CA!Idle /\ x4[x6[o].group][CA!Lowest(x6[o].todo)][2] = 0
              /\ \A i \in Readers \ {o} : ~Holds(x6, i, CA!Lowest(x6[o].todo))
          BY <1>1, <3>6, <4>1, <5>1 DEF LockTold
        <5>3. CA!Lowest(x6[o].todo) # c /\ CA!Lowest(x6[o].todo) \in CPUs /\ x6[o].group \in Groups
          BY <1>5, <3>2, <4>1, <5>1, <5>2, LowestLeft DEF Holds
        <5>4. x4'[x6[o].group][CA!Lowest(x6[o].todo)] = x4[x6[o].group][CA!Lowest(x6[o].todo)]
          BY <3>7, <5>3 DEF OneHalf
        <5>. QED BY <2>6, <3>8, <5>2, <5>4
      <4>. QED BY <4>1 DEF LockTold
    <3>10. SameSpent
      <4>1. ASSUME NEW k \in Groups, NEW d \in CPUs
            PROVE  Spent(x4', x5', x6', k, d) = Spent(x4, x5, x6, k, d)
        <5>1. CASE k = g /\ d = c
          <6>1. Spent(x4, x5, x6, g, c) = 0
            BY <2>3, <3>2 DEF Spent
          <6>2. x4'[g][c][1] = 0 /\ x4'[g][c][2] = 0 /\ 0 * HALF + 0 = 0
            BY <1>2, <3>7 DEF OneHalf
          <6>3. Spent(x4', x5', x6', g, c) = 0
            BY <2>6, <3>2, <3>8, <6>2 DEF Spent
          <6>. QED BY <5>1, <6>1, <6>3
        <5>2. CASE ~(k = g /\ d = c)
          <6>1. HeldFor(x6', k, d) <=> HeldFor(x6, k, d)
            BY <2>1, <2>3, <2>4, <3>6, <3>8, <5>2 DEF HeldFor, Holds
          <6>2. x4'[k][d] = x4[k][d]
            BY <3>7, <5>2 DEF OneHalf
          <6>. QED BY <2>6, <6>1, <6>2 DEF Spent, HeldFor
        <5>. QED BY <5>1, <5>2
      <4>. QED BY <4>1 DEF SameSpent
    <3>11. TypeTold(x4', x5', x6', x7')
      BY <1>1, <2>6, <3>1, <3>6, <3>7 DEF TypeTold, OneHalf
    <3>12. MixTold(x6')
      <4>1. SUFFICES ASSUME NEW w \in Readers, NEW o \in Readers, x6'[w] # None, x6'[w].how = "write",
                            x6'[o] # None, x6'[o].how = "read", x6'[w].group = x6'[o].group
                     PROVE  x6'[o].low = 0
        BY DEF MixTold
      <4>2. o # r /\ x6'[o] = x6[o]
        BY <3>4, <3>6, <4>1
      <4>3. x6[w] # None /\ x6[w].how = "write" /\ x6[w].group = x6'[w].group
        BY <2>1, <2>3, <3>4, <3>6, <4>1
      <4>. QED BY <1>1, <4>1, <4>2, <4>3 DEF MixTold
    <3>13. \A o \in Readers : x6'[o] = x6[o] \/ OneTold(x4', x5', x6', x6'[o])
      BY <3>4, <3>6 DEF OneTold
    <3>. QED BY <2>6, <3>1, <3>9, <3>10, <3>11, <3>12, <3>13, NoneCharged
  <2>. QED BY <2>7, <2>8
<1>18. ASSUME NEW g \in Groups, CA!cpuacct_create(g) PROVE CA!UsageInv'
  BY <1>7, <1>18 DEF CA!cpuacct_create
<1>19. ASSUME CA!Allocate \/ CA!AllocFails \/ UNCHANGED CA!vars PROVE CA!UsageInv'
  BY <1>7, <1>19 DEF CA!Allocate, CA!AllocFails, CA!vars
<1>. QED BY <1>8, <1>9, <1>10, <1>11, <1>13, <1>14, <1>15, <1>16, <1>17, <1>18, <1>19 DEF CA!Next

(* account_user_time() and the others, task_utime(), task_stime() and      *)
(* cpuacct_charge(): the times that are kept and shown are of the ticks    *)
(* and the run time there were, for any processors, tasks and tree of      *)
(* accounting groups.                                                      *)
THEOREM TimesAreTrueHolds == KernelSpec => []TimesAreTrue
<1>. DEFINE I == /\ part = "CpuTime" => CT!TicksInv
                 /\ part = "TaskTimes" => TT!TimesInv
                 /\ part = "CpuAcct" => CA!UsageInv /\ CA!AcctInv
<1>1. KernelInit => I
  BY PartStarts, TicksInit, SplitInit, UsageInit, AcctInit
<1>2. I /\ [KernelNext]_<<vars, part, slots>> => I'
  BY PartMoves, TicksStep, SplitStep, UsageStep, AcctStep
<1>3. I => TimesAreTrue
  <2>1. ASSUME CA!UsageInv, CA!AcctInv PROVE CA!UsageIsTrue
    <3>1. ChargedTold(x4, x5, x6, x7) /\ ~x8 /\ x1 \subseteq Groups
      BY <2>1, UsageSays DEF CA!AcctInv, CA!BeingMade
    <3>2. ASSUME NEW g \in x1, \A c \in CPUs : CA!LockFree(c)
          PROVE  x7[g] = CA!Sum([c \in CPUs |-> CA!Value(x4[g][c])], CPUs)
      <4>1. SpentBy(x4, x5, x6, g) = [c \in CPUs |-> CA!Value(x4[g][c])]
        BY <3>2 DEF SpentBy, Spent, Holds, CA!Value, CA!LockFree, CA!Writing
      <4>. QED BY <3>1, <4>1 DEF ChargedTold
    <3>. QED BY <3>1, <3>2 DEF CA!UsageIsTrue
  <2>2. ASSUME TT!TimesInv PROVE TT!PartsWithinRuntime
    BY <2>2, TimesAssumption DEF TT!TimesInv, TT!PartsWithinRuntime, TT!Near
  <2>. QED BY <2>1, <2>2 DEF TimesAreTrue, CT!TicksInv
<1>. QED BY <1>1, <1>2, <1>3, PTL DEF KernelSpec
=============================================================================
