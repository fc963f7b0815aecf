------------------------------- MODULE Shares -------------------------------
(***************************************************************************)
(* How the shares of a task group are spread over the processors           *)
(* (scheduler_mod/sched_mod.c 1565-1680, 10049-10133), while tasks come    *)
(* and go and the shares of the group are changed.                         *)
(*                                                                         *)
(* External: tasks change the load of the group's queues, and              *)
(* synchronize_sched() waits for everyone who has interrupts off.          *)
(***************************************************************************)
EXTENDS Integers, FiniteSets

CONSTANTS
  CPUs,
  Loads,          \* a queue may have
  Settings,       \* shares a user may ask for
  MIN_SHARES, MAX_SHARES,
  NICE_0_LOAD, shares_thresh

VARIABLES
  shares,         \* tg->shares
  listed,         \* walk_tg_tree() finds the group
  setting,        \* sched_group_set_shares(): where it is
  load,           \* tg->cfs_rq[c]->load.weight
  cfs_shares,     \* tg->cfs_rq[c]->shares
  weight,         \* tg->se[c]->load.weight
  up              \* tg_shares_up() on each processor: what it has read

vars == <<shares, listed, setting, load, cfs_shares, weight, up>>

Idle     == [at |-> "idle"]
Done     == [at |-> "done"]
Domain   == {CPUs} \cup {{c} : c \in CPUs}
Sum(f, S) == Cardinality(UNION {{c} \X (1..f[c]) : c \in S})
clamp(s) == IF s < MIN_SHARES THEN MIN_SHARES ELSE IF s > MAX_SHARES THEN MAX_SHARES ELSE s
Pretend(l) == IF l = 0 THEN NICE_0_LOAD ELSE l

Init ==
  /\ shares = NICE_0_LOAD /\ listed = TRUE /\ setting = Done
  /\ load = [c \in CPUs |-> 0] /\ cfs_shares = [c \in CPUs |-> 0]
  /\ weight = [c \in CPUs |-> NICE_0_LOAD]
  /\ up = [c \in CPUs |-> Idle]

LoadChanges(c, l) ==
  /\ l # load[c] /\ load' = [load EXCEPT ![c] = l]
  /\ UNCHANGED <<shares, listed, setting, cfs_shares, weight, up>>

-----------------------------------------------------------------------------
(* The sums over the domain, with interrupts off.  The outermost domain    *)
(* has all shares of the group.                                            *)
SdShares(sd, has) ==
  IF sd = CPUs \/ has = 0 \/ has > shares THEN shares ELSE has

tg_shares_up(me, sd) ==
  /\ up[me] = Idle /\ listed /\ me \in sd
  /\ up' = [up EXCEPT ![me] =
       [at |-> "up", todo |-> sd, usd |-> [c \in sd |-> load[c]],
        rq_weight |-> Sum([c \in sd |-> Pretend(load[c])], sd),
        shares |-> SdShares(sd, Sum(cfs_shares, sd))]]
  /\ UNCHANGED <<shares, listed, setting, load, cfs_shares, weight>>

(* update_group_shares_cpu(): the weight is compared without a lock (1597), *)
(* then replaced under that of the run queue of c.  The two are one step:  *)
(* an old weight only changes whether s is written, and not what s is.     *)
update_group_shares_cpu(me) ==
  /\ up[me].at = "up" /\ up[me].todo # {}
  /\ LET c   == CHOOSE c \in up[me].todo : \A d \in up[me].todo : c <= d
         w   == Pretend(up[me].usd[c])
         s   == clamp((up[me].shares * w) \div up[me].rq_weight)
         far == s - weight[c] > shares_thresh \/ weight[c] - s > shares_thresh
     IN  /\ cfs_shares' = IF far THEN [cfs_shares EXCEPT ![c] = IF up[me].usd[c] = 0 THEN 0 ELSE s] ELSE cfs_shares
         /\ weight' = IF far THEN [weight EXCEPT ![c] = s] ELSE weight
         /\ up' = [up EXCEPT ![me].todo = @ \ {c}]
  /\ UNCHANGED <<shares, listed, setting, load>>

IrqRestore(me) ==
  /\ up[me].at = "up" /\ up[me].todo = {}
  /\ up' = [up EXCEPT ![me] = Idle]
  /\ setting' = IF setting.at = "wait" THEN [setting EXCEPT !.for = @ \ {me}] ELSE setting
  /\ UNCHANGED <<shares, listed, load, cfs_shares, weight>>

-----------------------------------------------------------------------------
(* sched_group_set_shares(), one at a time.                                *)
UnlistNotWaiting(new) == \* mutant: no synchronize_sched()
  /\ setting = Done /\ clamp(new) # shares
  /\ listed' = FALSE
  /\ setting' = [at |-> "wait", new |-> clamp(new), for |-> {}]
  /\ UNCHANGED <<shares, load, cfs_shares, weight, up>>

Unlist(new) ==
  /\ setting = Done /\ clamp(new) # shares
  /\ listed' = FALSE
  /\ setting' = [at |-> "wait", new |-> clamp(new), for |-> {c \in CPUs : up[c] # Idle}]
  /\ UNCHANGED <<shares, load, cfs_shares, weight, up>>

SetShares ==
  /\ setting.at = "wait" /\ setting.for = {}
  /\ shares' = setting.new
  /\ setting' = [at |-> "set", todo |-> CPUs]
  /\ UNCHANGED <<listed, load, cfs_shares, weight, up>>

set_se_shares(c) ==
  /\ setting.at = "set" /\ c \in setting.todo
  /\ cfs_shares' = [cfs_shares EXCEPT ![c] = 0] /\ weight' = [weight EXCEPT ![c] = shares]
  /\ setting' = [setting EXCEPT !.todo = @ \ {c}]
  /\ UNCHANGED <<shares, listed, load, up>>

List ==
  /\ setting.at = "set" /\ setting.todo = {}
  /\ listed' = TRUE /\ setting' = Done
  /\ UNCHANGED <<shares, load, cfs_shares, weight, up>>

Next ==
  \/ \E c \in CPUs : \/ \E l \in Loads : LoadChanges(c, l)
                     \/ \E sd \in Domain : tg_shares_up(c, sd)
                     \/ update_group_shares_cpu(c) \/ IrqRestore(c) \/ set_se_shares(c)
  \/ \E new \in Settings : Unlist(new)
  \/ SetShares \/ List

Spec == Init /\ [][Next]_vars

-----------------------------------------------------------------------------
(* 1629 and 10107: while the group is balanced no processor has more of it *)
(* than the group has shares, though they are spread without a lock of the *)
(* group and from several processors at a time.                            *)
SharesWithinGroup ==
  listed => \A c \in CPUs : cfs_shares[c] <= shares /\ weight[c] \in MIN_SHARES..shares

(* With it, an inductive invariant: who reads the sums is waited for by    *)
(* sched_group_set_shares(), so that the shares stay what he has read, and *)
(* the weights he still has to use are in the sum of all.                  *)
TypeOK ==
  /\ shares \in MIN_SHARES..MAX_SHARES /\ listed \in BOOLEAN
  /\ setting \in {Done} \cup [at : {"wait"}, new : MIN_SHARES..MAX_SHARES, for : SUBSET CPUs]
                        \cup [at : {"set"}, todo : SUBSET CPUs]
  /\ load \in [CPUs -> Nat] /\ cfs_shares \in [CPUs -> Nat] /\ weight \in [CPUs -> Nat]
  /\ DOMAIN up = CPUs
  /\ \A c \in CPUs : up[c] = Idle \/ \E sd \in SUBSET CPUs :
       up[c] \in [at : {"up"}, todo : SUBSET sd, usd : [sd -> Nat], rq_weight : Nat, shares : Nat]
ToReset == IF setting.at = "set" THEN setting.todo ELSE {}
Spread == \A c \in CPUs \ ToReset : cfs_shares[c] <= shares /\ weight[c] \in MIN_SHARES..shares
ReadIsTrue == \A c \in CPUs : up[c] # Idle =>
  /\ setting = Done \/ (setting.at = "wait" /\ c \in setting.for)
  /\ up[c].shares <= shares
  /\ \A d \in up[c].todo : Pretend(up[c].usd[d]) <= up[c].rq_weight
SharesInv == TypeOK /\ (listed => setting = Done) /\ Spread /\ ReadIsTrue
=============================================================================
