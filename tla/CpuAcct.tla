------------------------------ MODULE CpuAcct ------------------------------
(***************************************************************************)
(* The cpuacct groups (scheduler_mod/sched_mod.c 10592-10811): what the    *)
(* tasks of a group and of the groups below use on each processor, as 64   *)
(* bits that a 32-bit machine writes in two halves, while the total is     *)
(* read or reset processor by processor, by several at a time, and groups  *)
(* come and go.                                                            *)
(*                                                                         *)
(* External: a processor charges under the lock of its run queue; cgroups  *)
(* are made and removed one at a time, and a group is only removed when it *)
(* has no tasks, no groups below and no open files.                        *)
(***************************************************************************)
EXTENDS Integers, Sequences, FiniteSets, Functions

CONSTANTS
  CPUs,      \* cpu_present_mask
  Groups, Parent,  \* and the one above each, or None
  Readers,   \* those who read and reset the usage
  HALF,      \* what the low half holds before it carries, 2^32 in the code
  MaxUsage,  \* bound on what is charged since a reset, and since a read began
  None

VARIABLES
  live,      \* groups that can be used
  pieces,    \* of each group: what is allocated
  making,    \* the group that is being created, and its next piece, or None
  cpuusage,  \* of each group and processor: <<high half, low half>>
  charging,  \* the group each processor is charging, and the half to come
  access,    \* what each reader is about, or None
  charged,   \* history: what was charged to each group in all, since the last reset
  torn       \* history: a total was read that cannot be

vars == <<live, pieces, making, cpuusage, charging, access, charged, torn>>

Steps == <<"cpuacct", "cpuusage", "user", "system">>
Above(g) == {h \in Groups : \A S \in SUBSET Groups :
               g \in S /\ (\A k \in S : Parent[k] # None => Parent[k] \in S) => h \in S}
Idle == [group |-> None, high |-> None]
Sum(f, S) == Cardinality(UNION {{c} \X (1..f[c]) : c \in S})
Value(u) == u[1] * HALF + u[2]

Init ==
  /\ live = {} /\ pieces = [g \in Groups |-> {}] /\ making = None
  /\ cpuusage = [g \in Groups |-> [c \in CPUs |-> <<0, 0>>]]
  /\ charging = [c \in CPUs |-> Idle] /\ access = [r \in Readers |-> None]
  /\ charged = [g \in Groups |-> 0] /\ torn = FALSE

-----------------------------------------------------------------------------
cpuacct_create(g) ==
  /\ making = None /\ g \notin live /\ pieces[g] = {}
  /\ Parent[g] = None \/ Parent[g] \in live
  /\ making' = [group |-> g, next |-> 1]
  /\ UNCHANGED <<live, pieces, cpuusage, charging, access, charged, torn>>

Allocate ==
  /\ making # None
  /\ LET g == making.group IN
       /\ pieces' = [pieces EXCEPT ![g] = @ \cup {Steps[making.next]}]
       /\ IF making.next = 4 THEN making' = None /\ live' = live \cup {g}
                             ELSE making' = [making EXCEPT !.next = @ + 1] /\ UNCHANGED live
  /\ UNCHANGED <<cpuusage, charging, access, charged, torn>>

FreesOneTooFew == \* mutant: --i >= 0 has become --i > 0
  /\ making # None
  /\ pieces' = [pieces EXCEPT ![making.group] = IF making.next = 4 THEN {"user"} ELSE {}]
  /\ making' = None
  /\ UNCHANGED <<live, cpuusage, charging, access, charged, torn>>

(* out_free_counters, out_free_ca, out: what there is is freed.            *)
AllocFails ==
  /\ making # None
  /\ pieces' = [pieces EXCEPT ![making.group] = {}]
  /\ making' = None
  /\ UNCHANGED <<live, cpuusage, charging, access, charged, torn>>

cpuacct_destroy(g) ==
  /\ g \in live /\ making = None /\ \A h \in live : Parent[h] # g
  /\ {c \in CPUs : charging[c] # Idle /\ g \in Above(charging[c].group)} = {}
  /\ \A r \in Readers : access[r] # None => access[r].group # g
  /\ live' = live \ {g} /\ pieces' = [pieces EXCEPT ![g] = {}]
  /\ cpuusage' = [cpuusage EXCEPT ![g] = [c \in CPUs |-> <<0, 0>>]] /\ charged' = [charged EXCEPT ![g] = 0]
  /\ UNCHANGED <<making, charging, access, torn>>

-----------------------------------------------------------------------------
(* A processor's run queue lock is held while it charges, and by a writer  *)
(* between the halves it writes.                                           *)
Lowest(S) == CHOOSE c \in S : \A d \in S : c <= d
Writing(r, c) == access[r] # None /\ access[r].half /\ c = Lowest(access[r].todo)
LockFree(c) == charging[c] = Idle /\ \A r \in Readers : ~Writing(r, c)

Reads(r, g) == access[r] # None /\ access[r].how = "read" /\ access[r].group = g
Resetting(g) == \E r \in Readers : access[r] # None /\ access[r].how = "write" /\ access[r].group = g

(* cpuacct_charge(), under the lock of the run queue of c.                 *)
BeginCharge(c, g) ==
  /\ LockFree(c) /\ g \in live
  /\ \A h \in Above(g) : /\ charged[h] < MaxUsage
                         /\ \A r \in Readers : Reads(r, h) => access[r].most < MaxUsage
  /\ charging' = [charging EXCEPT ![c] = [group |-> g, high |-> None]]
  /\ UNCHANGED <<live, pieces, making, cpuusage, access, charged, torn>>

(* *cpuusage += cputime, the low half first; then the group above.         *)
ChargeLow(c) ==
  /\ charging[c] # Idle /\ charging[c].high = None
  /\ LET g == charging[c].group
         u == cpuusage[g][c]
     IN  /\ cpuusage' = [cpuusage EXCEPT ![g][c][2] = (u[2] + 1) % HALF]
         /\ charging' = [charging EXCEPT ![c].high = (Value(u) + 1) \div HALF]
  /\ UNCHANGED <<live, pieces, making, access, charged, torn>>

ChargeHigh(c) ==
  /\ charging[c] # Idle /\ charging[c].high # None
  /\ LET g == charging[c].group IN
       /\ cpuusage' = [cpuusage EXCEPT ![g][c][1] = charging[c].high]
       /\ charging' = [charging EXCEPT ![c] = IF Parent[g] = None THEN Idle ELSE [group |-> Parent[g], high |-> None]]
       /\ charged' = [charged EXCEPT ![g] = @ + 1]
       /\ access' = [r \in Readers |-> IF Reads(r, g) THEN [access[r] EXCEPT !.most = @ + 1] ELSE access[r]]
  /\ UNCHANGED <<live, pieces, making, torn>>

-----------------------------------------------------------------------------
(* cpuusage_read() of a whole group.  most: what was charged before and    *)
(* since; low: what was charged before, or 0 once a reset meets the read.  *)
Starts(how, g, low, most) == [how |-> how, group |-> g, todo |-> CPUs, half |-> FALSE, total |-> 0, low |-> low, most |-> most]
cpuusage_read(r, g) ==
  /\ access[r] = None /\ g \in live
  /\ access' = [access EXCEPT ![r] = Starts("read", g, IF Resetting(g) THEN 0 ELSE charged[g], charged[g])]
  /\ UNCHANGED <<live, pieces, making, cpuusage, charging, charged, torn>>

(* cpuusage_write() of 0, the only value it takes.                         *)
cpuusage_write(r, g) ==
  /\ access[r] = None /\ g \in live
  /\ access' = [o \in Readers |->
       IF o = r THEN Starts("write", g, 0, 0) ELSE IF Reads(o, g) THEN [access[o] EXCEPT !.low = 0] ELSE access[o]]
  /\ UNCHANGED <<live, pieces, making, cpuusage, charging, charged, torn>>

Busy(r, how) == access[r] # None /\ access[r].how = how /\ access[r].todo # {}
ReadUnlocked(r) == \* mutant: the 64-bit read on a 32-bit machine without the lock
  /\ Busy(r, "read")
  /\ LET c == Lowest(access[r].todo) IN
       access' = [access EXCEPT ![r].todo = @ \ {c}, ![r].total = @ + Value(cpuusage[access[r].group][c])]
  /\ UNCHANGED <<live, pieces, making, cpuusage, charging, charged, torn>>

(* cpuacct_cpuusage_read() of the next processor, under its lock.          *)
cpuacct_cpuusage_read(r) ==
  /\ Busy(r, "read")
  /\ LET c == Lowest(access[r].todo) IN
       /\ LockFree(c)
       /\ access' = [access EXCEPT ![r].todo = @ \ {c}, ![r].total = @ + Value(cpuusage[access[r].group][c])]
  /\ UNCHANGED <<live, pieces, making, cpuusage, charging, charged, torn>>

(* cpuacct_cpuusage_write(): two halves, the lock held in between.         *)
cpuacct_cpuusage_write(r) ==
  /\ Busy(r, "write")
  /\ LET c == Lowest(access[r].todo)
         g == access[r].group
     IN  \/ /\ ~access[r].half /\ LockFree(c)
            /\ cpuusage' = [cpuusage EXCEPT ![g][c][2] = 0]
            /\ charged' = [charged EXCEPT ![g] = @ - Value(cpuusage[g][c])]
            /\ access' = [access EXCEPT ![r].half = TRUE]
         \/ /\ access[r].half
            /\ cpuusage' = [cpuusage EXCEPT ![g][c][1] = 0]
            /\ access' = [access EXCEPT ![r].half = FALSE, ![r].todo = @ \ {c}]
            /\ UNCHANGED charged
  /\ UNCHANGED <<live, pieces, making, charging, torn>>

(* A total has no more than what was charged before the call and during    *)
(* it, and no less than what was charged before, unless a reset meets it.  *)
Return(r) ==
  /\ access[r] # None /\ access[r].todo = {}
  /\ LET a == access[r] IN
       torn' = (torn \/ (a.how = "read" /\ a.total \notin a.low..a.most))
  /\ access' = [access EXCEPT ![r] = None]
  /\ UNCHANGED <<live, pieces, making, cpuusage, charging, charged>>

Next ==
  \/ Allocate \/ AllocFails \/ \E g \in Groups : cpuacct_create(g) \/ cpuacct_destroy(g)
  \/ \E c \in CPUs : ChargeLow(c) \/ ChargeHigh(c) \/ \E g \in Groups : BeginCharge(c, g)
  \/ \E r \in Readers : \/ \E g \in Groups : cpuusage_read(r, g) \/ cpuusage_write(r, g)
                        \/ cpuacct_cpuusage_read(r) \/ cpuacct_cpuusage_write(r) \/ Return(r)

Spec == Init /\ [][Next]_vars

-----------------------------------------------------------------------------
(* 10664: the total that is read is of usages the group had, never a half  *)
(* of one value and a half of another, whoever reads, resets and charges   *)
(* at the time; and when nobody writes, what was charged is all there.     *)
UsageIsTrue ==
  /\ ~torn
  /\ \A g \in live : (\A c \in CPUs : LockFree(c)) =>
       charged[g] = Sum([c \in CPUs |-> Value(cpuusage[g][c])], CPUs)

(* 10618: a group has all of its pieces or none.                           *)
AllOrNothing == \A g \in Groups :
  IF g \in live THEN pieces[g] = {"cpuacct", "cpuusage", "user", "system"}
                ELSE pieces[g] # {} => making # None /\ making.group = g

(* With AllOrNothing, an inductive invariant: a group that is being made   *)
(* has the pieces that come before the next one.                           *)
BeingMade ==
  /\ live \subseteq Groups /\ pieces \in [Groups -> SUBSET Range(Steps)]
  /\ making # None => /\ making \in [group : Groups \ live, next : 1..4]
                      /\ pieces[making.group] = {Steps[i] : i \in 1..(making.next - 1)}
AcctInv == BeingMade /\ AllOrNothing

(* With UsageIsTrue, an inductive invariant.  What a group has used on a   *)
(* processor does not show while one half of it is to come; of what was    *)
(* charged at the start a reader has, or has still to read, no less if no  *)
(* reset meets it, and never more than was charged before and since.       *)
Used(g, c) ==
  LET u == cpuusage[g][c] IN
    IF charging[c] # Idle /\ charging[c].group = g /\ charging[c].high # None
      THEN charging[c].high * HALF + u[2] - 1
    ELSE IF \E r \in Readers : Writing(r, c) /\ access[r].group = g THEN 0 ELSE Value(u)
UsedBy(g) == [c \in CPUs |-> Used(g, c)]
Accesses == [how : {"read", "write"}, group : Groups, todo : SUBSET CPUs, half : BOOLEAN,
             total : Nat, low : Nat, most : Nat]
UsageTypeOK ==
  /\ cpuusage \in [Groups -> [CPUs -> Nat \X (0..(HALF - 1))]] /\ charged \in [Groups -> Nat]
  /\ charging \in [CPUs -> {Idle} \cup [group : Groups, high : Nat \cup {None}]]
  /\ access \in [Readers -> {None} \cup Accesses]
LockHeld == \A r \in Readers : access[r] # None /\ access[r].half =>
  /\ access[r].how = "write" /\ access[r].todo # {}
  /\ LET c == Lowest(access[r].todo) IN
       /\ charging[c] = Idle /\ cpuusage[access[r].group][c][2] = 0
       /\ \A o \in Readers \ {r} : ~Writing(o, c)
ResetsMix == \A g \in Groups, r \in Readers : Resetting(g) /\ Reads(r, g) => access[r].low = 0
NoneLost == \A g \in Groups :
  (\A c \in CPUs : Used(g, c) \in Nat) /\ charged[g] = Sum(UsedBy(g), CPUs)
ReadSoFar == \A r \in Readers : access[r] # None /\ access[r].how = "read" =>
  access[r].total + Sum(UsedBy(access[r].group), access[r].todo) \in access[r].low..access[r].most
UsageInv == UsageTypeOK /\ LockHeld /\ ResetsMix /\ NoneLost /\ ReadSoFar /\ ~torn
=============================================================================
