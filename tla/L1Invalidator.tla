--------------------------- MODULE L1Invalidator ---------------------------
(***************************************************************************)
(* The module that empties the L1 caches when /proc/Invalidate_L1 is       *)
(* written (L1-invalidator.c), seen by one set of the data cache.          *)
(*                                                                         *)
(* External is the hardware of the e500, whose sets have eight ways: a     *)
(* line that is not there replaces, with flush assist, the way that the    *)
(* bits of the tree (pseudo LRU) point to; who is replaced is written      *)
(* back; a flash invalidation writes nothing back.                         *)
(***************************************************************************)
EXTENDS Integers, FiniteSets

VARIABLES
  pc,
  EE,       \* interrupts are enabled
  DCFA,     \* flush assist is on
  old,      \* ways that hold what was there before, somebody's data for all we know
  plru,     \* the bits of the tree
  line,     \* the line of the buffer in this set that is next
  kept,     \* R6 and R7: what EE and DCFA were
  met       \* history: a line of the buffer was in the cache before

vars == <<pc, EE, DCFA, old, plru, line, kept, met>>

WAYS  == 8
Ways  == 0..(WAYS - 1)
LinesOfTheCache == WAYS   \* mutant: a buffer of the size of the cache
Lines == WAYS + WAYS \div 2   \* SCRATCH_SIZE: 12 lines for each of the 128 sets

(* The nodes above a way, numbered from the root 1; n has 2n and 2n + 1    *)
(* below it.                                                               *)
Nodes     == 1..(WAYS - 1)
Above(w)  == {(WAYS + w) \div 2, (WAYS + w) \div 4, (WAYS + w) \div 8}
Below(n, w) == CHOOSE m \in Above(w) \cup {WAYS + w} : m \div 2 = n
Victim    == CHOOSE w \in Ways : \A n \in Above(w) : Below(n, w) = 2 * n + plru[n]
Touch(w)  == [n \in Nodes |-> IF n \in Above(w) THEN 1 - (Below(n, w) % 2) ELSE plru[n]]

Init ==
  /\ pc = "idle" /\ EE = TRUE /\ DCFA = FALSE
  /\ old = Ways /\ plru \in [Nodes -> {0, 1}]
  /\ line = 1 /\ kept = <<TRUE, FALSE>> /\ met = FALSE

-----------------------------------------------------------------------------
(* The instruction cache has nothing to lose.  Without a buffer nothing is *)
(* done about the data.                                                    *)
procfile_write ==
  /\ pc = "idle" /\ pc' \in {"idle", "mfmsr"}
  /\ UNCHANGED <<EE, DCFA, old, plru, line, kept, met>>

EEStaysOn == \* mutant: the mask leaves the interrupts on
  /\ pc = "mfmsr" /\ pc' = "hid0"
  /\ kept' = <<EE, DCFA>>
  /\ UNCHANGED <<EE, DCFA, old, plru, line, met>>

mtmsr ==
  /\ pc = "mfmsr" /\ pc' = "hid0"
  /\ kept' = <<EE, DCFA>> /\ EE' = FALSE
  /\ UNCHANGED <<DCFA, old, plru, line, met>>

SetDCFA ==
  /\ pc = "hid0" /\ pc' = "dcbz"
  /\ DCFA' = TRUE /\ line' = 1
  /\ UNCHANGED <<EE, old, plru, kept, met>>

(* Without flush assist a way that is invalid would come first.            *)
Replaced == IF DCFA THEN {Victim} ELSE old \cup {Victim}

(* The memory that kmalloc() returned may be in the cache: a line that is  *)
(* in an old way becomes zero there.                                       *)
dcbz ==
  /\ pc = "dcbz"
  /\ \E hit \in BOOLEAN : \E w \in IF hit THEN old ELSE Replaced :
       old' = old \ {w} /\ plru' = Touch(w) /\ met' = (met \/ hit)
  /\ line' = line + 1
  /\ pc' = IF line < Lines THEN "dcbz" ELSE "flash"
  /\ UNCHANGED <<EE, DCFA, kept>>

(* CFI.  What comes after is not of the buffer.                            *)
FlashInvalidate ==
  /\ pc = "flash" /\ pc' = "restore"
  /\ old' = Ways /\ met' = FALSE
  /\ UNCHANGED <<EE, DCFA, plru, line, kept>>

(* HID0, then MSR.                                                         *)
Restore ==
  /\ pc = "restore" /\ pc' = "idle"
  /\ EE' = kept[1] /\ DCFA' = kept[2]
  /\ UNCHANGED <<old, plru, line, kept, met>>

-----------------------------------------------------------------------------
(* Whoever else runs while interrupts are on writes data of its own.       *)
Others ==
  /\ EE
  /\ \E w \in old \cup {Victim} : old' = old \cup {w} /\ plru' = Touch(w)
  /\ UNCHANGED <<pc, EE, DCFA, line, kept, met>>

Next == procfile_write \/ mtmsr \/ SetDCFA \/ dcbz \/ FlashInvalidate \/ Restore \/ Others

Spec == Init /\ [][Next]_vars

-----------------------------------------------------------------------------
(* 64 to 74: when the cache is invalidated nothing but the zeros of the    *)
(* buffer is in it, whatever the tree said, unless lines of the buffer     *)
(* were in the cache before: then one way may still have its data.         *)
NothingLost == pc = "flash" => Cardinality(old) <= IF met THEN 1 ELSE 0

(* What the function is for; twelve lines are not enough for it when lines *)
(* of the buffer are in the cache and turn the tree.                       *)
AllFlushed == pc = "flash" => old = {}
=============================================================================
