------------------------------ MODULE MCKernel ------------------------------
(***************************************************************************)
(* The parts of the kernel, each on a small instance of its own.           *)
(***************************************************************************)
EXTENDS Kernel

CONSTANTS t1, t2

-----------------------------------------------------------------------------
(* Priorities: two tasks, the second forked by the first; three real-time  *)
(* priorities of which two can be asked for, nice values -1 and 0.         *)
const_Tasks   == {t1, t2}
const_First   == {t1}
const_User    == {t1, t2}
const_Callers == {t1}
const_Waiters == {0}
const_Params  == {0, 1}

(* Domains: two nodes with two threads each, three nodes of which the last *)
(* has two threads and is far from the first, or a flat machine.           *)
FourCPUs == 0..3
Pairs    == [c \in FourCPUs |-> c \div 2]
Three    == [c \in FourCPUs |-> IF c = 3 THEN 2 ELSE c]
Single   == [c \in FourCPUs |-> c]
One      == [c \in FourCPUs |-> 0]
Far      == [m \in 0..2 |-> [n \in 0..2 |-> 10 * (IF m < n THEN n - m ELSE m - n)]]
Topo(thread, core, node, smt, mc, numa) ==
  [thread |-> thread, core |-> core, node |-> node, distance |-> Far, smt |-> smt, mc |-> mc, numa |-> numa]
const_Topologies ==
  {Topo(Pairs, Pairs, Pairs, TRUE, TRUE, TRUE), Topo(Three, Three, Three, TRUE, FALSE, TRUE),
   Topo(Single, One, One, FALSE, TRUE, FALSE)}
const_Partitions ==
  {{}, {<<{0, 1, 2, 3}, 0>>}, {<<{0, 1, 2}, -1>>}, {<<{0, 3}, -1>>, <<{1, 2}, -1>>}}

(* Real-time power: what an overlap may leave.                             *)
const_Ages == {-5, 0, 6}

(* Time and usage: one group below another.                                *)
const_Parent == [g \in {"top", "low"} |-> IF g = "low" THEN "top" ELSE None]
=============================================================================
