------------------------------ MODULE MCLibPrf ------------------------------
(* Two users of the library in turn.  Two bursts of 128 switches leave the *)
(* byte of the reply at zero.  A second is 4 ns and a long reaches 2.25 s, *)
(* as in the original (2^31 ns are 2.15 s).                                *)
EXTENDS LibPrf

const_Pids      == {2, 3}
const_Bursts    == {128}
const_Durations == {1, 8}
const_Strays    == {-1}
const_Garbage   == {0}
=============================================================================
