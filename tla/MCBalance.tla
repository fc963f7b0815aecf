------------------------------ MODULE MCBalance ------------------------------
(* Three processors, alike or two of them in one node, and three tasks.    *)
EXTENDS Balance

CONSTANTS t1, t2, t3

Flat == [c \in {0, 1, 2} |-> << [groups |-> <<{c}, {(c + 1) % 3}, {(c + 2) % 3}>>, prefer_sibling |-> FALSE] >>]
Nodes ==
  [c \in {0, 1, 2} |->
     IF c = 2 THEN << [groups |-> <<{2}, {0, 1}>>, prefer_sibling |-> FALSE] >>
     ELSE << [groups |-> <<{c}, {1 - c}>>, prefer_sibling |-> FALSE],
             [groups |-> <<{0, 1}, {2}>>, prefer_sibling |-> TRUE] >>]

(* All of a weight; one a little, or a lot, heavier than the others.       *)
MCSettings ==
  [weight  : {[t \in {t1, t2, t3} |-> IF t = h[1] THEN h[2] ELSE 8] : h \in {<<t1, 8>>, <<t1, 16>>, <<t3, 72>>}},
   allowed : {(t1 :> {0, 1, 2}) @@ (t2 :> {0, 1, 2}) @@ (t3 :> {0, 2})},
   domains : {Flat, Nodes}]
=============================================================================
