----------------------------- MODULE MCSchedule -----------------------------
(* Small machines for Schedule.                                            *)
EXTENDS Schedule

const_OneCpu   == {1}
const_TwoCpus  == {1, 2}
const_Two      == {2, 3}
const_Three    == {1, 2, 3}
const_Nobody   == {}
const_One      == {2}
=============================================================================
