---------------------------- MODULE MCRangeScan ----------------------------
(* RangeScan on one file that is long enough for the division by 31 to be   *)
(* wrong.                                                                   *)
EXTENDS RangeScan

LongFile == {[n |-> 31, at |-> [k \in 0..30 |-> k + 1]]}
=============================================================================
