----------------------------- MODULE MCTSQueue -----------------------------
(* TSQueue with every kind of caller at once.                               *)
EXTENDS TSQueue

CONSTANTS p1, p2, w1, w2, loop

TwoPushers == {p1, p2}
TwoWorkers == {w1, w2}
OneLoop    == {loop}
=============================================================================
