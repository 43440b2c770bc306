--------------------------- MODULE MCEpollServer ---------------------------
(* EpollServer on two connections and two workers.                          *)
EXTENDS EpollServer, TLC

CONSTANTS c1, c2, w1, w2

MCConns   == {c1, c2}
MCWorkers == {w1, w2}

(* Connections and workers are interchangeable.                             *)
Symmetry == Permutations(MCConns) \cup Permutations(MCWorkers)
=============================================================================
