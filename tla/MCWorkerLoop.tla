---------------------------- MODULE MCWorkerLoop ----------------------------
(* WorkerLoop and ReplyCodec on all queries over a small time line.         *)
EXTENDS ReplyCodec

(* Every combination of the three metrics, with one bit no metric has.      *)
MCMetrics == {m \cup {5} : m \in SUBSET {0, 26, 33}}

AllQueries == [start_time_point : TimePoint, end_time_point : TimePoint,
               resolution : TimePoint, metrics : MCMetrics]
=============================================================================
