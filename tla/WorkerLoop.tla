----------------------------- MODULE WorkerLoop -----------------------------
(***************************************************************************)
(* What a worker thread computes for one query (worker_thread_loop in      *)
(* server.cc and Query_engine::aggregator): the query's time range is cut  *)
(* into windows of one resolution, and for every window each metric asked  *)
(* for yields one result.  Time points are unsigned integers of a fixed    *)
(* width, so an addition wraps at Modulus (2^64 in the code).              *)
(***************************************************************************)
EXTENDS Naturals, Sequences, FiniteSets

CONSTANTS
  Modulus,          (* 2^64: time points are 0 .. Modulus - 1               *)
  Queries,          (* the TradeDataQuery values to consider                *)
  MaxResults        (* bound: no window is opened past this many results    *)

TimePoint == 0..(Modulus - 1)
Metrics   == 0..2   (* 0: min and max price, 1: mean price, 2: quantity     *)
ListBits  == 8      (* aggregator looks at the bits 0..7 of metric_list     *)

(* The bits of the wire format's metrics field.                             *)
MetricBits == 0..63
QueryType == [start_time_point : TimePoint, end_time_point : TimePoint,
              resolution : TimePoint, metrics : SUBSET MetricBits]

ASSUME QueryAssumption ==
  Modulus \in Nat \ {0} /\ Queries \subseteq QueryType /\ MaxResults \in Nat

VARIABLES
  query,            (* work.query                                           *)
  pc,               (* the loop the worker is in, or done                   *)
  start_time,       (* of the worker's window loop                          *)
  interval_end,     (* interval_query.end_time_point                        *)
  agg_start,        (* start_time of aggregator's loop                      *)
  agg_end,          (* end_time of aggregator's loop                        *)
  i,                (* aggregator's metric loop                             *)
  out               (* the results appended so far                          *)

vars == <<query, pc, start_time, interval_end, agg_start, agg_end, i, out>>

Plus(a, b) == (a + b) % Modulus
Lesser(a, b) == IF a < b THEN a ELSE b

(* metric_list of the worker, as the set of its bits.                       *)
MetricList(q) == {0 : b \in q.metrics \cap {0}}
                 \cup {1 : b \in q.metrics \cap {26}}
                 \cup {2 : b \in q.metrics \cap {33}}

Init ==
  /\ query \in Queries
  /\ pc = "window" /\ start_time = query.start_time_point
  /\ interval_end = 0 /\ agg_start = 0 /\ agg_end = 0 /\ i = 0
  /\ out = <<>>

(* Mutation of NextWindow: the last window is not cut at the query's end.   *)
MutWindowUncut ==
  /\ pc = "window" /\ start_time < query.end_time_point
  /\ Len(out) <= MaxResults
  /\ interval_end' = Plus(start_time, query.resolution)
  /\ agg_start' = start_time
  /\ pc' = "interval"
  /\ UNCHANGED <<query, start_time, agg_end, i, out>>

(* One turn of the worker's loop: the interval query is built and handed to *)
(* aggregator.                                                              *)
NextWindow ==
  /\ pc = "window" /\ start_time < query.end_time_point
  /\ Len(out) <= MaxResults
  /\ interval_end' = Lesser(Plus(start_time, query.resolution),
                            query.end_time_point)
  /\ agg_start' = start_time
  /\ pc' = "interval"
  /\ UNCHANGED <<query, start_time, agg_end, i, out>>

(* The accumulated buffer is pushed to the results queue.                   *)
PushResult ==
  /\ pc = "window" /\ ~(start_time < query.end_time_point)
  /\ pc' = "done"
  /\ UNCHANGED <<query, start_time, interval_end, agg_start, agg_end, i, out>>

(* Mutation of NextInterval: tests the end with <=.                         *)
MutIntervalInclusive ==
  /\ pc = "interval" /\ agg_start <= interval_end
  /\ agg_end' = Lesser(Plus(agg_start, query.resolution), interval_end)
  /\ i' = 0
  /\ pc' = "metric"
  /\ UNCHANGED <<query, start_time, interval_end, agg_start, out>>

(* One turn of aggregator's loop over the interval it was given.            *)
NextInterval ==
  /\ pc = "interval" /\ agg_start < interval_end
  /\ agg_end' = Lesser(Plus(agg_start, query.resolution), interval_end)
  /\ i' = 0
  /\ pc' = "metric"
  /\ UNCHANGED <<query, start_time, interval_end, agg_start, out>>

(* Mutation of Metric: the whole query's end instead of the window's.       *)
MutMetricToQueryEnd ==
  /\ pc = "metric" /\ i < ListBits
  /\ out' = IF i \in MetricList(query)
              THEN Append(out, [from |-> agg_start,
                                to |-> query.end_time_point, metric |-> i])
              ELSE out
  /\ i' = i + 1
  /\ UNCHANGED <<query, pc, start_time, interval_end, agg_start, agg_end>>

(* One bit of metric_list; a metric in it is computed over [agg_start,      *)
(* agg_end), where its function asserts that end_time > start_time.         *)
Metric ==
  /\ pc = "metric" /\ i < ListBits
  /\ out' = IF i \in MetricList(query)
              THEN Append(out, [from |-> agg_start, to |-> agg_end, metric |-> i])
              ELSE out
  /\ i' = i + 1
  /\ UNCHANGED <<query, pc, start_time, interval_end, agg_start, agg_end>>

(* Mutation of MetricsDone: aggregator's loop does not advance.             *)
MutAggregatorStays ==
  /\ pc = "metric" /\ i = ListBits
  /\ pc' = "interval"
  /\ UNCHANGED <<query, start_time, interval_end, agg_start, agg_end, i, out>>

(* Mutation of MetricsDone: aggregator advances by one.                     *)
MutAggregatorByOne ==
  /\ pc = "metric" /\ i = ListBits
  /\ agg_start' = Plus(agg_start, 1)
  /\ pc' = "interval"
  /\ UNCHANGED <<query, start_time, interval_end, agg_end, i, out>>

MetricsDone ==
  /\ pc = "metric" /\ i = ListBits
  /\ agg_start' = Plus(agg_start, query.resolution)
  /\ pc' = "interval"
  /\ UNCHANGED <<query, start_time, interval_end, agg_end, i, out>>

(* aggregator returns and the worker's loop advances.                       *)
IntervalDone ==
  /\ pc = "interval" /\ ~(agg_start < interval_end)
  /\ start_time' = Plus(start_time, query.resolution)
  /\ pc' = "window"
  /\ UNCHANGED <<query, interval_end, agg_start, agg_end, i, out>>

Compute == NextWindow \/ NextInterval \/ Metric \/ MetricsDone \/ IntervalDone
Next == Compute \/ PushResult

Spec == Init /\ [][Next]_vars
FairSpec == Spec /\ WF_vars(Next)

-----------------------------------------------------------------------------
(* Properties.                                                              *)

Result == [from : TimePoint, to : TimePoint, metric : Metrics]

TypeOK ==
  /\ query \in Queries
  /\ pc \in {"window", "interval", "metric", "done"}
  /\ start_time \in TimePoint /\ interval_end \in TimePoint
  /\ agg_start \in TimePoint /\ agg_end \in TimePoint
  /\ i \in 0..ListBits
  /\ out \in Seq(Result)

(* assert(end_time > start_time) of the range functions never fires         *)
(* (query_engine.cc:133, 193, 260), whatever the query, wrapping included.  *)
AssertHolds == pc = "metric" => agg_end > agg_start

(* The two nested loops over time do not repeat a window: aggregator's      *)
(* loop, given one window, goes round at most once (server.cc:40-56,        *)
(* query_engine.cc:76-80).                                                  *)
OneIntervalPerWindow ==
  pc = "interval" /\ agg_start # start_time => agg_start >= interval_end

(* The last addition of the loop does not wrap.                             *)
NoOverflow(q) == q.end_time_point + q.resolution <= Modulus

(* Every result is about a part of the range asked for.                     *)
Within(q, r) == /\ q.start_time_point <= r.from
                /\ r.from < r.to
                /\ r.to <= q.end_time_point

InRange == \A k \in 1..Len(out) : Within(query, out[k])

(* "over time intervals as specified by the query" (query_engine.h:68): no  *)
(* result is about a time outside the query's range, unless the last        *)
(* addition wraps (then the loop starts again from a small time point).     *)
WindowsWithinQuery == NoOverflow(query) => InRange

(* Without these a query is not served at all: the loop stands still or     *)
(* starts again from a small time point.                                    *)
Tame(q) == q.resolution > 0 /\ NoOverflow(q)

(* ceil(range / resolution).                                                *)
Windows(q) ==
  IF q.start_time_point >= q.end_time_point THEN 0
  ELSE (q.end_time_point - q.start_time_point + q.resolution - 1) \div q.resolution

(* A trade of time t is among those the result is computed over.            *)
Counts(r, t) == r.from <= t /\ t < r.to

(* A trade at any time of the range is counted once under every metric      *)
(* asked for: it falls into no two windows and between none, the last,      *)
(* shorter one included (server.cc:40-56, query_engine.cc:76-118).          *)
CountedOnce ==
  pc = "done" /\ Tame(query) =>
    \A t \in TimePoint, m \in MetricList(query) :
      query.start_time_point <= t /\ t < query.end_time_point =>
        \E k \in 1..Len(out) : \A l \in 1..Len(out) :
          out[l].metric = m /\ Counts(out[l], t) <=> l = k

(* Every query whose loop advances and does not wrap is answered.           *)
Terminates == Tame(query) ~> pc = "done"
=============================================================================
