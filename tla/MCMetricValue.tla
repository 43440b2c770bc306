--------------------------- MODULE MCMetricValue ---------------------------
(* MetricValue on all short sorted files over a small time line.            *)
EXTENDS MetricValue

CONSTANTS MaxRecords, MaxTime

SortedTimes(n) == {at \in [0..(n - 1) -> 1..MaxTime] :
                     \A k \in 1..(n - 1) : at[k - 1] <= at[k]}

(* Prices and quantities below, at and above what fits a mantissa, one for  *)
(* all records or in turn.                                                  *)
Amounts == <<[p |-> 7, q |-> 0], [p |-> 1, q |-> 3], [p |-> 95, q |-> 12000]>>
Patterns == {[k \in 0..(MaxRecords - 1) |-> Amounts[((a + b * k) % 3) + 1]] :
               a \in 0..2, b \in {0, 1}}

SortedFiles ==
  UNION {{[n |-> n, at |-> at,
           price |-> [k \in 0..(n - 1) |-> v[k].p],
           quantity |-> [k \in 0..(n - 1) |-> v[k].q]] :
            at \in SortedTimes(n), v \in Patterns} : n \in 1..MaxRecords}
=============================================================================
