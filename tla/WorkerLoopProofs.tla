-------------------------- MODULE WorkerLoopProofs --------------------------
(***************************************************************************)
(* Proofs about WorkerLoop and ReplyCodec, for every width of the time     *)
(* points and every query: the assertion of the range functions never      *)
(* fires, the inner loop goes round at most once, and without overflow the *)
(* windows are inside the query's range, a trade inside it is counted once *)
(* under every metric asked for, and the client prints each value under    *)
(* its window and name.                                                    *)
(***************************************************************************)
EXTENDS ReplyCodec, SequenceTheorems, FiniteSetTheorems,
        WellFoundedInduction, TLAPS

(* Addition of a fixed width either does not wrap or loses one Modulus.     *)
LEMMA PlusCases ==
  ASSUME NEW a \in TimePoint, NEW b \in TimePoint
  PROVE  /\ Plus(a, b) \in TimePoint
         /\ a + b < Modulus => Plus(a, b) = a + b
         /\ a + b >= Modulus => Plus(a, b) = a + b - Modulus
  <1> USE QueryAssumption DEF TimePoint, Plus
  <1>1. CASE a + b < Modulus
    BY <1>1
  <1>2. CASE a + b >= Modulus
    BY <1>2
  <1> QED BY <1>1, <1>2

(* A window that is entered at all did not wrap: its end, after the cut, is *)
(* after its start, and one more resolution is at or past that end.         *)
LEMMA EnteredWindow ==
  ASSUME NEW s \in TimePoint, NEW r \in TimePoint, NEW e \in TimePoint,
         s < Lesser(Plus(s, r), e)
  PROVE  /\ Lesser(Plus(s, r), Lesser(Plus(s, r), e)) = Lesser(Plus(s, r), e)
         /\ Plus(s, r) >= Lesser(Plus(s, r), e)
         /\ s + r < Modulus /\ Plus(s, r) = s + r
  <1> DEFINE p == Plus(s, r)
  <1>1. /\ p \in TimePoint
        /\ s + r < Modulus => p = s + r
        /\ s + r >= Modulus => p = s + r - Modulus
    BY PlusCases
  <1>2. s < Lesser(p, e)
    OBVIOUS
  <1> HIDE DEF p
  <1>3. s < p /\ p >= Lesser(p, e) /\ Lesser(p, Lesser(p, e)) = Lesser(p, e)
    BY <1>1, <1>2 DEF Lesser, TimePoint
  <1>4. s + r < Modulus /\ p = s + r
    BY <1>1, <1>3, QueryAssumption DEF TimePoint
  <1> QED BY <1>3, <1>4 DEF p

(* The worker's list has only the bits of the three metrics.                *)
LEMMA MetricListType == ASSUME NEW q PROVE MetricList(q) \subseteq Metrics
  BY DEF MetricList, Metrics

-----------------------------------------------------------------------------
(* Types.                                                                   *)

LEMMA TypeCorrect == Spec => []TypeOK
  <1> USE QueryAssumption DEF TypeOK, TimePoint, QueryType
  <1>1. Init => TypeOK
    BY DEF Init, ListBits
  <1>2. TypeOK /\ [Next]_vars => TypeOK'
    <2> SUFFICES ASSUME TypeOK, [Next]_vars PROVE TypeOK'
      OBVIOUS
    <2>0. query \in QueryType
      OBVIOUS
    <2>1. CASE NextWindow
      <3>1. Plus(start_time, query.resolution) \in TimePoint
        BY <2>0, PlusCases
      <3> QED BY <2>0, <2>1, <3>1 DEF NextWindow, Lesser
    <2>2. CASE NextInterval
      <3>1. Plus(agg_start, query.resolution) \in TimePoint
        BY <2>0, PlusCases
      <3> QED BY <2>2, <3>1 DEF NextInterval, Lesser, ListBits
    <2>3. CASE Metric
      <3>1. i \in MetricList(query) =>
              [from |-> agg_start, to |-> agg_end, metric |-> i] \in Result
        BY MetricListType DEF Result
      <3>2. out' \in Seq(Result)
        BY <2>3, <3>1 DEF Metric
      <3> QED BY <2>3, <3>2 DEF Metric, ListBits
    <2>4. CASE MetricsDone
      <3>1. Plus(agg_start, query.resolution) \in TimePoint
        BY <2>0, PlusCases
      <3> QED BY <2>4, <3>1 DEF MetricsDone
    <2>5. CASE IntervalDone
      <3>1. Plus(start_time, query.resolution) \in TimePoint
        BY <2>0, PlusCases
      <3> QED BY <2>5, <3>1 DEF IntervalDone
    <2>6. CASE PushResult
      BY <2>6 DEF PushResult
    <2>7. CASE UNCHANGED vars
      BY <2>7 DEF vars
    <2> QED BY <2>1, <2>2, <2>3, <2>4, <2>5, <2>6, <2>7 DEF Next, Compute
  <1> QED BY <1>1, <1>2, PTL DEF Spec

-----------------------------------------------------------------------------
(* The control of the two nested loops, for every query: the interval       *)
(* handed to aggregator is the worker's window, and aggregator's loop is at *)
(* its start or past its end.                                               *)
LoopInv ==
  /\ pc \in {"interval", "metric"} =>
       /\ start_time < query.end_time_point
       /\ interval_end = Lesser(Plus(start_time, query.resolution),
                                query.end_time_point)
  /\ pc = "interval" => agg_start = start_time \/ agg_start >= interval_end
  /\ pc = "metric" => /\ agg_start = start_time /\ agg_start < interval_end
                      /\ agg_end = interval_end

LEMMA LoopInvNext == TypeOK /\ LoopInv /\ [Next]_vars => LoopInv'
  <1> SUFFICES ASSUME TypeOK, LoopInv, [Next]_vars PROVE LoopInv'
    OBVIOUS
  <1>0. /\ start_time \in TimePoint /\ agg_start \in TimePoint
        /\ interval_end \in TimePoint
        /\ query.resolution \in TimePoint /\ query.end_time_point \in TimePoint
    BY QueryAssumption DEF TypeOK, QueryType
  <1>1. CASE NextWindow
    BY <1>1 DEF NextWindow, LoopInv
  <1>2. CASE NextInterval
    <2>1. agg_start = start_time /\ start_time < interval_end
      BY <1>0, <1>2 DEF NextInterval, LoopInv, TimePoint
    <2>2. interval_end = Lesser(Plus(start_time, query.resolution),
                                query.end_time_point)
      BY <1>2 DEF NextInterval, LoopInv
    <2>3. agg_end' = interval_end
      BY <1>0, <1>2, <2>1, <2>2, EnteredWindow DEF NextInterval
    <2> QED BY <1>2, <2>1, <2>3 DEF NextInterval, LoopInv
  <1>3. CASE Metric
    BY <1>3 DEF Metric, LoopInv
  <1>4. CASE MetricsDone
    <2>1. /\ agg_start = start_time /\ start_time < interval_end
          /\ interval_end = Lesser(Plus(start_time, query.resolution),
                                   query.end_time_point)
      BY <1>4 DEF MetricsDone, LoopInv
    <2>2. Plus(start_time, query.resolution) >= interval_end
      BY <1>0, <2>1, EnteredWindow
    <2> QED BY <1>4, <2>1, <2>2 DEF MetricsDone, LoopInv
  <1>5. CASE IntervalDone
    BY <1>5 DEF IntervalDone, LoopInv
  <1>6. CASE PushResult
    BY <1>6 DEF PushResult, LoopInv
  <1>7. CASE UNCHANGED vars
    BY <1>7 DEF vars, LoopInv
  <1> QED BY <1>1, <1>2, <1>3, <1>4, <1>5, <1>6, <1>7 DEF Next, Compute

LEMMA LoopInvHolds == Spec => []LoopInv
  <1>1. Init => LoopInv
    BY DEF Init, LoopInv
  <1> QED BY <1>1, LoopInvNext, TypeCorrect, PTL DEF Spec

(* The range functions' assert(end_time > start_time) never fires, whatever *)
(* the width of the time points and whatever the query.                     *)
THEOREM AssertNeverFires == Spec => []AssertHolds
  <1>1. TypeOK /\ LoopInv => AssertHolds
    BY DEF LoopInv, AssertHolds, TypeOK, TimePoint
  <1> QED BY <1>1, TypeCorrect, LoopInvHolds, PTL

(* Given one window, aggregator's own loop over time goes round at most     *)
(* once.                                                                    *)
THEOREM AtMostOneInterval == Spec => []OneIntervalPerWindow
  <1>1. LoopInv => OneIntervalPerWindow
    BY DEF LoopInv, OneIntervalPerWindow
  <1> QED BY <1>1, LoopInvHolds, PTL

-----------------------------------------------------------------------------
(* While the loops of a query run that does not wrap, the results are in    *)
(* the query's range and the next window does not start before it.          *)
RangeInv ==
  NoOverflow(query) => start_time >= query.start_time_point /\ InRange

(* The only step that changes the results appends one.                      *)
LEMMA RangeInvMetric ==
  ASSUME TypeOK, LoopInv, RangeInv, NoOverflow(query), Metric
  PROVE  RangeInv'
  <1> USE DEF TypeOK
  <1>0. /\ query' = query /\ pc' = pc /\ pc = "metric" /\ start_time' = start_time
        /\ agg_start' = agg_start /\ agg_end' = agg_end /\ i' = i + 1
        /\ interval_end' = interval_end
    BY DEF Metric
  <1>1. /\ query.end_time_point \in TimePoint /\ query.start_time_point \in TimePoint
        /\ start_time >= query.start_time_point
        /\ agg_start = start_time /\ agg_start < agg_end
        /\ agg_end <= query.end_time_point
    <2>1. /\ query.end_time_point \in TimePoint
          /\ query.start_time_point \in TimePoint
          /\ query.resolution \in TimePoint
      BY QueryAssumption DEF QueryType
    <2>2. Plus(start_time, query.resolution) \in TimePoint
      BY <2>1, PlusCases
    <2>3. agg_start = start_time /\ agg_start < agg_end
          /\ agg_end = Lesser(Plus(start_time, query.resolution),
                              query.end_time_point)
      BY <1>0 DEF LoopInv
    <2>4. agg_end <= query.end_time_point
      BY <2>1, <2>2, <2>3 DEF Lesser, TimePoint
    <2> QED BY <2>1, <2>3, <2>4 DEF RangeInv
  <1>2. CASE i \notin MetricList(query)
    <2>1. out' = out
      BY <1>2 DEF Metric
    <2> QED BY <1>0, <2>1 DEF RangeInv, InRange, Within
  <1>3. CASE i \in MetricList(query)
    <2> DEFINE r == [from |-> agg_start, to |-> agg_end, metric |-> i]
    <2>1. out' = Append(out, r)
      BY <1>3 DEF Metric
    <2>2. /\ Len(out') = Len(out) + 1 /\ Len(out) \in Nat
          /\ out'[Len(out')] = r
          /\ \A k \in 1..Len(out) : out'[k] = out[k]
      BY <2>1
    <2>3. r.from = agg_start /\ r.to = agg_end
      OBVIOUS
    <2> HIDE DEF r
    <2>4. Within(query, r)
      BY <1>1, <2>3 DEF Within, TimePoint
    <2>5. InRange'
      BY <1>0, <2>2, <2>4 DEF RangeInv, InRange, Within
    <2> QED BY <1>0, <1>1, <2>5 DEF RangeInv
  <1> QED BY <1>2, <1>3

LEMMA RangeInvNext == TypeOK /\ LoopInv /\ RangeInv /\ [Next]_vars => RangeInv'
  <1> SUFFICES ASSUME TypeOK, LoopInv, RangeInv, [Next]_vars, NoOverflow(query)
               PROVE  RangeInv'
    BY DEF RangeInv, Next, Compute, NextWindow, NextInterval, Metric,
       MetricsDone, IntervalDone, PushResult, vars
  <1>0. /\ start_time \in TimePoint /\ query.start_time_point \in TimePoint
        /\ query.resolution \in TimePoint /\ query.end_time_point \in TimePoint
    BY QueryAssumption DEF TypeOK, QueryType
  <1> USE DEF RangeInv, InRange, Within
  <1>1. CASE NextWindow
    BY <1>1 DEF NextWindow
  <1>2. CASE NextInterval
    BY <1>2 DEF NextInterval
  <1>3. CASE Metric
    BY <1>3, RangeInvMetric
  <1>4. CASE MetricsDone
    BY <1>4 DEF MetricsDone
  <1>5. CASE IntervalDone
    <2> DEFINE p == Plus(start_time, query.resolution)
    <2>1. p \in TimePoint /\ start_time + query.resolution < Modulus
          /\ p = start_time + query.resolution
      <3>1. start_time < query.end_time_point
        BY <1>5 DEF IntervalDone, LoopInv
      <3>2. start_time + query.resolution < Modulus
        BY <1>0, <3>1, QueryAssumption DEF NoOverflow, TimePoint
      <3> QED BY <1>0, <3>2, PlusCases
    <2>2. start_time' = p /\ query' = query /\ out' = out
      BY <1>5 DEF IntervalDone
    <2> HIDE DEF p
    <2>3. p >= query.start_time_point
      BY <1>0, <2>1 DEF TimePoint
    <2> QED BY <2>2, <2>3
  <1>6. CASE PushResult
    BY <1>6 DEF PushResult
  <1>7. CASE UNCHANGED vars
    BY <1>7 DEF vars
  <1> QED BY <1>1, <1>2, <1>3, <1>4, <1>5, <1>6, <1>7 DEF Next, Compute

(* Without overflow every result is about a part of the range the query     *)
(* asked for (server.cc:40-56).                                             *)
THEOREM WindowsCorrect == Spec => []WindowsWithinQuery
  <1>1. Init => RangeInv
    BY QueryAssumption DEF Init, RangeInv, InRange, QueryType, TimePoint
  <1>2. RangeInv => WindowsWithinQuery
    BY DEF RangeInv, WindowsWithinQuery
  <1> QED BY <1>1, <1>2, RangeInvNext, TypeCorrect, LoopInvHolds, PTL DEF Spec

-----------------------------------------------------------------------------
(* The whole reply.                                                         *)

(* x is in the w-th of the blocks of r numbers.                             *)
LEMMA Block ==
  ASSUME NEW x \in Nat, NEW r \in Nat \ {0}, NEW w \in Nat, NEW d \in Nat,
         x = w * r + d, d < r
  PROVE  x \div r = w /\ x % r = d
  <1> DEFINE q == x \div r
             e == x % r
  <1>1. q \in Nat /\ e \in Nat /\ e < r /\ x = r * q + e
    OBVIOUS
  <1> HIDE DEF q, e
  <1>2. ASSUME q >= w + 1 PROVE FALSE
    <2>1. r * q >= r * (w + 1)
      BY <1>1, <1>2
    <2>2. r * (w + 1) = w * r + r /\ w * r \in Nat /\ r * q \in Nat
      BY <1>1
    <2> QED BY <1>1, <2>1, <2>2
  <1>3. ASSUME q + 1 <= w PROVE FALSE
    <2>1. r * (q + 1) <= r * w
      BY <1>1, <1>3
    <2>2. r * (q + 1) = r * q + r /\ r * w = w * r /\ w * r \in Nat /\ r * q \in Nat
      BY <1>1
    <2> QED BY <1>1, <2>1, <2>2
  <1>4. q = w
    BY <1>1, <1>2, <1>3
  <1>5. r * q = w * r /\ w * r \in Nat
    BY <1>4
  <1>6. e = d
    BY <1>1, <1>5
  <1> QED BY <1>4, <1>6 DEF q, e

LEMMA NextMultiple == \A w, r \in Nat : (w + 1) * r = w * r + r
  OBVIOUS

(* How many members of a set are below a number.                            *)
Below(S, n) == Cardinality({x \in S : x < n})

LEMMA BelowFacts ==
  ASSUME NEW S, S \subseteq Nat, IsFiniteSet(S), NEW n \in Nat
  PROVE  /\ Below(S, n) \in Nat
         /\ n \notin S => Below(S, n + 1) = Below(S, n)
         /\ n \in S => Below(S, n + 1) = Below(S, n) + 1
  <1> DEFINE B == {x \in S : x < n}
             C == {x \in S : x < n + 1}
  <1>1. IsFiniteSet(B) /\ n \notin B
    BY FS_Subset
  <1>0. \A x \in S : x < n + 1 <=> x < n \/ x = n
    <2> SUFFICES ASSUME NEW x \in S PROVE x < n + 1 <=> x < n \/ x = n
      OBVIOUS
    <2>1. x \in Nat
      OBVIOUS
    <2> QED BY <2>1
  <1>2. ASSUME n \notin S PROVE C = B
    BY <1>0, <1>2, Zenon
  <1>3. ASSUME n \in S PROVE C = B \cup {n}
    BY <1>0, <1>3, Zenon
  <1> HIDE DEF B, C
  <1>4. Cardinality(B) \in Nat /\ Cardinality(B \cup {n}) = Cardinality(B) + 1
    BY <1>1, FS_CardinalityType, FS_AddElement
  <1> QED BY <1>2, <1>3, <1>4 DEF Below, B, C

(* A larger member has more members below it, and no member has all.        *)
LEMMA BelowGrows ==
  ASSUME NEW S, S \subseteq Nat, IsFiniteSet(S), NEW m \in S, NEW n \in Nat, m < n
  PROVE  Below(S, m) < Below(S, n)
  <1> DEFINE B == {x \in S : x < m}
             C == {x \in S : x < n}
  <1>0. \A x \in S : x < m => x < n
    <2> SUFFICES ASSUME NEW x \in S, x < m PROVE x < n
      OBVIOUS
    <2>1. x \in Nat /\ m \in Nat
      OBVIOUS
    <2> QED BY <2>1
  <1>1. B \subseteq C /\ m \in C /\ m \notin B
    <2>1. ~(m < m)
      OBVIOUS
    <2> QED BY <1>0, <2>1, Zenon
  <1>2. IsFiniteSet(C)
    BY FS_Subset
  <1> HIDE DEF B, C
  <1>3. Cardinality(B) \in Nat /\ Cardinality(C) \in Nat
        /\ Cardinality(B) <= Cardinality(C)
        /\ (Cardinality(B) = Cardinality(C) => B = C)
    BY <1>1, <1>2, FS_Subset, FS_CardinalityType
  <1> QED BY <1>1, <1>3 DEF Below, B, C

LEMMA BelowAll ==
  ASSUME NEW S, S \subseteq Nat, IsFiniteSet(S), NEW m \in S
  PROVE  Below(S, m) < Cardinality(S)
  <1> DEFINE B == {x \in S : x < m}
  <1>1. B \subseteq S /\ m \notin B
    OBVIOUS
  <1> HIDE DEF B
  <1>2. Cardinality(B) \in Nat /\ Cardinality(S) \in Nat
        /\ Cardinality(B) <= Cardinality(S)
        /\ (Cardinality(B) = Cardinality(S) => B = S)
    BY <1>1, FS_Subset, FS_CardinalityType
  <1> QED BY <1>1, <1>2 DEF Below, B

(* So a member is known by how many are below it.                           *)
LEMMA BelowTells ==
  ASSUME NEW S, S \subseteq Nat, IsFiniteSet(S), NEW m \in S, NEW n \in S,
         Below(S, m) = Below(S, n)
  PROVE  m = n
  <1>1. m \in Nat /\ n \in Nat /\ Below(S, m) \in Nat /\ Below(S, n) \in Nat
    BY BelowFacts
  <1>2. m < n => Below(S, m) < Below(S, n)
    BY <1>1, BelowGrows
  <1>3. n < m => Below(S, n) < Below(S, m)
    BY <1>1, BelowGrows
  <1> QED BY <1>1, <1>2, <1>3

(* The result of metric m over the v-th window of q, and where in the reply *)
(* a result of its kind belongs.                                            *)
Entry(q, v, m) ==
  [from |-> q.start_time_point + v * q.resolution,
   to |-> Lesser(q.start_time_point + (v + 1) * q.resolution, q.end_time_point),
   metric |-> m]
Position(asked, v, m) == v * Cardinality(asked) + Below(asked, m) + 1
Placed(q, k, r) ==
  \E v \in Nat, m \in MetricList(q) :
    k = Position(MetricList(q), v, m) /\ r = Entry(q, v, m)

(* After w whole windows, and while the next one is computed.               *)
Progress(w) ==
  LET asked == MetricList(query)
      per == Cardinality(asked)
  IN  /\ start_time = query.start_time_point + w * query.resolution
      /\ pc \in {"window", "done"} =>
           /\ Len(out) = w * per
           /\ w = 0 \/ query.start_time_point + (w - 1) * query.resolution
                         < query.end_time_point
      /\ pc = "interval" =>
           Len(out) = IF agg_start = start_time THEN w * per ELSE w * per + per
      /\ pc = "metric" => Len(out) = w * per + Below(asked, i)
      /\ pc = "done" => start_time >= query.end_time_point

CompleteInv ==
  Tame(query) => /\ \E w \in Nat : Progress(w)
                 /\ \A k \in 1..Len(out) : Placed(query, k, out[k])

LEMMA AskedFacts ==
  LET asked == MetricList(query) IN
    /\ asked \subseteq 0..2 /\ asked \subseteq Nat /\ IsFiniteSet(asked)
    /\ Cardinality(asked) \in Nat
    /\ Below(asked, 0) = 0 /\ Below(asked, ListBits) = Cardinality(asked)
  <1> DEFINE asked == MetricList(query)
  <1>1. asked \subseteq 0..2
    BY MetricListType DEF Metrics
  <1>2. IsFiniteSet(0..2)
    <2>1. 0 \in Int /\ 2 \in Int
      OBVIOUS
    <2> QED BY ONLY <2>1, FS_Interval
  <1>3. IsFiniteSet(asked) /\ Cardinality(asked) \in Nat
    BY <1>1, <1>2, FS_Subset, FS_CardinalityType
  <1>4. {x \in asked : x < 0} = {} /\ {x \in asked : x < ListBits} = asked
    BY <1>1 DEF ListBits
  <1> HIDE DEF asked
  <1>5. Below(asked, 0) = 0 /\ Below(asked, ListBits) = Cardinality(asked)
    BY <1>4, FS_EmptySet DEF Below
  <1>6. asked \subseteq Nat
    BY <1>1
  <1> QED BY <1>1, <1>3, <1>5, <1>6 DEF asked

(* The window that is entered is a whole one or the query's last, and the   *)
(* addition that closes it does not wrap.                                   *)
LEMMA TameWindow ==
  ASSUME TypeOK, LoopInv, Tame(query), pc \in {"interval", "metric"}
  PROVE  /\ start_time < query.end_time_point
         /\ Plus(start_time, query.resolution) = start_time + query.resolution
         /\ interval_end = Lesser(start_time + query.resolution, query.end_time_point)
         /\ start_time < interval_end /\ interval_end \in Nat
  <1>1. /\ start_time \in TimePoint /\ query.end_time_point \in TimePoint
        /\ query.resolution \in TimePoint /\ query.resolution > 0
    BY QueryAssumption DEF TypeOK, QueryType, Tame
  <1>2. start_time < query.end_time_point
        /\ interval_end = Lesser(Plus(start_time, query.resolution),
                                 query.end_time_point)
    BY DEF LoopInv
  <1>3. start_time + query.resolution < Modulus
    BY <1>1, <1>2, QueryAssumption DEF Tame, NoOverflow, TimePoint
  <1>4. Plus(start_time, query.resolution) = start_time + query.resolution
    BY <1>1, <1>3, PlusCases
  <1> QED BY <1>1, <1>2, <1>4 DEF Lesser, TimePoint

(* A metric of the list is appended where the reply has it.                 *)
LEMMA MetricAppendsEntry ==
  ASSUME TypeOK, LoopInv, Tame(query), pc = "metric", i \in MetricList(query),
         NEW w \in Nat, Progress(w)
  PROVE  Placed(query, Len(out) + 1,
                [from |-> agg_start, to |-> agg_end, metric |-> i])
  <1>1. Len(out) + 1 = Position(MetricList(query), w, i)
    BY DEF Progress, Position
  <1>2. agg_start = query.start_time_point + w * query.resolution
    BY DEF LoopInv, Progress
  <1>3. agg_end = Lesser(query.start_time_point + (w + 1) * query.resolution,
                         query.end_time_point)
    <2>1. agg_end = Lesser(start_time + query.resolution, query.end_time_point)
      BY TameWindow DEF LoopInv
    <2>2. query.start_time_point \in Nat /\ query.resolution \in Nat
      BY QueryAssumption DEF TypeOK, QueryType, TimePoint
    <2>3. start_time + query.resolution
            = query.start_time_point + (w + 1) * query.resolution
      <3>1. start_time = query.start_time_point + w * query.resolution
        BY DEF Progress
      <3>2. (w + 1) * query.resolution = w * query.resolution + query.resolution
            /\ w * query.resolution \in Nat
        BY <2>2
      <3> QED BY <2>2, <3>1, <3>2
    <2> QED BY <2>1, <2>3
  <1>4. [from |-> agg_start, to |-> agg_end, metric |-> i] = Entry(query, w, i)
    BY <1>2, <1>3 DEF Entry
  <1> QED BY <1>1, <1>4 DEF Placed

LEMMA CompleteInvMetric ==
  ASSUME TypeOK, LoopInv, CompleteInv, Tame(query), Metric
  PROVE  CompleteInv'
  <1> DEFINE asked == MetricList(query)
             per == Cardinality(asked)
  <1>0. /\ query' = query /\ pc' = pc /\ pc = "metric" /\ start_time' = start_time
        /\ i' = i + 1 /\ i \in Nat /\ Len(out) \in Nat
    BY DEF Metric, TypeOK, ListBits
  <1>1. PICK w \in Nat : Progress(w)
    BY DEF CompleteInv
  <1>2. asked \subseteq Nat /\ IsFiniteSet(asked) /\ per \in Nat
    BY AskedFacts
  <1>3. start_time = query.start_time_point + w * query.resolution
        /\ Len(out) = w * per + Below(asked, i)
    BY <1>0, <1>1 DEF Progress
  <1>4. Below(asked, i) \in Nat /\ w * per \in Nat
    <2> HIDE DEF asked, per
    <2>1. Below(asked, i) \in Nat
      BY <1>0, <1>2, BelowFacts
    <2>2. w * per \in Nat
      BY <1>2
    <2> QED BY <2>1, <2>2
  <1>5. CASE i \notin asked
    <2>1. out' = out /\ Below(asked, i + 1) = Below(asked, i)
      BY <1>0, <1>2, <1>5, BelowFacts DEF Metric
    <2>2. Progress(w)'
      BY <1>0, <1>3, <2>1 DEF Progress
    <2>3. \A k \in 1..Len(out') : Placed(query', k, out'[k])
      BY <1>0, <2>1 DEF CompleteInv
    <2> QED BY <2>2, <2>3 DEF CompleteInv
  <1>6. CASE i \in asked
    <2> DEFINE r == [from |-> agg_start, to |-> agg_end, metric |-> i]
    <2>1. out' = Append(out, r) /\ Below(asked, i + 1) = Below(asked, i) + 1
      BY <1>0, <1>2, <1>6, BelowFacts DEF Metric
    <2>2. Placed(query, Len(out) + 1, r)
      BY <1>0, <1>1, <1>6, MetricAppendsEntry
    <2> HIDE DEF r
    <2>3. /\ Len(out') = Len(out) + 1 /\ out'[Len(out) + 1] = r
          /\ \A k \in 1..Len(out) : out'[k] = out[k]
      BY <2>1 DEF TypeOK
    <2>4. Progress(w)'
      <3>1. Len(out') = w * per + Below(asked, i + 1)
        BY <1>0, <1>3, <1>4, <2>1, <2>3
      <3> QED BY <1>0, <1>3, <3>1 DEF Progress
    <2>5. ASSUME NEW k \in 1..Len(out')
          PROVE  Placed(query', k, out'[k])
      <3>1. CASE k = Len(out) + 1
        BY <1>0, <2>2, <2>3, <3>1
      <3>2. CASE k \in 1..Len(out)
        BY <1>0, <2>3, <3>2 DEF CompleteInv
      <3> QED BY <1>0, <2>3, <3>1, <3>2
    <2> QED BY <2>4, <2>5 DEF CompleteInv
  <1> QED BY <1>5, <1>6

LEMMA CompleteInvNext == TypeOK /\ LoopInv /\ CompleteInv /\ [Next]_vars => CompleteInv'
  <1> SUFFICES ASSUME TypeOK, LoopInv, CompleteInv, [Next]_vars, Tame(query)
               PROVE  CompleteInv'
    BY DEF CompleteInv, Next, Compute, NextWindow, NextInterval, Metric,
       MetricsDone, IntervalDone, PushResult, vars
  <1> DEFINE asked == MetricList(query)
             per == Cardinality(asked)
  <1>0. /\ start_time \in Nat /\ agg_start \in Nat /\ interval_end \in Nat
        /\ query.resolution \in Nat /\ query.end_time_point \in Nat
        /\ query.start_time_point \in Nat /\ query.resolution > 0
    BY QueryAssumption DEF TypeOK, QueryType, TimePoint, Tame
  <1>1. PICK w \in Nat : Progress(w)
    BY DEF CompleteInv
  <1>2. per \in Nat /\ Below(asked, 0) = 0 /\ Below(asked, ListBits) = per
    BY AskedFacts
  <1>3. w * per \in Nat /\ w * query.resolution \in Nat
    BY <1>0, <1>2
  <1>4. start_time = query.start_time_point + w * query.resolution
    BY <1>1 DEF Progress
  <1>f. ASSUME NEW v \in Nat, Progress(v)', UNCHANGED <<query, out>>
        PROVE  CompleteInv'
    <2>1. \A k \in 1..Len(out') : Placed(query', k, out'[k])
      BY <1>f DEF CompleteInv
    <2> QED BY <1>f, <2>1 DEF CompleteInv
  <1>5. CASE NextWindow
    <2>1. Progress(w)'
      BY <1>1, <1>5 DEF NextWindow, Progress
    <2> QED BY <1>5, <1>f, <2>1 DEF NextWindow
  <1>6. CASE NextInterval
    <2>1. agg_start = start_time
      BY <1>0, <1>6 DEF NextInterval, LoopInv
    <2>2. Progress(w)'
      BY <1>1, <1>2, <1>3, <1>6, <2>1 DEF NextInterval, Progress
    <2> QED BY <1>6, <1>f, <2>2 DEF NextInterval
  <1>7. CASE Metric
    BY <1>7, CompleteInvMetric
  <1>8. CASE MetricsDone
    <2>1. agg_start = start_time /\ agg_start' = start_time + query.resolution
      BY <1>8, TameWindow DEF MetricsDone, LoopInv
    <2>2. agg_start' # start_time
      BY <1>0, <2>1
    <2>3. Len(out) = w * per + per
      BY <1>1, <1>2, <1>8 DEF MetricsDone, Progress
    <2>4. Progress(w)'
      BY <1>4, <1>8, <2>2, <2>3 DEF MetricsDone, Progress
    <2> QED BY <1>8, <1>f, <2>4 DEF MetricsDone
  <1>9. CASE IntervalDone
    <2>1. /\ start_time < query.end_time_point
          /\ start_time' = start_time + query.resolution
          /\ agg_start # start_time
      BY <1>0, <1>9, TameWindow DEF IntervalDone
    <2>2. Len(out) = w * per + per
      BY <1>1, <1>9, <2>1 DEF IntervalDone, Progress
    <2>3. /\ (w + 1) * per = w * per + per
          /\ (w + 1) * query.resolution = w * query.resolution + query.resolution
          /\ (w + 1) - 1 = w /\ w + 1 \in Nat
      <3>1. per \in Nat /\ query.resolution \in Nat
        BY <1>0, <1>2
      <3>2. (w + 1) * per = w * per + per
        BY ONLY <3>1, NextMultiple, Zenon
      <3>3. (w + 1) * query.resolution = w * query.resolution + query.resolution
        BY ONLY <3>1, NextMultiple, Zenon
      <3>4. (w + 1) - 1 = w /\ w + 1 \in Nat
        OBVIOUS
      <3> QED BY <3>2, <3>3, <3>4
    <2>4. /\ start_time' = query.start_time_point + (w + 1) * query.resolution
          /\ Len(out) = (w + 1) * per
      <3> DEFINE z == w * query.resolution
                 y == (w + 1) * query.resolution
      <3>1. /\ query.start_time_point \in Nat /\ query.resolution \in Nat
            /\ z \in Nat /\ y = z + query.resolution
            /\ start_time' = query.start_time_point + z + query.resolution
        BY <1>0, <1>3, <1>4, <2>1, <2>3
      <3> HIDE DEF z, y
      <3>2. start_time' = query.start_time_point + y
        BY <3>1
      <3>3. Len(out) = (w + 1) * per
        BY <2>2, <2>3
      <3> QED BY <3>2, <3>3 DEF y
    <2>5. query.start_time_point + ((w + 1) - 1) * query.resolution
            < query.end_time_point
      <3>1. start_time < query.end_time_point /\ (w + 1) - 1 = w
        BY <2>1, <2>3
      <3> QED BY <1>4, <3>1
    <2>6. Progress(w + 1)'
      <3> HIDE DEF per
      <3>1. pc' = "window" /\ query' = query /\ out' = out
        BY <1>9 DEF IntervalDone
      <3> QED BY <2>4, <2>5, <3>1 DEF Progress, per
    <2> QED BY <1>9, <1>f, <2>3, <2>6 DEF IntervalDone
  <1>10. CASE PushResult
    <2>1. Progress(w)'
      BY <1>0, <1>1, <1>10 DEF PushResult, Progress
    <2> QED BY <1>10, <1>f, <2>1 DEF PushResult
  <1>11. CASE UNCHANGED vars
    <2>1. Progress(w)'
      BY <1>1, <1>11 DEF vars, Progress
    <2> QED BY <1>11, <1>f, <2>1 DEF vars
  <1> QED BY <1>5, <1>6, <1>7, <1>8, <1>9, <1>10, <1>11 DEF Next, Compute

LEMMA CompleteInvHolds == Spec => []CompleteInv
  <1>1. Init => CompleteInv
    <2> SUFFICES ASSUME Init, Tame(query)
                 PROVE  /\ Progress(0)
                        /\ \A k \in 1..Len(out) : Placed(query, k, out[k])
      BY DEF CompleteInv
    <2>1. query.resolution \in Nat /\ query.start_time_point \in Nat
      BY QueryAssumption DEF Init, QueryType, TimePoint
    <2>2. Cardinality(MetricList(query)) \in Nat
      BY AskedFacts
    <2>3. /\ 0 * query.resolution = 0 /\ 0 * Cardinality(MetricList(query)) = 0
          /\ Len(out) = 0 /\ pc = "window"
          /\ start_time = query.start_time_point
      BY <2>1, <2>2 DEF Init
    <2> QED BY <2>1, <2>3 DEF Progress
  <1> QED BY <1>1, CompleteInvNext, TypeCorrect, LoopInvHolds, PTL DEF Spec

(* How many windows there are is the number at which the loop stops.        *)
LEMMA WindowsCount ==
  ASSUME TypeOK, Tame(query), pc = "done", NEW w \in Nat, Progress(w)
  PROVE  Windows(query) = w
  <1> DEFINE S == query.start_time_point
             E == query.end_time_point
             R == query.resolution
             z == w * R
  <1>0. S \in Nat /\ E \in Nat /\ R \in Nat /\ R > 0 /\ z \in Nat
    BY QueryAssumption DEF TypeOK, QueryType, TimePoint, Tame
  <1>1. S + z >= E /\ (w = 0 \/ S + (w - 1) * R < E)
    BY DEF Progress
  <1>2. (w - 1) * R = z - R
    BY <1>0
  <1>3. w = 0 \/ S + z - R < E
    BY <1>0, <1>1, <1>2
  <1>4. Windows(query) = IF S >= E THEN 0 ELSE (E - S + R - 1) \div R
    BY DEF Windows
  <1>5. w = 0 => z = 0
    BY <1>0
  <1>6. CASE S >= E
    <2>1. ASSUME w # 0 PROVE FALSE
      <3>1. (w - 1) * R \in Nat
        BY <1>0, <2>1
      <3> QED BY <1>0, <1>1, <1>6, <2>1, <3>1
    <2> QED BY <1>4, <1>6, <2>1
  <1>7. CASE S < E
    <2> DEFINE x == E - S + R - 1
               d == x - z
    <2> HIDE DEF S, E, R, z
    <2>1. w # 0
      BY <1>0, <1>1, <1>5, <1>7
    <2>2. x \in Nat /\ d \in Nat /\ d < R /\ x = z + d
      BY <1>0, <1>1, <1>3, <1>7, <2>1
    <2>3. x = w * R + d
      BY <2>2 DEF z
    <2> HIDE DEF x, d
    <2>4. x \div R = w
      BY <1>0, <2>2, <2>3, Block
    <2> QED BY <1>0, <1>4, <1>7, <2>4 DEF x
  <1> QED BY <1>0, <1>6, <1>7

(* One window, and one result of each metric, holds a time inside the range *)
(* asked for.                                                               *)
LEMMA OneEntryCounts ==
  ASSUME TypeOK, Tame(query), NEW t \in TimePoint,
         query.start_time_point <= t, t < query.end_time_point
  PROVE  \E v \in Nat :
           /\ query.start_time_point + v * query.resolution <= t
           /\ \A u \in Nat, m \in MetricList(query) :
                Counts(Entry(query, u, m), t) <=> u = v
  <1> DEFINE S == query.start_time_point
             E == query.end_time_point
             R == query.resolution
             v == (t - S) \div R
             d == (t - S) % R
  <1>0. S \in Nat /\ E \in Nat /\ R \in Nat \ {0} /\ t \in Nat /\ S <= t /\ t < E
    BY QueryAssumption DEF TypeOK, QueryType, TimePoint, Tame
  <1>1. v \in Nat /\ d \in Nat /\ d < R /\ t - S = R * v + d
    <2> HIDE DEF S, E, R
    <2>1. t - S \in Nat
      BY <1>0
    <2> QED BY <1>0, <2>1
  <1> HIDE DEF S, E, R, v, d
  <1>2. R * v = v * R /\ v * R \in Nat
    BY <1>0, <1>1
  <1>3. ASSUME NEW u \in Nat, NEW m \in MetricList(query)
        PROVE  Counts(Entry(query, u, m), t) <=> u = v
    <2> DEFINE x == u * R
    <2>1. x \in Nat /\ (u + 1) * R = x + R
      BY <1>0
    <2>2. Counts(Entry(query, u, m), t)
            <=> S + x <= t /\ t < Lesser(S + (u + 1) * R, E)
      BY DEF Counts, Entry, S, E, R
    <2>3. Counts(Entry(query, u, m), t) <=> S + x <= t /\ t < S + x + R
      <3> HIDE DEF x
      <3> QED BY <1>0, <2>1, <2>2 DEF Lesser
    <2>4. ASSUME S + x <= t, t < S + x + R PROVE u = v
      <3> DEFINE e == t - S - x
      <3>1. e \in Nat /\ e < R /\ t - S \in Nat /\ t - S = x + e
        <4> HIDE DEF x
        <4> QED BY <1>0, <2>1, <2>4
      <3> HIDE DEF e
      <3>2. (t - S) \div R = u
        BY <1>0, <3>1, Block
      <3> QED BY <3>2 DEF v
    <2>5. ASSUME u = v PROVE S + x <= t /\ t < S + x + R
      <3>1. t - S = x + d
        BY <1>1, <1>2, <2>5
      <3> HIDE DEF x
      <3> QED BY <1>0, <1>1, <2>1, <3>1
    <2> QED BY <2>3, <2>4, <2>5
  <1>4. S + v * R <= t
    BY <1>0, <1>1, <1>2
  <1> QED BY <1>1, <1>3, <1>4 DEF S, R

(* Whatever its metrics, a query whose loop advances and does not wrap      *)
(* counts every trade of its range once under every metric asked for: the   *)
(* windows of one resolution leave no gap and do not overlap                *)
(* (server.cc:40-56, query_engine.cc:76-118).                               *)
THEOREM TradesCountedOnce == Spec => []CountedOnce
  <1> DEFINE asked == MetricList(query)
             per == Cardinality(asked)
  <1>1. TypeOK /\ CompleteInv => CountedOnce
    <2> SUFFICES ASSUME TypeOK, CompleteInv, pc = "done", Tame(query),
                        NEW t \in TimePoint, NEW m \in asked,
                        query.start_time_point <= t, t < query.end_time_point
                 PROVE  \E k \in 1..Len(out) : \A l \in 1..Len(out) :
                          out[l].metric = m /\ Counts(out[l], t) <=> l = k
      BY DEF CountedOnce
    <2>1. t \in TimePoint /\ t \in Nat
      BY DEF TimePoint
    <2>2. PICK v \in Nat :
            /\ query.start_time_point + v * query.resolution <= t
            /\ \A u \in Nat, n \in asked :
                 Counts(Entry(query, u, n), t) <=> u = v
      BY <2>1, OneEntryCounts
    <2>3. PICK w \in Nat : Progress(w)
      BY DEF CompleteInv
    <2>4. /\ asked \subseteq Nat /\ IsFiniteSet(asked) /\ per \in Nat
          /\ \A n \in asked : Below(asked, n) \in Nat /\ Below(asked, n) < per
      BY AskedFacts, BelowFacts, BelowAll
    <2>5. v < w
      <3> DEFINE R == query.resolution
                 S == query.start_time_point
      <3>1. R \in Nat /\ S \in Nat /\ query.end_time_point \in Nat
        BY QueryAssumption DEF TypeOK, QueryType, TimePoint
      <3>2. S + w * R >= query.end_time_point
        BY <2>3 DEF Progress
      <3>3. S + v * R <= t
        BY <2>2
      <3> HIDE DEF R, S
      <3>4. v * R < w * R /\ v * R \in Nat /\ w * R \in Nat
        BY <2>1, <3>1, <3>2, <3>3
      <3>5. v >= w => v * R >= w * R
        BY <3>1
      <3> QED BY <3>4, <3>5
    <2> DEFINE k == Position(asked, v, m)
    <2>6. k \in 1..Len(out)
      <3>1. Len(out) = w * per
        BY <2>3 DEF Progress
      <3> DEFINE b == Below(asked, m)
      <3>2. b \in Nat /\ b < per /\ k = v * per + b + 1
        BY <2>4 DEF Position
      <3> HIDE DEF per, b, k
      <3>3. v * per + per <= w * per /\ v * per \in Nat /\ w * per \in Nat
        <4>1. (v + 1) * per = v * per + per
          BY <2>4
        <4>2. (v + 1) * per <= w * per
          BY <2>4, <2>5
        <4> QED BY <2>4, <4>1, <4>2
      <3> QED BY <2>4, <3>1, <3>2, <3>3
    <2>7. ASSUME NEW l \in 1..Len(out)
          PROVE  out[l].metric = m /\ Counts(out[l], t) <=> l = k
      <3>1. PICK u \in Nat, n \in asked :
              l = Position(asked, u, n) /\ out[l] = Entry(query, u, n)
        BY DEF CompleteInv, Placed
      <3>2. out[l].metric = n /\ (Counts(out[l], t) <=> u = v)
        BY <2>2, <3>1 DEF Entry
      <3>3. ASSUME l = k PROVE u = v /\ n = m
        <4> DEFINE b == Below(asked, n)
                   c == Below(asked, m)
        <4>1. /\ b \in Nat /\ b < per /\ c \in Nat /\ c < per
              /\ u * per + b + 1 = v * per + c + 1
          BY <2>4, <3>1, <3>3 DEF Position
        <4> HIDE DEF b, c, per
        <4>2. /\ per \in Nat \ {0} /\ u * per \in Nat /\ v * per \in Nat
              /\ u * per + b \in Nat /\ u * per + b = v * per + c
          BY <2>4, <4>1
        <4>3. u = v /\ b = c
          <5>1. (u * per + b) \div per = u /\ (u * per + b) % per = b
            BY <4>1, <4>2, Block
          <5>2. (u * per + b) \div per = v /\ (u * per + b) % per = c
            BY <4>1, <4>2, Block
          <5> QED BY <5>1, <5>2
        <4>4. n = m
          BY <2>4, <4>3, BelowTells DEF b, c
        <4> QED BY <4>3, <4>4
      <3>4. u = v /\ n = m => l = k
        BY <3>1
      <3> QED BY <3>2, <3>3, <3>4
    <2> QED BY <2>6, <2>7
  <1> QED BY <1>1, TypeCorrect, CompleteInvHolds, PTL

-----------------------------------------------------------------------------
(* The bytes of the reply.                                                  *)

(* What the definition of FlattenSeq says up to the n-th sequence.          *)
Flattens(h, s, n) ==
  h = [k \in 1..n |-> IF k = 1 THEN s[k] ELSE h[k - 1] \o s[k]]

LEMMA LeastNumber ==
  ASSUME NEW T \in SUBSET Nat, T # {}
  PROVE  \E x \in T : \A y \in T : x <= y
  <1> DEFINE R == OpToRel(<, Nat)
  <1>1. IsWellFoundedOn(R, Nat)
    BY NatLessThanWellFounded
  <1> HIDE DEF R
  <1>2. \E x \in T : \A y \in T : <<y, x>> \notin R
    BY <1>1, WFMin
  <1>3. PICK x \in T : \A y \in T : <<y, x>> \notin R
    BY <1>2
  <1>4. \A y \in T : ~(y < x)
    BY <1>3 DEF R, OpToRel
  <1> QED BY <1>4

LEMMA FlattensExists == \A n \in Nat : \A s : \E h : Flattens(h, s, n)
  <1> SUFFICES ASSUME NEW s PROVE \A n \in Nat : \E h : Flattens(h, s, n)
    OBVIOUS
  <1> DEFINE T == {n \in Nat : ~\E h : Flattens(h, s, n)}
  <1>1. SUFFICES ASSUME T # {} PROVE FALSE
    OBVIOUS
  <1>2. PICK n \in T : \A m \in T : n <= m
    <2>1. T \in SUBSET Nat
      OBVIOUS
    <2> HIDE DEF T
    <2> QED BY <1>1, <2>1, LeastNumber
  <1>3. n \in Nat /\ ~\E h : Flattens(h, s, n)
    OBVIOUS
  <1>4. CASE n = 0
    <2>1. Flattens([k \in 1..0 |-> s[k]], s, 0)
      BY DEF Flattens
    <2> QED BY <1>3, <1>4, <2>1
  <1>5. CASE n # 0
    <2>1. PICK h : Flattens(h, s, n - 1)
      <3>1. n - 1 \in Nat /\ ~(n <= n - 1)
        BY <1>3, <1>5
      <3> QED BY <1>2, <3>1
    <2> DEFINE g == [k \in 1..n |-> IF k = n THEN IF n = 1 THEN s[n] ELSE h[n - 1] \o s[n]
                                    ELSE h[k]]
    <2>2. ASSUME NEW k \in 1..n
          PROVE  g[k] = IF k = 1 THEN s[k] ELSE g[k - 1] \o s[k]
      <3>1. CASE k = n
        BY <1>3, <1>5, <3>1
      <3>2. CASE k # n
        <4>1. k \in 1..(n - 1) /\ g[k] = h[k]
          BY <1>3, <3>2
        <4>2. h[k] = IF k = 1 THEN s[k] ELSE h[k - 1] \o s[k]
          BY <2>1, <4>1 DEF Flattens
        <4>3. k # 1 => g[k - 1] = h[k - 1]
          BY <1>3, <4>1
        <4> QED BY <4>1, <4>2, <4>3
      <3> QED BY <3>1, <3>2
    <2>3. g = [k \in 1..n |-> IF k = 1 THEN s[k] ELSE g[k - 1] \o s[k]]
      BY <2>2
    <2> HIDE DEF g
    <2> QED BY <1>3, <2>3 DEF Flattens
  <1> QED BY <1>4, <1>5

LEMMA FlattensAgree ==
  ASSUME NEW n \in Nat, NEW m \in Nat, n <= m, NEW s, NEW t,
         \A k \in 1..n : t[k] = s[k],
         NEW h, Flattens(h, s, n), NEW g, Flattens(g, t, m)
  PROVE  \A k \in 1..n : h[k] = g[k]
  <1> DEFINE T == {k \in 1..n : h[k] # g[k]}
  <1>1. SUFFICES ASSUME T # {} PROVE FALSE
    OBVIOUS
  <1>2. PICK k \in T : \A l \in T : k <= l
    <2>1. T \in SUBSET Nat
      OBVIOUS
    <2> HIDE DEF T
    <2> QED BY <1>1, <2>1, LeastNumber
  <1>3. k \in 1..n /\ k \in 1..m /\ h[k] # g[k]
    OBVIOUS
  <1>4. k # 1
    BY <1>3 DEF Flattens
  <1>5. h[k] = h[k - 1] \o s[k] /\ g[k] = g[k - 1] \o t[k]
    BY <1>3, <1>4 DEF Flattens
  <1>6. h[k - 1] = g[k - 1]
    <2>1. k - 1 \in 1..n /\ ~(k <= k - 1)
      BY <1>3, <1>4
    <2> QED BY <1>2, <2>1
  <1> QED BY <1>3, <1>5, <1>6

(* One more sequence at the end.                                            *)
LEMMA FlattenAppend ==
  ASSUME NEW s, NEW t, NEW n \in Nat, Len(s) = n, Len(t) = n + 1,
         \A k \in 1..n : t[k] = s[k]
  PROVE  FlattenSeq(t) = IF n = 0 THEN t[1] ELSE FlattenSeq(s) \o t[n + 1]
  <1> DEFINE H(x, m) == CHOOSE h : Flattens(h, x, m)
  <1>1. \A x : \A m \in Nat : Flattens(H(x, m), x, m)
    BY FlattensExists
  <1>2. FlattenSeq(t) = H(t, n + 1)[n + 1]
    BY DEF FlattenSeq, Flattens
  <1>3. n # 0 => FlattenSeq(s) = H(s, n)[n]
    BY DEF FlattenSeq, Flattens
  <1> HIDE DEF H
  <1>4. Flattens(H(t, n + 1), t, n + 1) /\ Flattens(H(s, n), s, n)
    BY <1>1
  <1>5. CASE n = 0
    BY <1>2, <1>4, <1>5 DEF Flattens
  <1>6. CASE n # 0
    <2>1. H(t, n + 1)[n + 1] = H(t, n + 1)[n] \o t[n + 1]
      <3>1. \A k \in 1..(n + 1) : H(t, n + 1)[k] =
              IF k = 1 THEN t[k] ELSE H(t, n + 1)[k - 1] \o t[k]
        BY <1>4 DEF Flattens
      <3>2. n + 1 \in 1..(n + 1) /\ n + 1 # 1 /\ (n + 1) - 1 = n
        BY <1>6
      <3> QED BY <3>1, <3>2
    <2>2. H(s, n)[n] = H(t, n + 1)[n]
      <3>1. n \in 1..n /\ n <= n + 1 /\ n + 1 \in Nat
        BY <1>6
      <3> QED BY <1>4, <3>1, FlattensAgree
    <2> QED BY <1>2, <1>3, <1>6, <2>1, <2>2
  <1> QED BY <1>5, <1>6

(* The fields of one result.                                                *)
Fields(r) == [f \in 1..Len(FieldsOf(r.metric)) |->
                Field(r.from, r.to, FieldsOf(r.metric)[f])]

LEMMA FieldsOfType ==
  /\ Len(FieldsOf(0)) = 2 /\ Len(FieldsOf(1)) = 1 /\ Len(FieldsOf(2)) = 1
  /\ \A m \in 0..2 : Len(FieldsOf(m)) \in 1..2
  BY DEF FieldsOf

(* The bytes of one more result follow those of the ones before.            *)
LEMMA EncodeAppend ==
  ASSUME NEW results \in Seq(Result), NEW r \in Result
  PROVE  /\ Encode(<<>>) = <<>>
         /\ Encode(Append(results, r)) =
              IF results = <<>> THEN Fields(r) ELSE Encode(results) \o Fields(r)
  <1> DEFINE parts(x) == [k \in 1..Len(x) |-> Fields(x[k])]
             n == Len(results)
             longer == Append(results, r)
  <1>1. \A x : Encode(x) = FlattenSeq(parts(x))
    BY DEF Encode, Fields
  <1>2. /\ n \in Nat /\ Len(longer) = n + 1 /\ longer[n + 1] = r
        /\ \A k \in 1..n : longer[k] = results[k]
        /\ n = 0 <=> results = <<>>
    OBVIOUS
  <1>3. Encode(<<>>) = <<>>
    <2>1. parts(<<>>) = <<>>
      OBVIOUS
    <2> QED BY <1>1, <2>1 DEF FlattenSeq
  <1>4. /\ Len(parts(results)) = n /\ Len(parts(longer)) = n + 1
        /\ \A k \in 1..n : parts(longer)[k] = parts(results)[k]
        /\ parts(longer)[n + 1] = Fields(r)
    BY <1>2
  <1> DEFINE s == parts(results)
             t == parts(longer)
  <1>5. /\ Encode(results) = FlattenSeq(s) /\ Encode(longer) = FlattenSeq(t)
        /\ n \in Nat /\ Len(s) = n /\ Len(t) = n + 1
        /\ \A k \in 1..n : t[k] = s[k]
        /\ t[n + 1] = Fields(r) /\ (n = 0 <=> results = <<>>)
    BY <1>1, <1>2, <1>4
  <1> HIDE DEF parts, longer, n, s, t
  <1>6. Encode(longer) = IF results = <<>> THEN Fields(r) ELSE Encode(results) \o Fields(r)
    <2>1. FlattenSeq(t) = IF n = 0 THEN t[1] ELSE FlattenSeq(s) \o t[n + 1]
      BY ONLY <1>5, FlattenAppend
    <2>2. n = 0 => t[1] = t[n + 1]
      OBVIOUS
    <2> QED BY ONLY <1>5, <2>1, <2>2
  <1> QED BY <1>3, <1>6 DEF longer

(* How many fields come before those of a metric.                           *)
LEMMA IndexNext ==
  ASSUME NEW asked, asked \subseteq 0..2, NEW n \in 0..2, NEW k, k = n + 1
  PROVE  /\ Index(asked, n) \in Nat
         /\ n \notin asked => Index(asked, k) = Index(asked, n)
         /\ n \in asked => Index(asked, k) = Index(asked, n) + Len(FieldsOf(n))
  <1> DEFINE B == {mf \in NamesOf(asked) : mf[1] < n}
             C == {mf \in NamesOf(asked) : mf[1] < n + 1}
             N == {<<n, f>> : f \in 1..Len(FieldsOf(n))}
  <1>1. \A mf : mf \in NamesOf(asked) <=>
                  \E m \in asked : \E f \in 1..Len(FieldsOf(m)) : mf = <<m, f>>
    BY DEF NamesOf
  <1>2. \A m \in asked : m < n + 1 <=> m < n \/ m = n
    <2> SUFFICES ASSUME NEW m \in asked PROVE m < n + 1 <=> m < n \/ m = n
      OBVIOUS
    <2>1. m \in 0..2
      OBVIOUS
    <2> QED BY <2>1
  <1>3. ~(n < n)
    OBVIOUS
  <1>4. n \notin asked => C = B
    BY <1>1, <1>2
  <1>5. n \in asked => C = B \cup N
    BY <1>1, <1>2
  <1>6. \A f : <<n, f>> \notin B
    BY <1>3
  <1>7. IsFiniteSet(B)
    <2>1. B \subseteq (0..2) \X (1..2)
      <3>1. ASSUME NEW m \in asked, NEW f \in 1..Len(FieldsOf(m))
            PROVE  m \in 0..2 /\ f \in 1..2
        <4>1. m \in 0..2
          OBVIOUS
        <4> DEFINE l == Len(FieldsOf(m))
        <4>2. l \in 1..2 /\ f \in 1..l
          BY <4>1, FieldsOfType
        <4> HIDE DEF l
        <4> QED BY ONLY <4>1, <4>2
      <3> QED BY <1>1, <3>1
    <2>2. IsFiniteSet((0..2) \X (1..2))
      <3>1. 0 \in Int /\ 1 \in Int /\ 2 \in Int
        OBVIOUS
      <3>2. IsFiniteSet(0..2) /\ IsFiniteSet(1..2)
        BY ONLY <3>1, FS_Interval
      <3> QED BY ONLY <3>2, FS_Product
    <2> QED BY ONLY <2>1, <2>2, FS_Subset
  <1>8. N = IF n = 0 THEN {<<n, 1>>, <<n, 2>>} ELSE {<<n, 1>>}
    <2>1. Len(FieldsOf(n)) = IF n = 0 THEN 2 ELSE 1
      BY FieldsOfType
    <2>2. 1..2 = {1, 2} /\ 1..1 = {1}
      OBVIOUS
    <2>3. CASE n = 0
      <3>1. N = {<<n, f>> : f \in {1, 2}}
        BY <2>1, <2>2, <2>3
      <3> QED BY <2>3, <3>1
    <2>4. CASE n # 0
      <3>1. N = {<<n, f>> : f \in {1}}
        BY <2>1, <2>2, <2>4
      <3> QED BY <2>4, <3>1
    <2> QED BY <2>3, <2>4
  <1> HIDE DEF B, C, N
  <1>9. Cardinality(B) \in Nat
    BY <1>7, FS_CardinalityType
  <1>10. Cardinality(B \cup N) = Cardinality(B) + Len(FieldsOf(n))
    <2> DEFINE D == B \cup {<<n, 1>>}
    <2>1. IsFiniteSet(D) /\ Cardinality(D) = Cardinality(B) + 1
      BY <1>6, <1>7, FS_AddElement
    <2>2. CASE n = 0
      <3>1. <<n, 2>> \notin D /\ B \cup N = D \cup {<<n, 2>>}
        BY <1>6, <1>8, <2>2
      <3> HIDE DEF D
      <3>2. Cardinality(D \cup {<<n, 2>>}) = Cardinality(D) + 1
        BY <2>1, <3>1, FS_AddElement
      <3>3. Len(FieldsOf(n)) = 2
        BY <2>2, FieldsOfType
      <3>4. Cardinality(B \cup N) = Cardinality(B) + 2
        BY <1>9, <2>1, <3>1, <3>2
      <3> QED BY <3>3, <3>4
    <2>3. CASE n # 0
      <3>1. B \cup N = D /\ Len(FieldsOf(n)) = 1
        BY <1>8, <2>3, FieldsOfType
      <3> QED BY <2>1, <3>1
    <2> QED BY <2>2, <2>3
  <1> QED BY <1>4, <1>5, <1>9, <1>10 DEF Index, B, C

(* How many fields a window has.                                            *)
Width(asked) == Index(asked, ListBits)

LEMMA IndexEnds ==
  ASSUME NEW asked, asked \subseteq 0..2
  PROVE  Index(asked, 0) = 0 /\ \A n \in 3..ListBits : Index(asked, n) = Width(asked)
  <1>1. \A mf \in NamesOf(asked) : mf[1] \in 0..2
    BY DEF NamesOf
  <1>2. {mf \in NamesOf(asked) : mf[1] < 0} = {}
    BY <1>1
  <1>3. ASSUME NEW n \in 3..ListBits
        PROVE  {mf \in NamesOf(asked) : mf[1] < n}
                 = {mf \in NamesOf(asked) : mf[1] < ListBits}
    BY <1>1 DEF ListBits
  <1>4. Index(asked, 0) = 0
    BY <1>2, FS_EmptySet DEF Index
  <1>5. \A n \in 3..ListBits : Index(asked, n) = Width(asked)
    BY <1>3 DEF Index, Width
  <1> QED BY <1>4, <1>5

LEMMA WidthFacts ==
  ASSUME NEW asked, asked \subseteq 0..2
  PROVE  /\ Width(asked) \in Nat /\ Width(asked) <= 4
         /\ asked # {} => Width(asked) >= 1
         /\ asked = Metrics => Width(asked) = 4
         /\ \A n \in 0..ListBits : Index(asked, n) \in Nat
  <1>1. /\ Index(asked, 0) = 0 /\ Width(asked) = Index(asked, 3)
        /\ \A n \in 3..ListBits : Index(asked, n) = Width(asked)
    <2>1. 3 \in 3..ListBits
      BY DEF ListBits
    <2> QED BY <2>1, IndexEnds
  <1>2. /\ 0 \notin asked => Index(asked, 1) = 0
        /\ 0 \in asked => Index(asked, 1) = 2
    <2>1. 0 \in 0..2 /\ 1 = 0 + 1 /\ Len(FieldsOf(0)) = 2
      BY FieldsOfType
    <2>2. /\ 0 \notin asked => Index(asked, 1) = Index(asked, 0)
          /\ 0 \in asked => Index(asked, 1) = Index(asked, 0) + Len(FieldsOf(0))
      BY <2>1, IndexNext, Zenon
    <2> QED BY <1>1, <2>1, <2>2
  <1>3. /\ 1 \notin asked => Index(asked, 2) = Index(asked, 1)
        /\ 1 \in asked => Index(asked, 2) = Index(asked, 1) + 1
    <2>1. 1 \in 0..2 /\ 2 = 1 + 1 /\ Len(FieldsOf(1)) = 1
      BY FieldsOfType
    <2>2. /\ 1 \notin asked => Index(asked, 2) = Index(asked, 1)
          /\ 1 \in asked => Index(asked, 2) = Index(asked, 1) + Len(FieldsOf(1))
      BY <2>1, IndexNext, Zenon
    <2> QED BY <2>1, <2>2
  <1>4. /\ 2 \notin asked => Index(asked, 3) = Index(asked, 2)
        /\ 2 \in asked => Index(asked, 3) = Index(asked, 2) + 1
    <2>1. 2 \in 0..2 /\ 3 = 2 + 1 /\ Len(FieldsOf(2)) = 1
      BY FieldsOfType
    <2>2. /\ 2 \notin asked => Index(asked, 3) = Index(asked, 2)
          /\ 2 \in asked => Index(asked, 3) = Index(asked, 2) + Len(FieldsOf(2))
      BY <2>1, IndexNext, Zenon
    <2> QED BY <2>1, <2>2
  <1>5. asked # {} => 0 \in asked \/ 1 \in asked \/ 2 \in asked
    <2>1. \A m \in 0..2 : m = 0 \/ m = 1 \/ m = 2
      OBVIOUS
    <2> QED BY <2>1
  <1>6. asked = Metrics => 0 \in asked /\ 1 \in asked /\ 2 \in asked
    BY DEF Metrics
  <1>7. \A n \in 0..ListBits : n = 0 \/ n = 1 \/ n = 2 \/ n \in 3..ListBits
    BY DEF ListBits
  <1> QED BY <1>1, <1>2, <1>3, <1>4, <1>5, <1>6, <1>7

(* What is sent for a result.                                               *)
Cell == [from : TimePoint, to : TimePoint, name : {"min", "max", "mean", "total"}]

LEMMA FieldsType ==
  ASSUME NEW r \in Result
  PROVE  Fields(r) \in Seq(Cell) /\ Len(Fields(r)) = Len(FieldsOf(r.metric))
  <1> DEFINE l == Len(FieldsOf(r.metric))
  <1>1. r.metric \in 0..2 /\ r.from \in TimePoint /\ r.to \in TimePoint
    BY DEF Result, Metrics
  <1>2. l \in 1..2
    BY <1>1, FieldsOfType
  <1>3. \A f \in 1..l : FieldsOf(r.metric)[f] \in {"min", "max", "mean", "total"}
    <2>1. CASE r.metric = 0
      BY <2>1 DEF FieldsOf
    <2>2. CASE r.metric = 1
      BY <2>2 DEF FieldsOf
    <2>3. CASE r.metric = 2
      BY <2>3 DEF FieldsOf
    <2> QED BY <1>1, <2>1, <2>2, <2>3
  <1>4. \A f \in 1..l : Field(r.from, r.to, FieldsOf(r.metric)[f]) \in Cell
    BY <1>1, <1>3 DEF Field, Cell
  <1>5. Fields(r) = [f \in 1..l |-> Field(r.from, r.to, FieldsOf(r.metric)[f])]
    BY DEF Fields
  <1> HIDE DEF l
  <1>6. l \in Nat /\ Fields(r) \in [1..l -> Cell]
    BY <1>2, <1>4, <1>5
  <1>7. Fields(r) \in Seq(Cell) /\ Len(Fields(r)) = l
    BY ONLY <1>6
  <1> QED BY <1>7 DEF l

LEMMA EncodeFollows ==
  ASSUME NEW results \in Seq(Result), NEW r \in Result, Encode(results) \in Seq(Cell)
  PROVE  /\ Encode(Append(results, r)) = Encode(results) \o Fields(r)
         /\ Encode(Append(results, r)) \in Seq(Cell)
  <1>1. Fields(r) \in Seq(Cell)
    BY FieldsType
  <1>2. <<>> \o Fields(r) = Fields(r)
    BY <1>1
  <1>3. Encode(Append(results, r)) = Encode(results) \o Fields(r)
    BY <1>2, EncodeAppend
  <1> QED BY <1>1, <1>3

LEMMA IndexStep ==
  ASSUME NEW asked, asked \subseteq 0..2, NEW n \in 0..(ListBits - 1)
  PROVE  /\ n \notin asked => Index(asked, n + 1) = Index(asked, n)
         /\ n \in asked => Index(asked, n + 1) = Index(asked, n) + Len(FieldsOf(n))
  <1>1. CASE n \in 0..2
    <2> DEFINE k == n + 1
    <2>1. k = n + 1
      OBVIOUS
    <2> HIDE DEF k
    <2>2. /\ n \notin asked => Index(asked, k) = Index(asked, n)
          /\ n \in asked => Index(asked, k) = Index(asked, n) + Len(FieldsOf(n))
      BY <1>1, <2>1, IndexNext
    <2> QED BY <2>1, <2>2
  <1>2. CASE n \notin 0..2
    <2>1. n \in 3..ListBits /\ n + 1 \in 3..ListBits
      BY <1>2 DEF ListBits
    <2>2. Index(asked, n + 1) = Width(asked) /\ Index(asked, n) = Width(asked)
      BY <2>1, IndexEnds
    <2>3. n \notin asked
      BY <1>2
    <2> QED BY <2>2, <2>3
  <1> QED BY <1>1, <1>2

(* The v-th window of the query, and its fields of metric m where the       *)
(* client looks for them when every set has Width fields.                   *)
WindowFrom(v) == query.start_time_point + v * query.resolution
WindowTo(v) == Lesser(WindowFrom(v) + query.resolution, query.end_time_point)
Place(v, m, f) == v * Width(MetricList(query)) + Index(MetricList(query), m) + f
LaidOut(v, m) ==
  \A f \in 1..Len(FieldsOf(m)) :
    /\ Place(v, m, f) \in 1..Len(Encode(out))
    /\ Encode(out)[Place(v, m, f)] =
         Field(WindowFrom(v), WindowTo(v), FieldsOf(m)[f])

(* After w whole windows, and while the next one is computed.               *)
Layout(w) ==
  LET asked == MetricList(query)
      whole == w * Width(asked)
      sent == Len(Encode(out))
  IN  /\ start_time = WindowFrom(w)
      /\ \A v \in 0..(w - 1) : \A m \in asked : LaidOut(v, m)
      /\ pc \in {"window", "done"} => sent = whole
      /\ pc = "interval" =>
           IF agg_start = start_time THEN sent = whole
           ELSE sent = whole + Width(asked) /\ \A m \in asked : LaidOut(w, m)
      /\ pc = "metric" => /\ sent = whole + Index(asked, i)
                          /\ \A m \in asked : m < i => LaidOut(w, m)

LayoutInv == Tame(query) => Encode(out) \in Seq(Cell) /\ \E w \in Nat : Layout(w)

(* What is laid out stays when more is appended.                            *)
LEMMA LaidOutStays ==
  ASSUME NEW more \in Seq(Cell), Encode(out) \in Seq(Cell),
         Encode(out') = Encode(out) \o more, query' = query,
         NEW v \in Nat, NEW m, LaidOut(v, m)
  PROVE  LaidOut(v, m)'
  <1> DEFINE e == Encode(out)
             d == Encode(out')
  <1>1. /\ Len(d) = Len(e) + Len(more) /\ Len(e) \in Nat /\ Len(more) \in Nat
        /\ \A p \in 1..Len(e) : p \in 1..Len(d) /\ d[p] = e[p]
    <2>1. e \in Seq(Cell) /\ d = e \o more
      OBVIOUS
    <2> HIDE DEF e, d
    <2> QED BY <2>1
  <1>2. \A f : Place(v, m, f)' = Place(v, m, f)
    BY DEF Place
  <1>3. WindowFrom(v)' = WindowFrom(v) /\ WindowTo(v)' = WindowTo(v)
    BY DEF WindowFrom, WindowTo
  <1>4. Encode(out)' = d
    BY DEF Encode
  <1>5. ASSUME NEW f \in 1..Len(FieldsOf(m))
        PROVE  /\ Place(v, m, f) \in 1..Len(d)
               /\ d[Place(v, m, f)] = Field(WindowFrom(v), WindowTo(v), FieldsOf(m)[f])
    <2>1. /\ Place(v, m, f) \in 1..Len(e)
          /\ e[Place(v, m, f)] = Field(WindowFrom(v), WindowTo(v), FieldsOf(m)[f])
      BY DEF LaidOut
    <2> HIDE DEF e, d
    <2> QED BY <1>1, <2>1
  <1> HIDE DEF d
  <1> QED BY <1>2, <1>3, <1>4, <1>5 DEF LaidOut

(* A step that appends nothing.                                             *)
LEMMA LaidOutSame ==
  ASSUME UNCHANGED <<query, out>>
  PROVE  /\ Encode(out)' = Encode(out)
         /\ \A v, m : LaidOut(v, m)' <=> LaidOut(v, m)
         /\ \A v : WindowFrom(v)' = WindowFrom(v)
  <1>1. Encode(out)' = Encode(out)
    BY DEF Encode
  <1>2. \A v, m, f : Place(v, m, f)' = Place(v, m, f)
    BY DEF Place
  <1>3. \A v : WindowFrom(v)' = WindowFrom(v) /\ WindowTo(v)' = WindowTo(v)
    BY DEF WindowFrom, WindowTo
  <1> QED BY <1>1, <1>2, <1>3 DEF LaidOut

LEMMA LayoutInvMetric ==
  ASSUME TypeOK, LoopInv, LayoutInv, Tame(query), Metric
  PROVE  LayoutInv'
  <1> DEFINE asked == MetricList(query)
             whole(w) == w * Width(asked)
  <1>0. /\ query' = query /\ pc' = pc /\ pc = "metric" /\ start_time' = start_time
        /\ i' = i + 1 /\ i \in 0..(ListBits - 1)
    BY DEF Metric, TypeOK, ListBits
  <1>1. PICK w \in Nat : Layout(w)
    BY DEF LayoutInv
  <1>2. asked \subseteq 0..2
    BY AskedFacts
  <1>3. /\ start_time = WindowFrom(w)
        /\ \A v \in 0..(w - 1) : \A m \in asked : LaidOut(v, m)
        /\ Len(Encode(out)) = w * Width(asked) + Index(asked, i)
        /\ \A m \in asked : m < i => LaidOut(w, m)
    BY <1>0, <1>1 DEF Layout
  <1>4. Encode(out) \in Seq(Cell)
    BY DEF LayoutInv
  <1>5. start_time' = WindowFrom(w)'
    BY <1>0, <1>3 DEF WindowFrom
  <1>6. w * Width(asked) \in Nat /\ Index(asked, i) \in Nat
    <2>1. Width(asked) \in Nat /\ Index(asked, i) \in Nat
      BY <1>0, <1>2, WidthFacts DEF ListBits
    <2> HIDE DEF asked
    <2> QED BY <2>1
  <1>7. CASE i \notin asked
    <2>1. UNCHANGED <<query, out>> /\ Index(asked, i + 1) = Index(asked, i)
      BY <1>0, <1>2, <1>7, IndexStep DEF Metric
    <2>2. Encode(out)' = Encode(out) /\ \A v, m : LaidOut(v, m)' <=> LaidOut(v, m)
      BY <2>1, LaidOutSame
    <2>3. \A m \in asked : m < i + 1 => m < i
      <3>1. \A m \in asked : m \in Int /\ m # i
        BY <1>2, <1>7
      <3> QED BY <1>0, <3>1
    <2>4. Layout(w)'
      BY <1>0, <1>3, <1>5, <2>1, <2>2, <2>3 DEF Layout
    <2> QED BY <1>4, <2>2, <2>4 DEF LayoutInv
  <1>8. CASE i \in asked
    <2> DEFINE r == [from |-> agg_start, to |-> agg_end, metric |-> i]
    <2>1. out' = Append(out, r) /\ r \in Result /\ out \in Seq(Result)
      BY <1>2, <1>8 DEF Metric, Result, TypeOK, Metrics
    <2>2. r.from = WindowFrom(w) /\ r.to = WindowTo(w) /\ r.metric = i
      <3>1. agg_start = start_time
            /\ agg_end = Lesser(start_time + query.resolution, query.end_time_point)
        BY <1>0, TameWindow DEF LoopInv
      <3> QED BY <1>3, <3>1 DEF WindowTo
    <2> HIDE DEF r
    <2>3. /\ Encode(out') = Encode(out) \o Fields(r) /\ Encode(out') \in Seq(Cell)
          /\ Fields(r) \in Seq(Cell) /\ Len(Fields(r)) = Len(FieldsOf(i))
      BY <1>4, <2>1, <2>2, EncodeFollows, FieldsType
    <2>4. Encode(out)' = Encode(out')
      BY DEF Encode
    <2>5. ASSUME NEW v \in Nat, NEW m \in asked, LaidOut(v, m)
          PROVE  LaidOut(v, m)'
      <3>1. PICK more \in Seq(Cell) : Encode(out') = Encode(out) \o more
        BY <2>3
      <3> QED BY <1>0, <1>4, <2>5, <3>1, LaidOutStays
    <2>6. Len(Encode(out')) = Len(Encode(out)) + Len(FieldsOf(i))
          /\ Len(Encode(out)) \in Nat /\ Len(FieldsOf(i)) \in Nat
      <3> DEFINE s == Fields(r)
                 e == Encode(out)
                 d == Encode(out')
      <3>1. s \in Seq(Cell) /\ e \in Seq(Cell) /\ d = e \o s
        BY <1>4, <2>3
      <3>0. Len(s) = Len(FieldsOf(i))
        BY <2>3
      <3> HIDE DEF s, e, d
      <3>2. Len(d) = Len(e) + Len(s) /\ Len(e) \in Nat /\ Len(s) \in Nat
        BY ONLY <3>1
      <3> QED BY <3>0, <3>2 DEF s, e, d
    <2>7. Len(Encode(out')) = w * Width(asked) + Index(asked, i + 1)
      <3>1. Index(asked, i + 1) = Index(asked, i) + Len(FieldsOf(i))
        BY <1>0, <1>2, <1>8, IndexStep
      <3> HIDE DEF asked
      <3> QED BY <1>3, <1>6, <2>6, <3>1
    <2>8. ASSUME NEW m \in asked, m = i PROVE LaidOut(w, m)'
      <3>1. \A f : /\ Place(w, m, f) = w * Width(asked) + Index(asked, m) + f
                  /\ Place(w, m, f)' = Place(w, m, f)
        BY <1>0 DEF Place
      <3>2. ASSUME NEW f \in 1..Len(FieldsOf(m))
            PROVE  /\ Place(w, m, f) \in 1..Len(Encode(out'))
                   /\ Encode(out')[Place(w, m, f)] =
                        Field(WindowFrom(w), WindowTo(w), FieldsOf(m)[f])
        <4>1. Fields(r)[f] = Field(WindowFrom(w), WindowTo(w), FieldsOf(m)[f])
          BY <2>2, <2>8 DEF Fields
        <4> DEFINE s == Fields(r)
                   e == Encode(out)
                   d == Encode(out')
                   p == Place(w, m, f)
                   l == Len(FieldsOf(m))
        <4>2. /\ s \in Seq(Cell) /\ e \in Seq(Cell) /\ d = e \o s /\ Len(s) = l
              /\ p = Len(e) + f /\ f \in 1..l
          BY <1>3, <1>4, <2>3, <2>8, <3>1
        <4> HIDE DEF s, e, d, p, l
        <4>3. p \in 1..Len(d) /\ d[p] = s[f]
          BY ONLY <4>2
        <4> QED BY <4>1, <4>3 DEF s, d, p
      <3>3. WindowFrom(w)' = WindowFrom(w) /\ WindowTo(w)' = WindowTo(w)
        BY <1>0 DEF WindowFrom, WindowTo
      <3> QED BY <2>4, <3>1, <3>2, <3>3 DEF LaidOut
    <2>9. \A m \in asked : m < i + 1 => m < i \/ m = i
      <3>1. \A m \in asked : m \in Int
        BY <1>2
      <3> QED BY <1>0, <3>1
    <2>10. \A m \in asked : m < i + 1 => LaidOut(w, m)'
      BY <1>3, <2>5, <2>8, <2>9
    <2>11. \A v \in 0..(w - 1) : \A m \in asked : LaidOut(v, m)'
      BY <1>3, <2>5
    <2>12. Layout(w)'
      BY <1>0, <1>5, <2>4, <2>7, <2>10, <2>11 DEF Layout
    <2> QED BY <2>3, <2>4, <2>12 DEF LayoutInv
  <1> QED BY <1>7, <1>8

LEMMA LayoutInvNext == TypeOK /\ LoopInv /\ LayoutInv /\ [Next]_vars => LayoutInv'
  <1> SUFFICES ASSUME TypeOK, LoopInv, LayoutInv, [Next]_vars, Tame(query)
               PROVE  LayoutInv'
    BY DEF LayoutInv, Next, Compute, NextWindow, NextInterval, Metric,
       MetricsDone, IntervalDone, PushResult, vars
  <1> DEFINE asked == MetricList(query)
             sent == Len(Encode(out))
  <1>0. /\ start_time \in Nat /\ agg_start \in Nat /\ interval_end \in Nat
        /\ query.resolution \in Nat /\ query.start_time_point \in Nat
        /\ query.resolution > 0
    BY QueryAssumption DEF TypeOK, QueryType, TimePoint, Tame
  <1>1. PICK w \in Nat : Layout(w)
    BY DEF LayoutInv
  <1>2. asked \subseteq 0..2 /\ Width(asked) \in Nat /\ Index(asked, 0) = 0
        /\ Index(asked, ListBits) = Width(asked)
    BY AskedFacts, WidthFacts, IndexEnds DEF Width
  <1>3. w * Width(asked) \in Nat
    BY <1>2
  <1>4. start_time = WindowFrom(w)
        /\ \A v \in 0..(w - 1) : \A m \in asked : LaidOut(v, m)
    BY <1>1 DEF Layout
  <1>s. ASSUME UNCHANGED <<query, out>>
        PROVE  /\ Encode(out)' = Encode(out) /\ MetricList(query)' = MetricList(query)
               /\ \A v, m : LaidOut(v, m)' <=> LaidOut(v, m)
               /\ \A v : WindowFrom(v)' = WindowFrom(v)
    BY <1>s, LaidOutSame
  <1>f. ASSUME NEW v \in Nat, Layout(v)', UNCHANGED <<query, out>>
        PROVE  LayoutInv'
    BY <1>f, <1>s DEF LayoutInv
  <1>5. CASE NextWindow
    <2>1. UNCHANGED <<query, out, start_time>> /\ agg_start' = start_time
          /\ pc = "window" /\ pc' = "interval"
      BY <1>5 DEF NextWindow
    <2>2. Layout(w)'
      BY <1>1, <1>4, <1>s, <2>1 DEF Layout
    <2> QED BY <1>f, <2>1, <2>2
  <1>6. CASE NextInterval
    <2>1. UNCHANGED <<query, out, start_time>> /\ i' = 0
          /\ pc = "interval" /\ pc' = "metric"
      BY <1>6 DEF NextInterval
    <2>2. agg_start = start_time
      BY <1>0, <1>6 DEF NextInterval, LoopInv
    <2>3. sent = w * Width(asked) + Index(asked, 0)
      <3>1. sent = w * Width(asked)
        BY <1>1, <2>1, <2>2 DEF Layout
      <3> QED BY <1>2, <1>3, <3>1
    <2>4. \A m \in asked : ~(m < 0)
      BY <1>2
    <2>5. Layout(w)'
      BY <1>4, <1>s, <2>1, <2>3, <2>4 DEF Layout
    <2> QED BY <1>f, <2>1, <2>5
  <1>7. CASE Metric
    BY <1>7, LayoutInvMetric
  <1>8. CASE MetricsDone
    <2>1. UNCHANGED <<query, out, start_time>> /\ i = ListBits
          /\ pc = "metric" /\ pc' = "interval"
      BY <1>8 DEF MetricsDone
    <2>2. agg_start = start_time /\ agg_start' = start_time + query.resolution
      BY <1>8, TameWindow DEF MetricsDone, LoopInv
    <2>3. agg_start' # start_time
      BY <1>0, <2>2
    <2>4. \A m \in asked : m < ListBits
      BY <1>2 DEF ListBits
    <2>5. sent = w * Width(asked) + Width(asked) /\ \A m \in asked : LaidOut(w, m)
      BY <1>1, <1>2, <2>1, <2>4 DEF Layout
    <2>6. Layout(w)'
      BY <1>4, <1>s, <2>1, <2>3, <2>5 DEF Layout
    <2> QED BY <1>f, <2>1, <2>6
  <1>9. CASE IntervalDone
    <2>1. UNCHANGED <<query, out>> /\ pc = "interval" /\ pc' = "window"
      BY <1>9 DEF IntervalDone
    <2>2. start_time' = start_time + query.resolution /\ agg_start # start_time
      BY <1>0, <1>9, TameWindow DEF IntervalDone
    <2>3. sent = w * Width(asked) + Width(asked) /\ \A m \in asked : LaidOut(w, m)
      BY <1>1, <2>1, <2>2 DEF Layout
    <2> DEFINE u == w + 1
    <2>4. u \in Nat /\ u * Width(asked) = w * Width(asked) + Width(asked)
          /\ u * query.resolution = w * query.resolution + query.resolution
      <3>1. Width(asked) \in Nat /\ query.resolution \in Nat
        BY <1>0, <1>2
      <3>2. u * Width(asked) = w * Width(asked) + Width(asked)
        BY ONLY <3>1, NextMultiple, Zenon
      <3>3. u * query.resolution = w * query.resolution + query.resolution
        BY ONLY <3>1, NextMultiple, Zenon
      <3> QED BY <3>2, <3>3
    <2>5. \A v \in 0..(u - 1) : v \in 0..(w - 1) \/ v = w
      OBVIOUS
    <2> HIDE DEF u
    <2>6. \A v \in 0..(u - 1) : \A m \in asked : LaidOut(v, m)
      BY <1>4, <2>3, <2>5
    <2>7. start_time' = WindowFrom(u)
      <3>1. start_time = query.start_time_point + w * query.resolution
            /\ w * query.resolution \in Nat
        BY <1>0, <1>4 DEF WindowFrom
      <3> QED BY <1>0, <2>2, <2>4, <3>1 DEF WindowFrom
    <2>8. Layout(u)'
      BY <1>s, <2>1, <2>3, <2>4, <2>6, <2>7 DEF Layout
    <2> QED BY <1>f, <2>1, <2>4, <2>8
  <1>10. CASE PushResult
    <2>1. UNCHANGED <<query, out, start_time>> /\ pc = "window" /\ pc' = "done"
      BY <1>10 DEF PushResult
    <2>2. Layout(w)'
      BY <1>1, <1>4, <1>s, <2>1 DEF Layout
    <2> QED BY <1>f, <2>1, <2>2
  <1>11. CASE UNCHANGED vars
    <2>1. UNCHANGED <<query, pc, start_time, agg_start, i, out>>
      BY <1>11 DEF vars
    <2>2. Layout(w)'
      BY <1>1, <1>s, <2>1 DEF Layout
    <2> QED BY <1>f, <2>1, <2>2
  <1> QED BY <1>5, <1>6, <1>7, <1>8, <1>9, <1>10, <1>11 DEF Next, Compute

LEMMA LayoutInvHolds == Spec => []LayoutInv
  <1>1. Init => LayoutInv
    <2> SUFFICES ASSUME Init PROVE Encode(out) \in Seq(Cell) /\ Layout(0)
      BY DEF LayoutInv
    <2>1. Encode(out) = <<>>
      <3>1. [from |-> 0, to |-> 0, metric |-> 0] \in Result
        BY QueryAssumption DEF Result, Metrics, TimePoint
      <3>2. <<>> \in Seq(Result)
        OBVIOUS
      <3>3. Encode(<<>>) = <<>>
        BY <3>1, <3>2, EncodeAppend
      <3> QED BY <3>3 DEF Init
    <2>2. query.resolution \in Nat /\ query.start_time_point \in Nat
      BY QueryAssumption DEF Init, QueryType, TimePoint
    <2>3. Width(MetricList(query)) \in Nat
      BY AskedFacts, WidthFacts
    <2>4. start_time = WindowFrom(0) /\ 0 * Width(MetricList(query)) = 0
          /\ Len(Encode(out)) = 0 /\ pc = "window"
      BY <2>1, <2>2, <2>3 DEF Init, WindowFrom
    <2> QED BY <2>1, <2>4 DEF Layout
  <1> QED BY <1>1, LayoutInvNext, TypeCorrect, LoopInvHolds, PTL DEF Spec

(* The client counts as many sets as there are windows, when each set is    *)
(* whole or there is at most one.                                           *)
LEMMA NumSetsIs ==
  ASSUME NEW output, NEW w \in Nat, NEW k \in 1..4, Len(output) = w * k,
         k = 4 \/ w <= 1
  PROVE  NumSets(output) = w
  <1>1. NumSets(output) = (w * k + 3) \div 4
    <2>1. w * k \in Nat
      OBVIOUS
    <2> QED BY <2>1 DEF NumSets, SetSize
  <1>2. CASE w = 0
    BY <1>1, <1>2
  <1>3. CASE k = 4
    BY <1>1, <1>3
  <1>4. CASE w = 1
    <2>1. w * k + 3 = k + 3
      BY <1>4
    <2>2. (k + 3) \div 4 = 1
      OBVIOUS
    <2> QED BY <1>1, <1>4, <2>1, <2>2
  <1> QED BY <1>2, <1>3, <1>4

(* The two counts of windows are one.                                       *)
LEMMA SameWindow ==
  ASSUME TypeOK, Tame(query), NEW w \in Nat, Layout(w), NEW v \in Nat, Progress(v)
  PROVE  v = w
  <1> DEFINE R == query.resolution
             x == w * R
             y == v * R
  <1>1. R \in Nat \ {0} /\ query.start_time_point \in Nat /\ x \in Nat /\ y \in Nat
    BY QueryAssumption DEF TypeOK, QueryType, TimePoint, Tame
  <1>2. query.start_time_point + x = query.start_time_point + y
    BY DEF Layout, Progress, WindowFrom
  <1> HIDE DEF x, y
  <1>3. x = y
    BY <1>1, <1>2
  <1>4. x = w * R + 0 /\ y = v * R + 0
    BY <1>1 DEF x, y
  <1> HIDE DEF R
  <1>5. x \div R = w /\ y \div R = v
    <2>1. 0 \in Nat /\ 0 < R
      BY <1>1
    <2> QED BY <1>1, <1>4, <2>1, Block
  <1> QED BY <1>3, <1>5

(* What the client prints for a query for all metrics, or for any metrics   *)
(* of a single window, is what the server computed, under each name of each *)
(* window (query_engine.cc:81-118, client_main.cc:104-159).                 *)
THEOREM RoundTrips == Spec => []RoundTrip
  <1> DEFINE asked == MetricList(query)
             output == Encode(out)
             k == Width(asked)
  <1>1. TypeOK /\ CompleteInv /\ LayoutInv => RoundTrip
    <2> SUFFICES ASSUME TypeOK, CompleteInv, LayoutInv, pc = "done", Tame(query),
                        asked # {}, asked = Metrics \/ Windows(query) <= 1
                 PROVE  Decoded(asked, output) = MeantFor(query)
      BY DEF RoundTrip, PrintedRight
    <2>1. PICK w \in Nat : Layout(w)
      BY DEF LayoutInv
    <2>2. Windows(query) = w
      <3>1. PICK v \in Nat : Progress(v)
        BY DEF CompleteInv
      <3>2. v = w /\ Windows(query) = v
        BY <2>1, <3>1, SameWindow, WindowsCount
      <3> QED BY <3>2
    <2>3. asked \subseteq 0..2 /\ k \in 1..4 /\ (k = 4 \/ w <= 1)
      <3>1. asked \subseteq 0..2
        BY AskedFacts
      <3>2. k \in Nat /\ k <= 4 /\ k >= 1 /\ (asked = Metrics => k = 4)
        BY <3>1, WidthFacts
      <3> HIDE DEF asked, k
      <3> QED BY <2>2, <3>1, <3>2
    <2>4. Len(output) = w * k
      BY <2>1 DEF Layout
    <2>5. NumSets(output) = w
      <3> HIDE DEF output, k
      <3> QED BY <2>3, <2>4, NumSetsIs
    <2>6. ASSUME NEW set \in 0..(w - 1), NEW mf \in NamesOf(asked)
          PROVE  At(output, set * SetSize + Index(asked, mf[1]) + mf[2] - 1)
                   = Field(WindowFrom(set), WindowTo(set), FieldsOf(mf[1])[mf[2]])
      <3>1. PICK m \in asked : \E f \in 1..Len(FieldsOf(m)) : mf = <<m, f>>
        BY DEF NamesOf
      <3>2. PICK f \in 1..Len(FieldsOf(m)) : mf = <<m, f>>
        BY <3>1
      <3> DEFINE p == Place(set, m, f)
      <3>3. /\ p \in 1..Len(output)
            /\ output[p] = Field(WindowFrom(set), WindowTo(set), FieldsOf(m)[f])
        BY <2>1 DEF Layout, LaidOut
      <3>4. p = set * k + Index(asked, m) + f
        BY DEF Place
      <3>5. set * k = set * SetSize /\ set * k \in Nat
        <4> HIDE DEF k
        <4>1. CASE k = 4
          BY <4>1 DEF SetSize
        <4>2. CASE w <= 1
          <5>1. set = 0
            BY <4>2
          <5> QED BY <2>3, <5>1 DEF SetSize
        <4> QED BY <2>3, <4>1, <4>2
      <3>6. Index(asked, m) \in Nat /\ f \in Nat
        <4>1. m \in 0..ListBits
          BY <2>3 DEF ListBits
        <4> QED BY <2>3, <4>1, WidthFacts
      <3> DEFINE x == set * SetSize + Index(asked, m) + f - 1
                 n == Len(output)
      <3>7. x + 1 = p /\ x \in Int
        <4> DEFINE a == set * k
                   b == Index(asked, m)
        <4>1. a \in Nat /\ b \in Nat /\ f \in Nat /\ x = a + b + f - 1 /\ p = a + b + f
          BY <3>4, <3>5, <3>6
        <4> HIDE DEF a, b, x, p
        <4> QED BY ONLY <4>1
      <3>8. n \in Nat
        <4>1. output \in Seq(Cell)
          BY DEF LayoutInv
        <4> HIDE DEF output
        <4> QED BY <4>1
      <3>9. At(output, x) = output[p]
        <4>1. x < n
          <5> HIDE DEF x, n, p
          <5>1. p \in 1..n
            BY <3>3 DEF n
          <5> QED BY <3>7, <3>8, <5>1
        <4> HIDE DEF x, p, output
        <4> QED BY <3>7, <4>1 DEF At
      <3> QED BY <3>2, <3>3, <3>9
    <2>7. ASSUME NEW set \in 0..(w - 1)
          PROVE  DecodeSet(asked, output, set) =
                   [mf \in NamesOf(asked) |->
                      Field(WindowFrom(set), WindowTo(set), FieldsOf(mf[1])[mf[2]])]
      BY <2>6 DEF DecodeSet
    <2>8. MeantFor(query) =
            [set \in 0..(w - 1) |-> [mf \in NamesOf(asked) |->
               Field(WindowFrom(set), WindowTo(set), FieldsOf(mf[1])[mf[2]])]]
      BY <2>2 DEF MeantFor, WindowFrom, WindowTo
    <2>9. Decoded(asked, output) = [set \in 0..(w - 1) |-> DecodeSet(asked, output, set)]
      BY <2>5 DEF Decoded
    <2> QED BY <2>7, <2>8, <2>9
  <1> QED BY <1>1, TypeCorrect, CompleteInvHolds, LayoutInvHolds, PTL
=============================================================================
