-------------------------- MODULE RangeScanProofs --------------------------
(***************************************************************************)
(* Proofs about RangeScan for every sorted file of 1 to 30 records and     *)
(* every window: no read is out of bounds, and a window that reaches into  *)
(* the file's time is scanned exactly.                                     *)
(***************************************************************************)
EXTENDS RangeScan, TLAPS

(* Up to 30 records the division by 31 counts them.                         *)
LEMMA ThirtyOne == \A n \in 1..30 : (n * 32) \div 31 = n
  OBVIOUS

LEMMA SizeCounts ==
  ASSUME NEW f, f.n \in 1..30
  PROVE  TradesSize(f) = f.n
  BY ThirtyOne DEF TradesSize, RecordBytes

(* The middle of a non-empty range is in it.                                *)
LEMMA MidInRange ==
  ASSUME NEW l \in Nat, NEW r \in Nat, l < r
  PROVE  LET m == l + ((r - l) \div 2) IN m \in Nat /\ l <= m /\ m < r
  OBVIOUS

(* What a binary search keeps: the trade before left is before the bound,   *)
(* the one at right is not, except at the ends the search started from.     *)
Between(at, l, r, lo, hi, bound) ==
  /\ l \in Nat /\ r \in Nat
  /\ lo <= l /\ l <= r /\ r <= hi
  /\ l # lo => at[l - 1] < bound
  /\ r # hi => bound <= at[r]
Bounded(lo, hi, bound) == Between(file.at, left, right, lo, hi, bound)

(* The first search is over all records but the last, and has no record     *)
(* before its start; the second starts from what the first has found.       *)
Found ==
  /\ start_idx \in 0..(file.n - 1)
  /\ start_idx # 0 => file.at[start_idx - 1] < start_time
  /\ start_idx # file.n - 1 => start_time <= file.at[start_idx]

Last(e) == IF e = 0 THEN 0 ELSE e - 1

EndsAt ==
  \E e \in start_idx..(file.n) :
    /\ end_idx = Last(e)
    /\ e # start_idx => file.at[e - 1] < end_time
    /\ e # file.n => end_time <= file.at[e]

IInv ==
  WellFormed(file) =>
    /\ pc \in {"start", "end"} => scanned = {}
    /\ pc = "start" => Bounded(0, file.n - 1, start_time)
    /\ pc = "end" => Found /\ Bounded(start_idx, file.n, end_time)
    /\ pc \in {"scan", "done"} =>
         /\ Found /\ EndsAt
         /\ i \in Nat /\ start_idx <= i
         /\ i <= end_idx + 1 \/ i = start_idx
         /\ scanned = start_idx..(i - 1)
    /\ pc = "done" => i > end_idx
    /\ pc # "thrown"

(* The engine does not change its file or the window.                       *)
DataInv == /\ file \in Files /\ trades_size = TradesSize(file)
           /\ start_time \in Starts /\ end_time \in Ends
           /\ end_time > start_time

LEMMA DataInvHolds == Spec => []DataInv
  <1>1. Init => DataInv
    BY DEF Init, DataInv
  <1>2. DataInv /\ [Next]_vars => DataInv'
    BY DEF DataInv, Next, vars, data, SearchStart, StartFound, SearchEnd,
       EndFound, Scan, Return, Throw, Halve
  <1> QED BY <1>1, <1>2, PTL DEF Spec

LEMMA FileFacts ==
  ASSUME DataInv, WellFormed(file)
  PROVE  /\ file.n \in 1..30 /\ trades_size = file.n
         /\ \A k \in 0..(file.n - 1) : file.at[k] \in Nat
         /\ start_time \in Nat /\ end_time \in Nat /\ end_time > start_time
         /\ Sorted(file)
  <1>1. FileType(file) /\ file.n \in 1..30
    BY ScanAssumption DEF DataInv, WellFormed
  <1>2. trades_size = file.n
    BY <1>1, SizeCounts DEF DataInv
  <1>3. \A k \in 0..(file.n - 1) : file.at[k] \in Nat
    BY <1>1 DEF FileType
  <1> QED BY <1>1, <1>2, <1>3, ScanAssumption DEF DataInv, WellFormed

(* One turn of a search keeps its range bounded, for either bound.          *)
LEMMA HalveKeepsBetween ==
  ASSUME NEW at, NEW l, NEW r, NEW lo \in Nat, NEW hi \in Nat, NEW bound \in Nat,
         Between(at, l, r, lo, hi, bound), l < r,
         \A k \in 0..(hi - 1) : at[k] \in Nat
  PROVE  LET m == l + ((r - l) \div 2) IN
           /\ m \in 0..(hi - 1)
           /\ at[m] < bound => Between(at, m + 1, r, lo, hi, bound)
           /\ ~(at[m] < bound) => Between(at, l, m, lo, hi, bound)
  <1> DEFINE m == l + ((r - l) \div 2)
  <1>1. l \in Nat /\ r \in Nat /\ lo <= l /\ r <= hi
    BY DEF Between
  <1>2. m \in Nat /\ l <= m /\ m < r
    BY <1>1, MidInRange
  <1> HIDE DEF m
  <1>3. m \in 0..(hi - 1) /\ at[m] \in Nat
    BY <1>1, <1>2
  <1>4. at[m] < bound => Between(at, m + 1, r, lo, hi, bound)
    BY <1>1, <1>2 DEF Between
  <1>5. ~(at[m] < bound) => Between(at, l, m, lo, hi, bound)
    BY <1>1, <1>2, <1>3 DEF Between
  <1> QED BY <1>3, <1>4, <1>5 DEF m

-----------------------------------------------------------------------------
LEMMA InitIInv == Init => IInv
  <1> SUFFICES ASSUME Init, WellFormed(file) PROVE Bounded(0, file.n - 1, start_time)
    BY DEF Init, IInv
  <1>1. DataInv
    BY DEF Init, DataInv
  <1>2. file.n \in 1..30 /\ trades_size = file.n
    BY <1>1, FileFacts
  <1>3. 2 * file.n < Modulus /\ Modulus \in Nat
    BY <1>1, ScanAssumption DEF DataInv
  <1>4. right = file.n - 1 /\ left = 0
    BY <1>2, <1>3 DEF Init
  <1> QED BY <1>2, <1>4 DEF Bounded, Between

LEMMA NextIInv == DataInv /\ IInv /\ [Next]_vars => IInv'
  <1> SUFFICES ASSUME DataInv, IInv, [Next]_vars, WellFormed(file)'
               PROVE  IInv'
    BY DEF IInv
  <1>d. file' = file /\ start_time' = start_time /\ end_time' = end_time
    BY DEF Next, vars, data, SearchStart, StartFound, SearchEnd, EndFound,
       Scan, Return, Throw, Halve
  <1>w. WellFormed(file)
    BY <1>d
  <1>0. /\ file.n \in 1..30 /\ trades_size = file.n
        /\ \A k \in 0..(file.n - 1) : file.at[k] \in Nat
        /\ start_time \in Nat /\ end_time \in Nat /\ end_time > start_time
    BY <1>w, FileFacts
  <1>1. CASE SearchStart
    <2>1. pc = "start" /\ left < right /\ Bounded(0, file.n - 1, start_time)
      BY <1>1, <1>w DEF SearchStart, IInv
    <2>2. /\ Mid \in 0..(file.n - 2)
          /\ file.at[Mid] < start_time =>
               Between(file.at, Mid + 1, right, 0, file.n - 1, start_time)
          /\ ~(file.at[Mid] < start_time) =>
               Between(file.at, left, Mid, 0, file.n - 1, start_time)
      <3> DEFINE hi == file.n - 1
      <3>1. /\ 0 \in Nat /\ hi \in Nat /\ start_time \in Nat /\ left < right
            /\ \A k \in 0..(hi - 1) : file.at[k] \in Nat
            /\ hi - 1 = file.n - 2
        BY <1>0, <2>1
      <3>2. Between(file.at, left, right, 0, hi, start_time)
        BY <2>1 DEF Bounded
      <3> HIDE DEF hi
      <3>3. /\ Mid \in 0..(hi - 1)
            /\ file.at[Mid] < start_time =>
                 Between(file.at, Mid + 1, right, 0, hi, start_time)
            /\ ~(file.at[Mid] < start_time) =>
                 Between(file.at, left, Mid, 0, hi, start_time)
        BY <3>1, <3>2, HalveKeepsBetween DEF Mid
      <3> QED BY <3>1, <3>3 DEF hi
    <2>3. Halve(start_time)
      BY <1>0, <1>1, <2>2 DEF SearchStart, Throws
    <2>4. pc' = "start" /\ scanned' = {}
      BY <1>w, <2>1, <2>3 DEF Halve, IInv
    <2>5. Between(file.at, left', right', 0, file.n - 1, start_time)
      BY <2>2, <2>3 DEF Halve
    <2> QED BY <1>d, <2>4, <2>5 DEF IInv, Bounded
  <1>2. CASE StartFound
    <2>1. Bounded(0, file.n - 1, start_time) /\ ~(left < right)
      BY <1>2, <1>w DEF StartFound, IInv
    <2>2. /\ start_idx' = left /\ left' = left /\ right' = file.n /\ pc' = "end"
          /\ scanned' = {}
      BY <1>0, <1>2, <1>w DEF StartFound, IInv
    <2>3. Found' /\ Bounded(start_idx, file.n, end_time)'
      BY <1>0, <1>d, <2>1, <2>2 DEF Found, Bounded, Between
    <2> QED BY <2>2, <2>3 DEF IInv
  <1>3. CASE SearchEnd
    <2>1. /\ pc = "end" /\ left < right /\ Found
          /\ Bounded(start_idx, file.n, end_time)
      BY <1>3, <1>w DEF SearchEnd, IInv
    <2>2. /\ Mid \in 0..(file.n - 1)
          /\ file.at[Mid] < end_time =>
               Between(file.at, Mid + 1, right, start_idx, file.n, end_time)
          /\ ~(file.at[Mid] < end_time) =>
               Between(file.at, left, Mid, start_idx, file.n, end_time)
      <3>1. /\ start_idx \in Nat /\ file.n \in Nat /\ end_time \in Nat
            /\ left < right
            /\ \A k \in 0..(file.n - 1) : file.at[k] \in Nat
        BY <1>0, <2>1 DEF Found
      <3>2. Between(file.at, left, right, start_idx, file.n, end_time)
        BY <2>1 DEF Bounded
      <3> QED BY <3>1, <3>2, HalveKeepsBetween DEF Mid
    <2>3. Halve(end_time)
      BY <1>3, <2>2 DEF SearchEnd, Throws
    <2>4. pc' = "end" /\ start_idx' = start_idx /\ scanned' = {}
      BY <1>w, <2>1, <2>3 DEF Halve, IInv
    <2>5. Between(file.at, left', right', start_idx, file.n, end_time)
      BY <2>2, <2>3 DEF Halve
    <2> QED BY <1>d, <2>1, <2>4, <2>5 DEF IInv, Bounded, Found
  <1>4. CASE EndFound
    <2>1. /\ Found /\ Bounded(start_idx, file.n, end_time)
          /\ ~(left < right)
      BY <1>4, <1>w DEF EndFound, IInv
    <2>2. /\ end_idx' = Last(right) /\ i' = start_idx /\ pc' = "scan"
          /\ start_idx' = start_idx /\ scanned' = scanned
      BY <1>4 DEF EndFound, Last
    <2>3. left = right /\ right \in start_idx..(file.n)
      BY <1>0, <2>1 DEF Bounded, Between, Found
    <2>4. EndsAt'
      BY <1>0, <1>d, <2>1, <2>2, <2>3 DEF EndsAt, Bounded, Between
    <2>5. scanned = {} /\ start_idx \in Nat
      BY <1>4, <1>w, <2>1 DEF EndFound, IInv, Found
    <2>6. scanned' = start_idx'..(i' - 1)
      BY <2>2, <2>5
    <2>7. Found' /\ i' \in Nat /\ start_idx' <= i'
      BY <1>d, <2>1, <2>2, <2>5 DEF Found
    <2> QED BY <2>2, <2>4, <2>6, <2>7 DEF IInv
  <1>5. CASE Scan
    <2>1. /\ pc = "scan" /\ i <= end_idx /\ Found /\ EndsAt /\ i \in Nat
          /\ start_idx <= i /\ scanned = start_idx..(i - 1)
      BY <1>5, <1>w DEF Scan, IInv
    <2>2. PICK e \in start_idx..(file.n) :
            /\ end_idx = Last(e)
            /\ e # start_idx => file.at[e - 1] < end_time
            /\ e # file.n => end_time <= file.at[e]
      BY <2>1 DEF EndsAt
    <2>3. end_idx \in 0..(file.n - 1)
      <3>1. file.n \in Nat /\ file.n > 0
        BY <1>0
      <3>2. start_idx \in Nat
        BY <2>1, <3>1 DEF Found
      <3>3. e \in 0..(file.n)
        BY <3>1, <3>2
      <3> QED BY <2>2, <3>1, <3>3 DEF Last
    <2>4. /\ scanned' = scanned \cup {i} /\ i' = i + 1 /\ pc' = pc
          /\ start_idx' = start_idx /\ end_idx' = end_idx
      <3>0. i \in Nat /\ i <= end_idx
        BY <2>1
      <3>1. ~Throws(i)
        BY <1>0, <2>3, <3>0 DEF Throws
      <3> QED BY <1>5, <3>1 DEF Scan
    <2>5. scanned' = start_idx'..(i' - 1) /\ start_idx \in Nat
      BY <2>1, <2>4 DEF Found
    <2>6. Found' /\ EndsAt'
      BY <1>d, <2>1, <2>4 DEF Found, EndsAt
    <2> QED BY <2>1, <2>3, <2>4, <2>5, <2>6 DEF IInv
  <1>6. CASE Return
    <2>1. /\ pc = "scan" /\ ~(i <= end_idx) /\ Found /\ EndsAt /\ i \in Nat
          /\ start_idx <= i /\ (i <= end_idx + 1 \/ i = start_idx)
          /\ scanned = start_idx..(i - 1)
      BY <1>6, <1>w DEF Return, IInv
    <2>2. /\ pc' = "done" /\ i' = i /\ start_idx' = start_idx
          /\ end_idx' = end_idx /\ scanned' = scanned
      BY <1>6 DEF Return
    <2>3. Found' /\ EndsAt'
      BY <1>d, <2>1, <2>2 DEF Found, EndsAt
    <2>4. end_idx \in Nat
      BY <1>0, <2>1 DEF Found, EndsAt, Last
    <2> QED BY <2>1, <2>2, <2>3, <2>4 DEF IInv
  <1>7. CASE UNCHANGED vars
    BY <1>7, <1>d, <1>w DEF vars, IInv, Found, EndsAt, Bounded
  <1> QED BY <1>1, <1>2, <1>3, <1>4, <1>5, <1>6, <1>7 DEF Next

LEMMA IInvHolds == Spec => []IInv
  BY InitIInv, NextIInv, DataInvHolds, PTL DEF Spec

-----------------------------------------------------------------------------
(* For a sorted file of 1 to 30 records no search and no scan reads outside *)
(* the file.                                                                *)
THEOREM NoReadThrows == Spec => [](WellFormed(file) => ReadsInBounds)
  <1>1. IInv => (WellFormed(file) => ReadsInBounds)
    BY DEF IInv, ReadsInBounds
  <1> QED BY <1>1, IInvHolds, PTL

(* For such a file a window that reaches into the time the file covers is   *)
(* scanned exactly: the trades from start_time on and before end_time.      *)
THEOREM ScanCorrect == Spec => [](WellFormed(file) => ScanIsExact)
  <1>1. DataInv /\ IInv => (WellFormed(file) => ScanIsExact)
    <2> SUFFICES ASSUME DataInv, IInv, WellFormed(file), pc = "done", Reaches
                 PROVE  scanned = InWindow
      BY DEF ScanIsExact
    <2> DEFINE n == file.n
               at == file.at
    <2>1. /\ n \in 1..30 /\ (\A k \in 0..(n - 1) : at[k] \in Nat)
          /\ start_time \in Nat /\ end_time \in Nat
          /\ \A j, k \in 0..(n - 1) : j <= k => at[j] <= at[k]
      BY FileFacts DEF Sorted
    <2>2. /\ start_idx \in 0..(n - 1)
          /\ start_idx # 0 => at[start_idx - 1] < start_time
          /\ start_idx # n - 1 => start_time <= at[start_idx]
      BY DEF IInv, Found
    <2>3. PICK e \in start_idx..n :
            /\ end_idx = Last(e)
            /\ e # start_idx => at[e - 1] < end_time
            /\ e # n => end_time <= at[e]
      BY DEF IInv, EndsAt
    <2>4. /\ i \in Nat /\ start_idx <= i /\ i > end_idx
          /\ (i <= end_idx + 1 \/ i = start_idx)
          /\ scanned = start_idx..(i - 1)
      BY DEF IInv
    <2>5. at[0] < end_time /\ start_time <= at[n - 1]
      BY DEF Reaches
    <2>6. InWindow = {k \in 0..(n - 1) : start_time <= at[k] /\ at[k] < end_time}
      BY DEF InWindow
    <2> HIDE DEF n, at
    <2>7. e \in Nat /\ e <= n /\ start_idx <= e
      BY <2>1, <2>2
    <2>8. e # 0
      BY <2>1, <2>2, <2>3, <2>5, <2>7
    <2>9. i = e
      BY <2>2, <2>3, <2>4, <2>7, <2>8 DEF Last
    <2>10. start_time <= at[start_idx]
      BY <2>2, <2>5
    <2>11. ASSUME NEW k \in 0..(n - 1)
           PROVE  k \in start_idx..(e - 1) <=> start_time <= at[k] /\ at[k] < end_time
      <3>1. CASE k < start_idx
        <4>1. start_idx # 0 /\ k <= start_idx - 1 /\ start_idx - 1 \in 0..(n - 1)
          BY <2>1, <2>2, <3>1
        <4>2. at[k] <= at[start_idx - 1] /\ at[start_idx - 1] < start_time
          BY <2>1, <2>2, <4>1
        <4>3. at[k] \in Nat /\ at[start_idx - 1] \in Nat
          BY <2>1, <4>1
        <4>4. ~(start_time <= at[k])
          BY <2>1, <4>2, <4>3
        <4>5. k \notin start_idx..(e - 1)
          BY <2>2, <2>7, <3>1
        <4> QED BY <4>4, <4>5
      <3>2. CASE k >= e
        <4>1. e \in 0..(n - 1) /\ e # n
          BY <2>1, <2>7, <3>2
        <4>2. at[e] <= at[k] /\ end_time <= at[e]
          BY <2>1, <2>3, <3>2, <4>1
        <4>3. at[k] >= end_time /\ k \notin start_idx..(e - 1)
          BY <2>1, <3>2, <4>1, <4>2
        <4> QED BY <2>1, <4>3
      <3>3. CASE start_idx <= k /\ k <= e - 1
        <4>1. at[start_idx] <= at[k]
          BY <2>1, <2>2, <3>3
        <4>2. e # start_idx /\ e - 1 \in 0..(n - 1)
          BY <2>1, <2>2, <2>7, <3>3
        <4>3. at[k] <= at[e - 1] /\ at[e - 1] < end_time
          BY <2>1, <2>3, <3>3, <4>2
        <4>4. start_idx \in Nat /\ at[start_idx] \in Nat /\ at[e - 1] \in Nat
              /\ at[k] \in Nat
          BY <2>1, <2>2, <4>2
        <4>5. start_time <= at[k] /\ at[k] < end_time
          BY <2>1, <2>10, <4>1, <4>3, <4>4
        <4>6. k \in start_idx..(e - 1)
          BY <2>7, <3>3, <4>4
        <4> QED BY <4>5, <4>6
      <3> QED BY <2>1, <2>2, <2>7, <3>1, <3>2, <3>3
    <2>12. start_idx..(e - 1) \subseteq 0..(n - 1)
      BY <2>1, <2>2, <2>7
    <2> QED BY <2>4, <2>6, <2>9, <2>11, <2>12
  <1> QED BY <1>1, IInvHolds, DataInvHolds, PTL
=============================================================================
