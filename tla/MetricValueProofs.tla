------------------------- MODULE MetricValueProofs -------------------------
(***************************************************************************)
(* Proofs about MetricValue: it scans as RangeScan does, so what is proved *)
(* there holds here; what it returns fits the 32 bits of a mantissa and    *)
(* fills them; and it is the value of exactly the window's trades, for     *)
(* every file, window, radix and limit.                                    *)
(***************************************************************************)
EXTENDS MetricValue, RangeScanProofs, FiniteSetTheorems, WellFoundedInduction

(* Rounding a fraction that is at most m does not go past m.                *)
LEMMA RoundFits ==
  ASSUME NEW a \in Nat, NEW b \in Nat \ {0}, NEW m \in Nat, a <= m * b
  PROVE  Round(a, b) \in 0..m
  <1> DEFINE x == 2 * a + b
             y == 2 * b
             q == x \div y
  <1>1. x \in Nat /\ y \in Nat /\ y > 0
    OBVIOUS
  <1> HIDE DEF x, y
  <1>2. q \in Nat /\ y * q <= x
    BY <1>1
  <1> HIDE DEF q
  <1>3. ASSUME q >= m + 1 PROVE FALSE
    <2>1. y * (m + 1) <= y * q
      BY <1>1, <1>2, <1>3
    <2>2. y * (m + 1) = 2 * (m * b) + 2 * b
      BY DEF y
    <2>3. m * b \in Nat
      OBVIOUS
    <2>4. x < 2 * (m * b) + 2 * b
      BY <2>3 DEF x
    <2> QED BY <1>1, <1>2, <2>1, <2>2, <2>3, <2>4
  <1>4. q \in 0..m
    BY <1>2, <1>3
  <1> QED BY <1>4 DEF q, x, y, Round

-----------------------------------------------------------------------------
(* Types: no file, sorted or not, takes a variable out of its range.        *)
LEMMA InitVTypeOK == VInit => VTypeOK
  <1> SUFFICES ASSUME VInit PROVE VTypeOK
    OBVIOUS
  <1>1. file \in Files /\ file.n \in Nat
    BY ScanAssumption DEF VInit, Init, FileType
  <1>2. trades_size \in Nat /\ right \in Nat
    <2>1. file.n * RecordBytes \in Nat
      BY <1>1 DEF RecordBytes
    <2>2. trades_size = (file.n * RecordBytes) \div 31
      BY DEF VInit, Init, TradesSize
    <2>3. trades_size \in Nat
      BY <2>1, <2>2
    <2>4. right = (trades_size - 1) % Modulus /\ Modulus \in Nat /\ Modulus > 0
      BY ScanAssumption DEF VInit, Init
    <2> HIDE DEF RecordBytes
    <2>5. (trades_size - 1) % Modulus \in 0..(Modulus - 1)
      BY <2>3, <2>4
    <2> QED BY <2>3, <2>4, <2>5
  <1>3. TypeOK
    BY <1>1, <1>2 DEF VInit, Init, TypeOK
  <1> QED BY <1>3, ValueAssumption DEF VInit, VTypeOK, NoPrice

LEMMA TypeFacts ==
  ASSUME TypeOK
  PROVE  /\ FileType(file) /\ Valued(file)
         /\ start_time \in Nat /\ end_time \in Nat
  BY ScanAssumption, ValueAssumption DEF TypeOK

LEMMA HalveTypes ==
  ASSUME TypeOK, left < right, ~Throws(Mid), NEW bound \in Nat, Halve(bound)
  PROVE  TypeOK'
  <1>1. Mid \in Nat
    BY DEF TypeOK, Mid
  <1>2. left' \in Nat /\ right' \in Nat
    BY <1>1 DEF TypeOK, Halve
  <1> QED BY <1>2 DEF TypeOK, Halve, data

LEMMA SearchTypes == ASSUME TypeOK, Search PROVE TypeOK'
  <1>1. CASE SearchStart
    BY <1>1, HalveTypes, TypeFacts DEF SearchStart, Throw, TypeOK, data
  <1>2. CASE StartFound
    BY <1>2 DEF StartFound, TypeOK, data
  <1>3. CASE SearchEnd
    BY <1>3, HalveTypes, TypeFacts DEF SearchEnd, Throw, TypeOK, data
  <1>4. CASE EndFound
    BY <1>4 DEF EndFound, TypeOK, data
  <1> QED BY <1>1, <1>2, <1>3, <1>4 DEF Search

LEMMA ScanTypes == ASSUME TypeOK, Scan PROVE TypeOK'
  <1>1. CASE Throws(i)
    BY <1>1 DEF Scan, Throw, TypeOK, data
  <1>2. CASE ~Throws(i)
    <2>1. scanned' = scanned \cup {i} /\ i' = i + 1
      BY <1>2 DEF Scan
    <2>2. scanned' \subseteq Nat /\ i' \in Nat
      BY <2>1 DEF TypeOK
    <2> QED BY <1>2, <2>2 DEF Scan, TypeOK, data
  <1> QED BY <1>1, <1>2

LEMMA NextVTypeOK == VTypeOK /\ [VNext]_vvars => VTypeOK'
  <1> SUFFICES ASSUME VTypeOK, [VNext]_vvars PROVE VTypeOK'
    OBVIOUS
  <1> USE DEF VTypeOK
  <1>1. CASE Search
    BY <1>1, SearchTypes DEF Search, sums, value
  <1>2. CASE Accumulate
    <2>1. TypeOK'
      BY <1>2, ScanTypes DEF Accumulate
    <2>2. CASE Throws(i)
      BY <1>2, <2>1, <2>2 DEF Accumulate, sums, value
    <2>3. CASE ~Throws(i)
      <3>1. i \in 0..(file.n - 1) /\ Valued(file)
        BY <2>3, TypeFacts DEF Throws
      <3>2. file.price[i] \in Nat /\ file.quantity[i] \in Nat
        BY <3>1 DEF Valued
      <3>3. file.price[i] * file.quantity[i] \in Nat
        BY <3>2
      <3>4. sum_q' \in Nat /\ sum_pq' \in Nat /\ min_p' \in Nat /\ max_p' \in Nat
        BY <1>2, <2>3, <3>2, <3>3 DEF Accumulate, AddUp, Track
      <3> QED BY <1>2, <2>1, <3>4 DEF Accumulate, value
    <2> QED BY <2>2, <2>3
  <1>3. CASE ReturnPrices
    BY <1>3 DEF ReturnPrices, Return, TypeOK, data, sums, value
  <1>4. CASE Total
    BY <1>4, ValueAssumption DEF Total, Return, TypeOK, data, sums
  <1>5. CASE Mean
    <2>1. TypeOK'
      BY <1>5 DEF Mean, Return, TypeOK, data
    <2>2. sum_q > 0 => sum_q * One \in Nat \ {0}
      BY ValueAssumption
    <2>3. num' \in Nat /\ den' \in Nat \ {0}
      BY <1>5, <2>2, ValueAssumption DEF Mean
    <2> QED BY <1>5, <2>1, <2>3 DEF Mean, sums
  <1>6. CASE ScaleUp
    <2>1. TypeOK'
      BY <1>6 DEF ScaleUp, TypeOK, vars, data
    <2>2. num * Radix \in Nat
      BY ValueAssumption
    <2>3. exp - 1 \in Int /\ exp - 1 >= -MinExponent
      BY <1>6, ValueAssumption DEF ScaleUp, Small
    <2> QED BY <1>6, <2>1, <2>2, <2>3 DEF ScaleUp, sums
  <1>7. CASE ScaledUp
    BY <1>7 DEF ScaledUp, TypeOK, vars, data, sums, value
  <1>8. CASE ScaleDown
    <2>1. TypeOK'
      BY <1>8 DEF ScaleDown, TypeOK, vars, data
    <2>2. den * Radix \in Nat \ {0}
      BY ValueAssumption
    <2>3. exp + 1 \in Int /\ exp + 1 >= -MinExponent
      BY ValueAssumption
    <2> QED BY <1>8, <2>1, <2>2, <2>3 DEF ScaleDown, sums
  <1>9. CASE ReturnValue
    <2>1. TypeOK'
      BY <1>9 DEF ReturnValue, TypeOK, vars, data
    <2>2. num <= MaxMantissa * den
      <3>1. MaxMantissa * den \in Nat
        BY ValueAssumption
      <3> QED BY <1>9, <3>1 DEF ReturnValue, Large
    <2>3. mantissa' \in 0..MaxMantissa
      BY <1>9, <2>2, RoundFits, ValueAssumption DEF ReturnValue
    <2> QED BY <1>9, <2>1, <2>3 DEF ReturnValue, sums
  <1>10. CASE UNCHANGED vvars
    BY <1>10 DEF vvars, vars, TypeOK, data
  <1> QED BY <1>1, <1>2, <1>3, <1>4, <1>5, <1>6, <1>7, <1>8, <1>9, <1>10 DEF VNext

(* For every file, whatever its order and its amounts, what a range         *)
(* function casts to uint32_t fits, and the exponent stays above its limit  *)
(* (query_engine.cc:231-247, 305-321).                                      *)
THEOREM ValueFits == VSpec => []VTypeOK
  <1> QED BY InitVTypeOK, NextVTypeOK, PTL DEF VSpec

-----------------------------------------------------------------------------
(* The digits that are kept.                                                *)

(* What both loops leave: a value that is not small, or one that a          *)
(* division by Radix has only just made fit.                                *)
FillsMantissa == num >= ScaleUpTo * den \/ Radix * num >= MaxMantissa * den

DigitsInv ==
  /\ step # "scan" => pc = "done"
  /\ step = "scan" => num = 0
  /\ step = "down" /\ num > 0 => FillsMantissa \/ exp = -MinExponent
  /\ KeepsDigits

(* Rounding a / b is less than half a unit below it.                        *)
LEMMA RoundIsNear ==
  ASSUME NEW a \in Nat, NEW b \in Nat \ {0}
  PROVE  Round(a, b) \in Nat /\ 2 * a + b < 2 * b * (Round(a, b) + 1)
  <1> DEFINE x == 2 * a + b
             y == 2 * b
             q == x \div y
  <1>1. x \in Nat /\ y \in Nat /\ y > 0
    OBVIOUS
  <1> HIDE DEF x, y
  <1>2. q \in Nat /\ x < y * (q + 1)
    BY <1>1
  <1> QED BY <1>2 DEF q, x, y, Round

(* What is at least m is rounded to at least m.                             *)
LEMMA RoundKeeps ==
  ASSUME NEW a \in Nat, NEW b \in Nat \ {0}, NEW m \in Nat, a >= m * b
  PROVE  Round(a, b) >= m
  <1> DEFINE q == Round(a, b)
  <1>1. q \in Nat /\ 2 * a + b < 2 * b * (q + 1)
    BY RoundIsNear
  <1> HIDE DEF q
  <1>2. ASSUME q + 1 <= m PROVE FALSE
    <2>1. b * (q + 1) <= b * m /\ b * (q + 1) \in Nat /\ b * m \in Nat
      BY <1>1, <1>2
    <2>2. 2 * b * (q + 1) = 2 * (b * (q + 1)) /\ m * b = b * m
      BY <1>1
    <2> QED BY <1>1, <2>1, <2>2
  <1>3. q >= m
    BY <1>1, <1>2
  <1> QED BY <1>3 DEF q

(* What was above the limit before a division by r loses at most the last   *)
(* digit.                                                                   *)
LEMMA RoundAfterDivision ==
  ASSUME NEW a \in Nat, NEW b \in Nat \ {0}, NEW m \in Nat,
         NEW r \in Nat, r > 0, r * a >= m * b
  PROVE  r * Round(a, b) >= m - r
  <1> DEFINE q == Round(a, b)
             z == r * (q + 1)
             c == b * z
             ra == r * a
             mb == m * b
  <1>1. q \in Nat /\ 2 * a + b < 2 * b * (q + 1)
    BY RoundIsNear
  <1> HIDE DEF q
  <1>2. z \in Nat /\ z = r * q + r /\ r * q \in Nat
    BY <1>1
  <1>3. r * (2 * a + b) < r * (2 * b * (q + 1))
    <2> DEFINE u == 2 * a + b
               v == 2 * b * (q + 1)
    <2>1. u \in Nat /\ v \in Nat /\ u < v
      BY <1>1
    <2> HIDE DEF u, v
    <2>2. r * u < r * v
      BY <2>1
    <2> QED BY <2>2 DEF u, v
  <1>4. r * (2 * a + b) = 2 * ra + r * b /\ ra \in Nat /\ r * b \in Nat
    OBVIOUS
  <1>5. r * (2 * b * (q + 1)) = 2 * c
    BY <1>1
  <1>6. ASSUME z + 1 <= m PROVE FALSE
    <2> HIDE DEF z
    <2>1. b * z <= b * m /\ b * z \in Nat /\ m * b = b * m /\ m * b \in Nat
      BY <1>2, <1>6
    <2>2. c \in Nat /\ mb \in Nat /\ c <= mb /\ ra >= mb
      BY <2>1
    <2> HIDE DEF c, mb, ra
    <2> QED BY <1>3, <1>4, <1>5, <2>2
  <1>7. z >= m
    BY <1>2, <1>6
  <1>8. r * q >= m - r
    BY <1>2, <1>7
  <1> QED BY <1>8 DEF q

LEMMA RoundFills ==
  ASSUME VTypeOK, FillsMantissa
  PROVE  \/ Round(num, den) >= ScaleUpTo
         \/ Radix * Round(num, den) >= MaxMantissa - Radix
  <1>1. num \in Nat /\ den \in Nat \ {0}
    BY DEF VTypeOK
  <1>2. CASE num >= ScaleUpTo * den
    <2>1. ScaleUpTo \in Nat
      BY ValueAssumption
    <2> QED BY <1>1, <1>2, <2>1, RoundKeeps
  <1>3. CASE Radix * num >= MaxMantissa * den
    <2>1. Radix \in Nat /\ Radix > 0 /\ MaxMantissa \in Nat
      BY ValueAssumption
    <2> QED BY <1>1, <1>3, <2>1, RoundAfterDivision
  <1> QED BY <1>2, <1>3 DEF FillsMantissa

LEMMA NextDigitsInv == VTypeOK /\ DigitsInv /\ [VNext]_vvars => DigitsInv'
  <1> SUFFICES ASSUME VTypeOK, DigitsInv, [VNext]_vvars PROVE DigitsInv'
    OBVIOUS
  <1>0. num \in Nat /\ den \in Nat \ {0} /\ exp \in Int /\ exp >= -MinExponent
    BY DEF VTypeOK
  <1>1. CASE Search
    BY <1>1 DEF Search, SearchStart, StartFound, SearchEnd, EndFound, value,
       DigitsInv, KeepsDigits
  <1>2. CASE Accumulate
    BY <1>2 DEF Accumulate, Scan, value, DigitsInv, KeepsDigits
  <1>3. CASE ReturnPrices
    <2>1. step = "scan" /\ num' = 0
      BY <1>3 DEF ReturnPrices, Return, value, DigitsInv
    <2> QED BY <1>3, <2>1 DEF ReturnPrices, Return, DigitsInv, KeepsDigits
  <1>4. CASE Total \/ Mean
    BY <1>4 DEF Total, Mean, Return, DigitsInv, KeepsDigits
  <1>5. CASE ScaleUp
    BY <1>5 DEF ScaleUp, vars, DigitsInv, KeepsDigits
  <1>6. CASE ScaledUp
    <2>1. num > 0 => num >= ScaleUpTo * den \/ exp = -MinExponent
      <3>1. ScaleUpTo * den \in Int /\ MinExponent \in Nat
        BY <1>0, ValueAssumption
      <3> QED BY <1>0, <1>6, <3>1 DEF ScaledUp, Small
    <2> QED BY <1>6, <2>1 DEF ScaledUp, vars, value, DigitsInv, FillsMantissa,
            KeepsDigits
  <1>7. CASE ScaleDown
    <2>1. Radix * num >= MaxMantissa * (den * Radix)
      <3> DEFINE limit == MaxMantissa * den
      <3>1. limit \in Nat /\ num > limit /\ Radix \in Nat
        BY <1>0, <1>7, ValueAssumption DEF ScaleDown, Large
      <3>2. MaxMantissa * (den * Radix) = Radix * limit
        BY <1>0, ValueAssumption
      <3> HIDE DEF limit
      <3>3. Radix * num >= Radix * limit
        BY <1>0, <3>1
      <3> QED BY <3>2, <3>3
    <2>2. FillsMantissa'
      BY <1>7, <2>1 DEF ScaleDown, FillsMantissa
    <2> QED BY <1>7, <2>2 DEF ScaleDown, vars, DigitsInv, KeepsDigits
  <1>8. CASE ReturnValue
    <2>1. num > 0 => \/ mantissa' >= ScaleUpTo
                     \/ Radix * mantissa' >= MaxMantissa - Radix
                     \/ exp = -MinExponent
      BY <1>8, RoundFills DEF ReturnValue, DigitsInv
    <2> QED BY <1>8, <2>1 DEF ReturnValue, vars, DigitsInv, KeepsDigits
  <1>9. CASE UNCHANGED vvars
    BY <1>9 DEF vvars, vars, value, DigitsInv, FillsMantissa, KeepsDigits
  <1> QED BY <1>1, <1>2, <1>3, <1>4, <1>5, <1>6, <1>7, <1>8, <1>9 DEF VNext

(* For every file, radix and limit, what is returned has all the digits     *)
(* that fit its mantissa, unless the exponent is as low as it goes          *)
(* (query_engine.cc:234-244, 308-318).                                      *)
THEOREM ValueKeepsDigits == VSpec => []KeepsDigits
  <1>1. VInit => DigitsInv
    BY DEF VInit, DigitsInv, KeepsDigits
  <1>2. DigitsInv => KeepsDigits
    BY DEF DigitsInv
  <1> QED BY <1>1, <1>2, NextDigitsInv, ValueFits, PTL DEF VSpec

-----------------------------------------------------------------------------
(* Every step scans as RangeScan does, or leaves the scan alone.            *)
THEOREM ImplementsScan == VSpec => Spec
  <1>1. VInit => Init
    BY DEF VInit
  <1>2. [VNext]_vvars => [Next]_vars
    BY DEF VNext, vvars, Next, Search, Accumulate, ReturnPrices, Total, Mean,
       ScaleUp, ScaledUp, ScaleDown, ReturnValue
  <1> QED BY <1>1, <1>2, PTL DEF VSpec, Spec

(* So no read of a whole range function leaves a sorted file of 1 to 30     *)
(* records,                                                                 *)
THEOREM ValueReadsInBounds == VSpec => [](WellFormed(file) => ReadsInBounds)
  <1> QED BY ImplementsScan, NoReadThrows, PTL

(* and its value is made of exactly the window's trades.                    *)
THEOREM ValueScansExactly == VSpec => [](WellFormed(file) => ScanIsExact)
  <1> QED BY ImplementsScan, ScanCorrect, PTL

-----------------------------------------------------------------------------
(* Sums and powers: what the definitions by recursion compute.              *)

(* SumFunctionOnSet of Functions chooses a function h of the subsets of S   *)
(* that takes one element after the other.                                  *)
PickFrom(s) == CHOOSE x \in s : TRUE
Adds(h, g, S) ==
  h = [s \in SUBSET S |-> IF s = {} THEN 0 ELSE g[PickFrom(s)] + h[s \ {PickFrom(s)}]]

(* Induction over the subsets of a finite set, without an operator.         *)
LEMMA LeastSubset ==
  ASSUME NEW S, IsFiniteSet(S), NEW T \in SUBSET SUBSET S, T # {}
  PROVE  \E x \in T : \A y \in T : ~(y \subseteq x /\ y # x)
  <1> DEFINE R == StrictSubsetOrdering(S)
             P == SUBSET S
  <1>1. IsWellFoundedOn(R, FiniteSubsetsOf(S))
    BY FS_StrictSubsetOrderingWellFounded
  <1>2. P = FiniteSubsetsOf(S)
    BY FS_FiniteSubsetsOfFinite
  <1>3. T \subseteq P
    OBVIOUS
  <1> HIDE DEF R, P
  <1>4. \E x \in T : \A y \in T : ~(<<y, x>> \in R)
    BY <1>1, <1>2, <1>3, WFMin
  <1>5. PICK x \in T : \A y \in T : ~(<<y, x>> \in R)
    BY <1>4
  <1> QED BY <1>5 DEF R, StrictSubsetOrdering

LEMMA AddsAgree ==
  ASSUME NEW g, NEW S, IsFiniteSet(S), NEW h, Adds(h, g, S),
         NEW U, NEW k, Adds(k, g, U)
  PROVE  \A s \in SUBSET (S \cap U) : h[s] = k[s]
  <1> DEFINE T == {s \in SUBSET (S \cap U) : h[s] # k[s]}
  <1>1. SUFFICES ASSUME T # {} PROVE FALSE
    OBVIOUS
  <1>2. T \in SUBSET SUBSET S
    OBVIOUS
  <1>3. PICK s \in T : \A t \in T : ~(t \subseteq s /\ t # s)
    <2> HIDE DEF T
    <2> QED BY <1>1, <1>2, LeastSubset
  <1>4. s \in SUBSET S /\ s \in SUBSET U /\ h[s] # k[s]
    OBVIOUS
  <1>5. CASE s = {}
    BY <1>4, <1>5 DEF Adds
  <1>6. CASE s # {}
    <2> DEFINE x == PickFrom(s)
               t == s \ {x}
    <2>1. x \in s
      BY <1>6 DEF PickFrom
    <2>2. h[s] = g[x] + h[t] /\ k[s] = g[x] + k[t]
      BY <1>4, <1>6 DEF Adds
    <2>3. h[t] = k[t]
      BY <1>3, <1>4, <2>1
    <2> QED BY <1>4, <2>2, <2>3
  <1> QED BY <1>5, <1>6

LEMMA AddsExist ==
  ASSUME NEW g, NEW S, IsFiniteSet(S)
  PROVE  \E h : Adds(h, g, S)
  <1> DEFINE T == {s \in SUBSET S : ~\E h : Adds(h, g, s)}
  <1>1. SUFFICES ASSUME T # {} PROVE FALSE
    BY DEF Adds
  <1>2. PICK m \in T : \A t \in T : ~(t \subseteq m /\ t # m)
    <2>1. T \in SUBSET SUBSET S
      OBVIOUS
    <2> HIDE DEF T
    <2> QED BY <1>1, <2>1, LeastSubset
  <1>3. m \in SUBSET S /\ (\A h : ~Adds(h, g, m)) /\ IsFiniteSet(m)
    BY FS_Subset
  <1> DEFINE H(s) == CHOOSE h : Adds(h, g, s)
  <1>4. \A s \in SUBSET m : s # m => Adds(H(s), g, s) /\ IsFiniteSet(s)
    BY <1>2, <1>3, FS_Subset
  <1> HIDE DEF T
  <1> DEFINE Step(s, v) == IF s = {} THEN 0 ELSE g[PickFrom(s)] + v
             Value(s) == IF s # m THEN H(s)[s]
                         ELSE Step(m, H(m \ {PickFrom(m)})[m \ {PickFrom(m)}])
             K == [s \in SUBSET m |-> Value(s)]
  <1>5. ASSUME NEW s \in SUBSET m
        PROVE  K[s] = Step(s, K[s \ {PickFrom(s)}])
    <2> DEFINE t == s \ {PickFrom(s)}
    <2>1. CASE s = {}
      <3>1. s # m => H(s)[s] = 0
        <4> SUFFICES ASSUME s # m PROVE H(s)[s] = 0
          OBVIOUS
        <4>1. Adds(H(s), g, s)
          BY <1>4
        <4> HIDE DEF H
        <4> QED BY <2>1, <4>1 DEF Adds
      <3> QED BY <2>1, <3>1
    <2>2. CASE s # {}
      <3>1. PickFrom(s) \in s
        BY <2>2 DEF PickFrom
      <3>2. t \in SUBSET m /\ t # m /\ t \subseteq s
        BY <3>1
      <3>3. K[t] = H(t)[t]
        BY <3>2
      <3>4. CASE s = m
        BY <3>3, <3>4
      <3>5. CASE s # m
        <4>1. Adds(H(s), g, s) /\ Adds(H(t), g, t) /\ IsFiniteSet(s)
          BY <1>4, <3>2, <3>5
        <4> HIDE DEF H
        <4>2. H(s)[t] = H(t)[t]
          BY <3>2, <4>1, AddsAgree
        <4>3. H(s)[s] = g[PickFrom(s)] + H(s)[t]
          BY <2>2, <4>1 DEF Adds
        <4> QED BY <2>2, <3>3, <3>5, <4>2, <4>3
      <3> QED BY <3>4, <3>5
    <2> QED BY <2>1, <2>2
  <1> HIDE DEF Value
  <1>6. K = [s \in SUBSET m |-> Step(s, K[s \ {PickFrom(s)}])]
    BY <1>5
  <1>7. Adds(K, g, m)
    BY <1>6 DEF Adds
  <1> QED BY <1>3, <1>7

(* SumFunctionOnSet is what its definition says.                            *)
LEMMA SumUnfolds ==
  ASSUME NEW g, NEW S, IsFiniteSet(S)
  PROVE  /\ SumFunctionOnSet(g, {}) = 0
         /\ S # {} => \E x \in S :
              SumFunctionOnSet(g, S) = g[x] + SumFunctionOnSet(g, S \ {x})
  <1> DEFINE H(s) == CHOOSE h : Adds(h, g, s)
  <1>1. \A s : SumFunctionOnSet(g, s) = H(s)[s]
    BY DEF SumFunctionOnSet, FoldFunctionOnSet, MapThenFoldSet, Adds, PickFrom
  <1>2. ASSUME NEW s, IsFiniteSet(s) PROVE Adds(H(s), g, s)
    BY <1>2, AddsExist
  <1>3. IsFiniteSet({})
    BY FS_EmptySet
  <1> HIDE DEF H
  <1>4. H({})[{}] = 0
    BY <1>2, <1>3 DEF Adds
  <1>5. ASSUME S # {}
        PROVE  \E x \in S : H(S)[S] = g[x] + H(S \ {x})[S \ {x}]
    <2> DEFINE x == PickFrom(S)
               t == S \ {x}
    <2>1. x \in S
      BY <1>5 DEF PickFrom
    <2>2. IsFiniteSet(t)
      BY FS_Subset
    <2>3. Adds(H(S), g, S) /\ Adds(H(t), g, t)
      BY <1>2, <2>2
    <2>4. H(S)[t] = H(t)[t]
      <3>1. t \in SUBSET (S \cap t)
        OBVIOUS
      <3> HIDE DEF t
      <3> QED BY <2>3, <3>1, AddsAgree
    <2>5. H(S)[S] = g[x] + H(S)[t]
      BY <1>5, <2>3 DEF Adds
    <2> QED BY <2>1, <2>4, <2>5
  <1> QED BY <1>1, <1>4, <1>5

LEMMA SumType ==
  ASSUME NEW S, IsFiniteSet(S), NEW D, S \subseteq D, NEW g \in [D -> Nat]
  PROVE  SumFunctionOnSet(g, S) \in Nat
  <1> DEFINE T == {s \in SUBSET S : SumFunctionOnSet(g, s) \notin Nat}
  <1>1. SUFFICES ASSUME T # {} PROVE FALSE
    OBVIOUS
  <1>2. PICK s \in T : \A t \in T : ~(t \subseteq s /\ t # s)
    <2>1. T \in SUBSET SUBSET S
      OBVIOUS
    <2> HIDE DEF T
    <2> QED BY <1>1, <2>1, LeastSubset
  <1>3. IsFiniteSet(s) /\ s \subseteq D
    BY FS_Subset
  <1>4. s # {}
    BY <1>3, SumUnfolds
  <1>5. PICK x \in s : SumFunctionOnSet(g, s) = g[x] + SumFunctionOnSet(g, s \ {x})
    BY <1>3, <1>4, SumUnfolds
  <1>6. SumFunctionOnSet(g, s \ {x}) \in Nat
    BY <1>2
  <1> QED BY <1>3, <1>5, <1>6

(* In whatever order the elements are taken.                                *)
LEMMA SumRemove ==
  ASSUME NEW S, IsFiniteSet(S), NEW D, S \subseteq D, NEW g \in [D -> Nat]
  PROVE  \A y \in S : SumFunctionOnSet(g, S) = g[y] + SumFunctionOnSet(g, S \ {y})
  <1> DEFINE Sum(s) == SumFunctionOnSet(g, s)
             T == {s \in SUBSET S : \E y \in s : Sum(s) # g[y] + Sum(s \ {y})}
  <1>1. SUFFICES ASSUME T # {} PROVE FALSE
    OBVIOUS
  <1>2. PICK s \in T : \A t \in T : ~(t \subseteq s /\ t # s)
    <2>1. T \in SUBSET SUBSET S
      OBVIOUS
    <2> HIDE DEF T
    <2> QED BY <1>1, <2>1, LeastSubset
  <1>3. PICK y \in s : Sum(s) # g[y] + Sum(s \ {y})
    OBVIOUS
  <1>4. ASSUME NEW t \in SUBSET s
        PROVE  IsFiniteSet(t) /\ t \subseteq D /\ Sum(t) \in Nat
    <2>1. IsFiniteSet(t) /\ t \subseteq D
      <3>1. t \subseteq S
        BY <1>2
      <3> QED BY <3>1, FS_Subset
    <2>2. SumFunctionOnSet(g, t) \in Nat
      <3> HIDE DEF T
      <3> QED BY <2>1, SumType
    <2> QED BY <2>1, <2>2
  <1>5. PICK x \in s : Sum(s) = g[x] + Sum(s \ {x})
    <2>1. IsFiniteSet(s) /\ s # {}
      BY <1>3, <1>4
    <2>2. \E x \in s : SumFunctionOnSet(g, s) = g[x] + SumFunctionOnSet(g, s \ {x})
      BY ONLY <2>1, SumUnfolds
    <2> QED BY <2>2
  <1>6. x # y
    BY <1>3, <1>5
  <1> DEFINE u == s \ {x}
             v == s \ {y}
             w == s \ {x, y}
  <1>7. /\ y \in u /\ u \in SUBSET s /\ u # s /\ u \ {y} = w
        /\ x \in v /\ v \in SUBSET s /\ v # s /\ v \ {x} = w /\ w \in SUBSET s
    BY <1>3, <1>5, <1>6
  <1>8. Sum(u) = g[y] + Sum(w) /\ Sum(v) = g[x] + Sum(w)
    <2>1. u \notin T /\ v \notin T /\ u \in SUBSET S /\ v \in SUBSET S
      BY <1>2, <1>7
    <2> HIDE DEF Sum, u, v, w
    <2> QED BY <1>7, <2>1
  <1>9. g[x] \in Nat /\ g[y] \in Nat /\ Sum(w) \in Nat
    BY <1>4, <1>7
  <1> QED BY <1>3, <1>5, <1>8, <1>9

LEMMA SumAdd ==
  ASSUME NEW D, NEW g \in [D -> Nat], NEW S, IsFiniteSet(S), NEW y \in D,
         S \subseteq D, y \notin S
  PROVE  SumFunctionOnSet(g, S \cup {y}) = SumFunctionOnSet(g, S) + g[y]
  <1> DEFINE U == S \cup {y}
  <1>1. IsFiniteSet(U) /\ U \subseteq D /\ y \in U /\ U \ {y} = S
    BY FS_AddElement
  <1>2. SumFunctionOnSet(g, U) = g[y] + SumFunctionOnSet(g, S)
    <2> HIDE DEF U
    <2> QED BY <1>1, SumRemove
  <1>3. SumFunctionOnSet(g, S) \in Nat /\ g[y] \in Nat
    BY SumType
  <1> QED BY <1>2, <1>3

-----------------------------------------------------------------------------
(* Induction over the natural numbers, without an operator.                 *)
LEMMA LeastNumber ==
  ASSUME NEW T \in SUBSET Nat, T # {}
  PROVE  \E x \in T : \A y \in T : x <= y
  <1>1. IsWellFoundedOn(OpToRel(<, Nat), Nat)
    BY NatLessThanWellFounded
  <1>2. \E x \in T : \A y \in T : <<y, x>> \notin OpToRel(<, Nat)
    <2> DEFINE R == OpToRel(<, Nat)
    <2> HIDE DEF R
    <2>1. IsWellFoundedOn(R, Nat)
      BY <1>1 DEF R
    <2>2. \E x \in T : \A y \in T : <<y, x>> \notin R
      BY <2>1, WFMin
    <2> QED BY <2>2 DEF R
  <1>3. PICK x \in T : \A y \in T : <<y, x>> \notin OpToRel(<, Nat)
    BY <1>2
  <1>4. \A y \in T : ~(y < x)
    BY <1>3 DEF OpToRel
  <1> QED BY <1>4

(* What the definition of Power says, up to n.                              *)
Powers(h, n) == h = [e \in 0..n |-> IF e = 0 THEN 1 ELSE Radix * h[e - 1]]

LEMMA PowersAgree ==
  ASSUME NEW n \in Nat, NEW h, Powers(h, n), NEW m \in Nat, NEW k, Powers(k, m)
  PROVE  \A e \in Nat : e <= n /\ e <= m => h[e] = k[e]
  <1> DEFINE T == {e \in Nat : e <= n /\ e <= m /\ h[e] # k[e]}
  <1>1. SUFFICES ASSUME T # {} PROVE FALSE
    OBVIOUS
  <1>2. PICK e \in T : \A d \in T : e <= d
    <2>1. T \in SUBSET Nat
      OBVIOUS
    <2> HIDE DEF T
    <2> QED BY <1>1, <2>1, LeastNumber
  <1>3. e \in Nat /\ e <= n /\ e <= m /\ h[e] # k[e]
    OBVIOUS
  <1>4. e # 0
    BY <1>3 DEF Powers
  <1>5. h[e] = Radix * h[e - 1] /\ k[e] = Radix * k[e - 1]
    BY <1>3, <1>4 DEF Powers
  <1>6. h[e - 1] = k[e - 1]
    BY <1>2, <1>3, <1>4
  <1> QED BY <1>3, <1>5, <1>6

LEMMA PowersExist == \A n \in Nat : \E h : Powers(h, n)
  <1> DEFINE T == {n \in Nat : ~\E h : Powers(h, n)}
  <1>1. SUFFICES ASSUME T # {} PROVE FALSE
    OBVIOUS
  <1>2. PICK n \in T : \A m \in T : n <= m
    <2>1. T \in SUBSET Nat
      OBVIOUS
    <2> HIDE DEF T
    <2> QED BY <1>1, <2>1, LeastNumber
  <1>3. n \in Nat /\ ~\E h : Powers(h, n)
    OBVIOUS
  <1>4. CASE n = 0
    <2>1. Powers([e \in 0..n |-> 1], n)
      BY <1>4 DEF Powers
    <2> QED BY <1>3, <2>1
  <1>5. CASE n # 0
    <2>1. PICK h : Powers(h, n - 1)
      BY <1>2, <1>3, <1>5
    <2> DEFINE k == [e \in 0..n |-> IF e = n THEN Radix * h[n - 1] ELSE h[e]]
    <2>2. ASSUME NEW e \in 0..n
          PROVE  k[e] = IF e = 0 THEN 1 ELSE Radix * k[e - 1]
      <3>1. CASE e = n
        BY <1>3, <1>5, <3>1
      <3>2. CASE e # n
        <4>1. e \in 0..(n - 1) /\ k[e] = h[e]
          BY <1>3, <3>2
        <4>2. h[e] = IF e = 0 THEN 1 ELSE Radix * h[e - 1]
          BY <2>1, <4>1 DEF Powers
        <4>3. e # 0 => k[e - 1] = h[e - 1]
          BY <1>3, <4>1
        <4> QED BY <4>1, <4>2, <4>3
      <3> QED BY <3>1, <3>2
    <2>3. k = [e \in 0..n |-> IF e = 0 THEN 1 ELSE Radix * k[e - 1]]
      BY <2>2
    <2>4. Powers(k, n)
      BY <2>3 DEF Powers
    <2> QED BY <1>3, <2>4
  <1> QED BY <1>4, <1>5

LEMMA PowerUnfolds ==
  Power = [e \in Nat |-> IF e = 0 THEN 1 ELSE Radix * Power[e - 1]]
  <1> DEFINE H(n) == CHOOSE h : Powers(h, n)
             P == [e \in Nat |-> H(e)[e]]
  <1>1. \A n \in Nat : Powers(H(n), n)
    BY PowersExist
  <1> HIDE DEF H
  <1>2. ASSUME NEW e \in Nat
        PROVE  P[e] = IF e = 0 THEN 1 ELSE Radix * P[e - 1]
    <2>1. P[e] = IF e = 0 THEN 1 ELSE Radix * H(e)[e - 1]
      BY <1>1 DEF Powers
    <2>2. ASSUME e # 0 PROVE H(e)[e - 1] = H(e - 1)[e - 1]
      <3>1. Powers(H(e), e) /\ Powers(H(e - 1), e - 1) /\ e - 1 \in Nat
        BY <1>1, <2>2
      <3> QED BY <3>1, PowersAgree
    <2> QED BY <2>1, <2>2
  <1>3. P = [e \in Nat |-> IF e = 0 THEN 1 ELSE Radix * P[e - 1]]
    BY <1>2
  <1> HIDE DEF P
  <1>4. \E p : p = [e \in Nat |-> IF e = 0 THEN 1 ELSE Radix * p[e - 1]]
    BY <1>3
  <1> QED BY <1>4 DEF Power

LEMMA PowerFacts ==
  /\ Power[0] = 1
  /\ \A e \in Nat : Power[e] \in Nat \ {0} /\ Power[e + 1] = Radix * Power[e]
  <1>1. Power[0] = 1 /\ \A e \in Nat : e # 0 => Power[e] = Radix * Power[e - 1]
    BY PowerUnfolds
  <1>2. \A e \in Nat : Power[e + 1] = Radix * Power[e]
    BY <1>1
  <1> DEFINE T == {e \in Nat : Power[e] \notin Nat \ {0}}
  <1>3. ASSUME T # {} PROVE FALSE
    <2>1. PICK e \in T : \A d \in T : e <= d
      <3>1. T \in SUBSET Nat
        OBVIOUS
      <3> HIDE DEF T
      <3> QED BY <1>3, <3>1, LeastNumber
    <2>2. e \in Nat /\ Power[e] \notin Nat \ {0} /\ e # 0
      BY <1>1
    <2>3. Power[e - 1] \in Nat \ {0}
      BY <2>1, <2>2
    <2>4. Radix * Power[e - 1] \in Nat \ {0}
      BY <2>3, ValueAssumption
    <2> QED BY <1>1, <2>2, <2>4
  <1> QED BY <1>1, <1>2, <1>3

-----------------------------------------------------------------------------
(* The value that is returned.                                              *)

(* What the scan has accumulated is about exactly what it has scanned.      *)
PricesTracked ==
  IF scanned = {} THEN min_p = NoPrice /\ max_p = NoPrice
  ELSE /\ \E k \in scanned : min_p = file.price[k]
       /\ \E k \in scanned : max_p = file.price[k]
       /\ \A k \in scanned : min_p <= file.price[k] /\ file.price[k] <= max_p

AccumulatedInv ==
  /\ scanned \subseteq 0..(file.n - 1)
  /\ pc \in {"start", "end"} => scanned = {}
  /\ pc = "scan" => \A k \in scanned : k < i
  /\ metric = "min_max" => PricesTracked
  /\ metric # "min_max" =>
       sum_q = QuantityIn(scanned) /\ sum_pq = TurnoverIn(scanned)

(* The value to be scaled, and that num / den * 10^exp is that value all    *)
(* along.                                                                   *)
ValueNum == IF metric = "total" THEN sum_q ELSE IF sum_q > 0 THEN sum_pq ELSE 0
ValueDen == IF metric = "mean" /\ sum_q > 0 THEN sum_q * One ELSE One
Up == Power[IF exp < 0 THEN -exp ELSE 0]
Down == Power[IF exp > 0 THEN exp ELSE 0]
SameValue == num * Down * ValueDen = ValueNum * Up * den
Rounded == LET diff == 2 * (mantissa * den - num) IN -den <= diff /\ diff <= den

ScaledInv ==
  /\ metric = "min_max" => step \in {"scan", "returned"}
  /\ step = "scan" => exp = 0
  /\ step = "up" => exp <= 0
  /\ num = 0 => exp = 0
  /\ metric # "min_max" /\ step # "scan" => SameValue
  /\ metric # "min_max" /\ step = "returned" => Rounded

LEMMA InitAccumulated == VInit => AccumulatedInv
  <1> SUFFICES ASSUME VInit PROVE AccumulatedInv
    OBVIOUS
  <1>1. scanned = {} /\ sum_q = 0 /\ sum_pq = 0
    BY DEF VInit, Init
  <1>2. QuantityIn({}) = 0 /\ TurnoverIn({}) = 0
    BY SumUnfolds, FS_EmptySet DEF QuantityIn, TurnoverIn
  <1>3. PricesTracked
    BY <1>1 DEF VInit, PricesTracked
  <1> QED BY <1>1, <1>2, <1>3 DEF VInit, Init, AccumulatedInv

(* The file stays as it is, and so does what is scanned outside the scan.   *)
LEMMA KeepsFile == [VNext]_vvars => file' = file /\ metric' = metric
  BY DEF VNext, vvars, vars, data, Search, SearchStart, StartFound, SearchEnd,
     EndFound, Halve, Throw, Accumulate, Scan, ReturnPrices, Total, Mean, Return,
     ScaleUp, ScaledUp, ScaleDown, ReturnValue

LEMMA KeepsAccumulated ==
  ASSUME AccumulatedInv, UNCHANGED <<file, metric, scanned, sums>>,
         pc' \in {"start", "end"} => pc \in {"start", "end"},
         pc' = "scan" => scanned = {} \/ (pc = "scan" /\ i' = i)
  PROVE  AccumulatedInv'
  <1>1. QuantityIn(scanned)' = QuantityIn(scanned) /\ TurnoverIn(scanned)' = TurnoverIn(scanned)
    BY DEF QuantityIn, TurnoverIn, Turnover
  <1>2. PricesTracked => PricesTracked'
    BY DEF PricesTracked, sums
  <1>3. /\ scanned' \subseteq 0..(file'.n - 1)
        /\ pc' \in {"start", "end"} => scanned' = {}
        /\ pc' = "scan" => \A k \in scanned' : k < i'
    BY DEF AccumulatedInv
  <1>4. metric' = "min_max" => PricesTracked'
    BY <1>2 DEF AccumulatedInv
  <1>5. metric' # "min_max" =>
          sum_q' = QuantityIn(scanned)' /\ sum_pq' = TurnoverIn(scanned)'
    BY <1>1 DEF AccumulatedInv, sums
  <1> QED BY <1>3, <1>4, <1>5 DEF AccumulatedInv

LEMMA ScanAccumulates ==
  ASSUME VTypeOK, AccumulatedInv, Accumulate
  PROVE  AccumulatedInv'
  <1>0. pc = "scan" /\ file' = file /\ metric' = metric
    BY DEF Accumulate, Scan, Throw, data
  <1>1. CASE Throws(i)
    <2>1. UNCHANGED <<file, metric, scanned, sums>> /\ pc' = "thrown"
      BY <1>1 DEF Accumulate, Scan, Throw, data
    <2> QED BY <2>1, KeepsAccumulated
  <1>2. CASE ~Throws(i)
    <2>1. scanned' = scanned \cup {i} /\ i' = i + 1 /\ pc' = "scan"
      BY <1>0, <1>2 DEF Accumulate, Scan
    <2>2. /\ i \in 0..(file.n - 1) /\ scanned \subseteq 0..(file.n - 1)
          /\ file.n \in Nat /\ i \notin scanned
      BY <1>0, <1>2, TypeFacts DEF Throws, VTypeOK, AccumulatedInv, FileType
    <2>3. \A k \in scanned' : k < i'
      BY <1>0, <2>1, <2>2 DEF AccumulatedInv
    <2>4. ASSUME metric = "min_max" PROVE PricesTracked'
      <3>1. Track(file.price[i])
        BY <1>2, <2>4 DEF Accumulate
      <3>2. /\ file.price[i] \in Nat /\ min_p \in Nat /\ max_p \in Nat
            /\ \A k \in scanned : file.price[k] \in Nat
        BY <2>2, TypeFacts DEF VTypeOK, Valued
      <3>3. PricesTracked
        BY <2>4 DEF AccumulatedInv
      <3>4. CASE scanned = {}
        <4>1. min_p' = file.price[i] /\ max_p' = file.price[i] /\ scanned' = {i}
          BY <2>1, <3>1, <3>4 DEF Track
        <4> QED BY <1>0, <3>2, <4>1 DEF PricesTracked
      <3>5. CASE scanned # {}
        <4>1. /\ \E k \in scanned : min_p = file.price[k]
              /\ \E k \in scanned : max_p = file.price[k]
              /\ \A k \in scanned : min_p <= file.price[k] /\ file.price[k] <= max_p
          BY <3>3, <3>5 DEF PricesTracked
        <4>2. /\ min_p' = IF file.price[i] < min_p THEN file.price[i] ELSE min_p
              /\ max_p' = IF file.price[i] > max_p THEN file.price[i] ELSE max_p
          BY <3>1, <3>5 DEF Track
        <4>3. \E k \in scanned' : min_p' = file.price[k]
          BY <2>1, <4>1, <4>2
        <4>4. \E k \in scanned' : max_p' = file.price[k]
          BY <2>1, <4>1, <4>2
        <4>5. ASSUME NEW k \in scanned'
              PROVE  min_p' <= file.price[k] /\ file.price[k] <= max_p'
          <5>1. CASE k = i
            BY <3>2, <4>2, <5>1
          <5>2. CASE k \in scanned
            BY <3>2, <4>1, <4>2, <5>2
          <5> QED BY <2>1, <5>1, <5>2
        <4> QED BY <1>0, <2>1, <4>3, <4>4, <4>5 DEF PricesTracked
      <3> QED BY <3>4, <3>5
    <2>5. ASSUME metric # "min_max"
          PROVE  sum_q' = QuantityIn(scanned)' /\ sum_pq' = TurnoverIn(scanned)'
      <3>1. /\ sum_q' = sum_q + file.quantity[i]
            /\ sum_pq' = sum_pq + Turnover[i]
        BY <1>2, <2>2, <2>5 DEF Accumulate, AddUp, Turnover
      <3>2. sum_q = QuantityIn(scanned) /\ sum_pq = TurnoverIn(scanned)
        BY <2>5 DEF AccumulatedInv
      <3> DEFINE D == 0..(file.n - 1)
      <3>3. file.quantity \in [D -> Nat] /\ Turnover \in [D -> Nat]
        <4>1. file.price \in [D -> Nat] /\ file.quantity \in [D -> Nat]
          BY TypeFacts DEF VTypeOK, Valued
        <4>2. ASSUME NEW k \in D PROVE file.price[k] * file.quantity[k] \in Nat
          <5>1. file.price[k] \in Nat /\ file.quantity[k] \in Nat
            BY <4>1
          <5> QED BY <5>1
        <4>3. Turnover \in [D -> Nat]
          BY <4>2 DEF Turnover
        <4> QED BY <4>1, <4>3
      <3>4. IsFiniteSet(scanned)
        <4>1. IsFiniteSet(D)
          <5>1. 0 \in Int /\ file.n - 1 \in Int
            BY <2>2
          <5> QED BY ONLY <5>1, FS_Interval
        <4>2. scanned \subseteq D
          BY <2>2
        <4> QED BY <4>1, <4>2, FS_Subset
      <3>5. i \in D /\ scanned \subseteq D /\ i \notin scanned
        BY <2>2
      <3> HIDE DEF D
      <3>6. /\ QuantityIn(scanned \cup {i}) = QuantityIn(scanned) + file.quantity[i]
            /\ TurnoverIn(scanned \cup {i}) = TurnoverIn(scanned) + Turnover[i]
        BY <3>3, <3>4, <3>5, SumAdd DEF QuantityIn, TurnoverIn
      <3>7. /\ QuantityIn(scanned)' = QuantityIn(scanned')
            /\ TurnoverIn(scanned)' = TurnoverIn(scanned')
        BY <1>0 DEF QuantityIn, TurnoverIn, Turnover
      <3> QED BY <2>1, <3>1, <3>2, <3>6, <3>7
    <2>6. scanned' \subseteq 0..(file'.n - 1)
      BY <1>0, <2>1, <2>2
    <2> QED BY <1>0, <2>1, <2>3, <2>4, <2>5, <2>6 DEF AccumulatedInv
  <1> QED BY <1>1, <1>2

LEMMA NextAccumulated == VTypeOK /\ AccumulatedInv /\ [VNext]_vvars => AccumulatedInv'
  <1> SUFFICES ASSUME VTypeOK, AccumulatedInv, [VNext]_vvars PROVE AccumulatedInv'
    OBVIOUS
  <1>1. CASE Search
    <2>1. UNCHANGED <<file, metric, scanned, sums>> /\ pc \in {"start", "end"}
      BY <1>1 DEF Search, SearchStart, StartFound, SearchEnd, EndFound, Halve,
         Throw, data
    <2>2. scanned = {}
      BY <2>1 DEF AccumulatedInv
    <2> QED BY <2>1, <2>2, KeepsAccumulated
  <1>2. CASE Accumulate
    BY <1>2, ScanAccumulates
  <1>3. CASE ReturnPrices \/ Total \/ Mean
    <2>1. UNCHANGED <<file, metric, scanned, sums>> /\ pc' = "done"
      BY <1>3 DEF ReturnPrices, Total, Mean, Return, data
    <2> QED BY <2>1, KeepsAccumulated
  <1>4. CASE ScaleUp \/ ScaledUp \/ ScaleDown \/ ReturnValue \/ UNCHANGED vvars
    <2>1. UNCHANGED <<file, metric, scanned, sums, pc, i>>
      BY <1>4 DEF ScaleUp, ScaledUp, ScaleDown, ReturnValue, vvars, sums, vars, data
    <2> QED BY <2>1, KeepsAccumulated
  <1> QED BY <1>1, <1>2, <1>3, <1>4 DEF VNext

-----------------------------------------------------------------------------
(* One step of scaling in either direction, as arithmetic.                  *)
LEMMA TimesRadix ==
  ASSUME NEW a \in Nat, NEW u \in Nat, NEW d \in Nat, NEW n \in Nat,
         NEW v \in Nat, NEW b \in Nat, NEW r \in Nat
  PROVE  /\ a * u * d = n * v * b => (a * r) * u * d = n * (r * v) * b
         /\ a * u * d = n * v * b => a * (r * u) * d = n * v * (b * r)
         /\ a * u * d = n * (r * v) * b => a * u * d = n * v * (b * r)
  <1>1. /\ (a * r) * u * d = r * (a * u * d)
        /\ n * (r * v) * b = r * (n * v * b)
        /\ a * (r * u) * d = r * (a * u * d)
        /\ n * v * (b * r) = r * (n * v * b)
    OBVIOUS
  <1> QED BY <1>1

(* A fraction a / b that equals c / e, rounded to m: m is as near to c / e. *)
LEMMA NearInOtherTerms ==
  ASSUME NEW m \in Nat, NEW a \in Nat, NEW b \in Nat \ {0}, NEW c \in Nat,
         NEW e \in Nat \ {0}, a * e = c * b,
         -b <= 2 * (m * b - a), 2 * (m * b - a) <= b
  PROVE  -e <= 2 * (m * e - c) /\ 2 * (m * e - c) <= e
  <1> DEFINE x == 2 * (m * b - a)
             y == 2 * (m * e - c)
  <1>1. x \in Int /\ y \in Int /\ -b <= x /\ x <= b
    OBVIOUS
  <1>2. b * y = x * e
    <2>1. x * e = 2 * (m * b * e) - 2 * (a * e)
      OBVIOUS
    <2>2. b * y = 2 * (m * b * e) - 2 * (c * b)
      OBVIOUS
    <2> QED BY <2>1, <2>2
  <1> HIDE DEF x, y
  <1>3. x * e <= b * e /\ -(b * e) <= x * e
    <2>1. x * e <= b * e
      BY <1>1
    <2>2. (-b) * e <= x * e
      BY <1>1
    <2>3. (-b) * e = -(b * e)
      OBVIOUS
    <2> QED BY <2>1, <2>2, <2>3
  <1>4. ASSUME y >= e + 1 PROVE FALSE
    <2>1. b * y >= b * (e + 1)
      BY <1>1, <1>4
    <2>2. b * (e + 1) = b * e + b /\ b * e \in Nat
      OBVIOUS
    <2> QED BY <1>1, <1>2, <1>3, <2>1, <2>2
  <1>5. ASSUME y <= -e - 1 PROVE FALSE
    <2>1. b * y <= b * (-e - 1)
      BY <1>1, <1>5
    <2>2. b * (-e - 1) = -(b * e) - b /\ b * e \in Nat
      OBVIOUS
    <2> QED BY <1>1, <1>2, <1>3, <2>1, <2>2
  <1>6. -e <= y /\ y <= e
    BY <1>1, <1>4, <1>5
  <1> QED BY <1>6 DEF y

(* std::round is off by at most a half.                                     *)
LEMMA RoundIsHalfAway ==
  ASSUME NEW a \in Nat, NEW b \in Nat \ {0}
  PROVE  -b <= 2 * (Round(a, b) * b - a) /\ 2 * (Round(a, b) * b - a) <= b
  <1> DEFINE x == 2 * a + b
             y == 2 * b
             q == x \div y
  <1>1. x \in Nat /\ y \in Nat /\ y > 0
    OBVIOUS
  <1> HIDE DEF x, y
  <1>2. q \in Nat /\ y * q <= x /\ x < y * (q + 1)
    BY <1>1
  <1> HIDE DEF q
  <1>3. y * q = 2 * (q * b) /\ y * (q + 1) = 2 * (q * b) + 2 * b /\ q * b \in Nat
    BY <1>2 DEF y
  <1>4. -b <= 2 * (q * b - a) /\ 2 * (q * b - a) <= b
    BY <1>2, <1>3 DEF x
  <1> QED BY <1>4 DEF q, x, y, Round

LEMMA ScaleTypes ==
  ASSUME VTypeOK
  PROVE  /\ num \in Nat /\ den \in Nat \ {0} /\ exp \in Int
         /\ ValueNum \in Nat /\ ValueDen \in Nat \ {0}
         /\ Up \in Nat \ {0} /\ Down \in Nat \ {0}
  <1>1. num \in Nat /\ den \in Nat \ {0} /\ exp \in Int /\ sum_q \in Nat /\ sum_pq \in Nat
    BY DEF VTypeOK
  <1>2. ValueNum \in Nat
    BY <1>1 DEF ValueNum
  <1>3. ValueDen \in Nat \ {0}
    <2>1. One \in Nat \ {0}
      BY ValueAssumption
    <2>2. ASSUME sum_q > 0 PROVE sum_q * One \in Nat \ {0}
      BY <1>1, <2>1, <2>2
    <2> QED BY <2>1, <2>2 DEF ValueDen
  <1>4. Up \in Nat \ {0} /\ Down \in Nat \ {0}
    <2>1. (IF exp < 0 THEN -exp ELSE 0) \in Nat /\ (IF exp > 0 THEN exp ELSE 0) \in Nat
      BY <1>1
    <2> QED BY <2>1, PowerFacts DEF Up, Down
  <1> QED BY <1>1, <1>2, <1>3, <1>4

(* What the scaled value is of does not change while it is scaled.          *)
LEMMA ScaledFrame ==
  ASSUME UNCHANGED <<metric, sums>>
  PROVE  ValueNum' = ValueNum /\ ValueDen' = ValueDen
  BY DEF sums, ValueNum, ValueDen

LEMMA ScaleUpKeepsValue ==
  ASSUME VTypeOK, SameValue, ScaleUp, exp <= 0
  PROVE  SameValue'
  <1>1. num' = num * Radix /\ exp' = exp - 1 /\ den' = den
    BY DEF ScaleUp
  <1>2. ValueNum' = ValueNum /\ ValueDen' = ValueDen
    BY ScaledFrame DEF ScaleUp
  <1>3. Down' = Down /\ Up' = Radix * Up
    <2>1. exp \in Int /\ -exp \in Nat /\ exp' < 0 /\ -exp' = (-exp) + 1
      BY <1>1, ScaleTypes
    <2>2. Up = Power[-exp] /\ Up' = Power[(-exp) + 1]
      BY <2>1 DEF Up
    <2>3. Down = Power[0] /\ Down' = Power[0]
      BY <1>1, <2>1 DEF Down
    <2> HIDE DEF Up, Down
    <2> QED BY <2>1, <2>2, <2>3, PowerFacts
  <1>4. Radix \in Nat
    BY ValueAssumption
  <1> DEFINE u == Down
             v == Up
             n == ValueNum
             d == ValueDen
  <1>5. u \in Nat /\ v \in Nat /\ n \in Nat /\ d \in Nat /\ num \in Nat /\ den \in Nat
    BY ScaleTypes
  <1>6. num * u * d = n * v * den
    BY DEF SameValue
  <1> HIDE DEF u, v, n, d
  <1>7. (num * Radix) * u * d = n * (Radix * v) * den
    BY <1>4, <1>5, <1>6, TimesRadix
  <1>8. num' * Down' * ValueDen' = ValueNum' * Up' * den'
    BY <1>1, <1>2, <1>3, <1>7 DEF u, v, n, d
  <1> QED BY <1>8 DEF SameValue

LEMMA ScaleDownKeepsValue ==
  ASSUME VTypeOK, SameValue, ScaleDown
  PROVE  SameValue'
  <1>1. num' = num /\ exp' = exp + 1 /\ den' = den * Radix
    BY DEF ScaleDown
  <1>2. ValueNum' = ValueNum /\ ValueDen' = ValueDen
    BY ScaledFrame DEF ScaleDown
  <1>3. Radix \in Nat /\ exp \in Int
    BY ValueAssumption, ScaleTypes
  <1>4. CASE exp >= 0
    <2>1. exp \in Nat /\ exp' > 0
      BY <1>1, <1>3, <1>4
    <2>2. Down = Power[exp] /\ Down' = Power[exp + 1]
      BY <1>1, <2>1 DEF Down
    <2>3. Up = Power[0] /\ Up' = Power[0]
      BY <1>1, <2>1 DEF Up
    <2>4. Down' = Radix * Down /\ Up' = Up
      BY <2>1, <2>2, <2>3, PowerFacts
    <2> DEFINE u == Down
               v == Up
               n == ValueNum
               d == ValueDen
    <2>5. u \in Nat /\ v \in Nat /\ n \in Nat /\ d \in Nat /\ num \in Nat /\ den \in Nat
      BY ScaleTypes
    <2>6. num * u * d = n * v * den
      BY DEF SameValue
    <2> HIDE DEF u, v, n, d
    <2>7. num * (Radix * u) * d = n * v * (den * Radix)
      BY <1>3, <2>5, <2>6, TimesRadix
    <2>8. num' * Down' * ValueDen' = ValueNum' * Up' * den'
      BY <1>1, <1>2, <2>4, <2>7 DEF u, v, n, d
    <2> QED BY <2>8 DEF SameValue
  <1>5. CASE exp < 0
    <2>1. -exp' \in Nat /\ (-exp') + 1 = -exp /\ exp' <= 0
      BY <1>1, <1>3, <1>5
    <2>2. Up = Power[(-exp') + 1]
      BY <1>5, <2>1 DEF Up
    <2>3. Up' = Power[-exp']
      BY <1>1, <1>3, <2>1 DEF Up
    <2>4. Down = Power[0] /\ Down' = Power[0]
      BY <1>1, <1>3, <1>5, <2>1 DEF Down
    <2>5. Up = Radix * Up' /\ Down' = Down /\ Up' \in Nat
      BY <2>1, <2>2, <2>3, <2>4, PowerFacts
    <2> DEFINE w == Up'
    <2>6. num * Down * ValueDen = ValueNum * (Radix * w) * den
      BY <2>5 DEF SameValue
    <2>7. w \in Nat
      BY <2>5
    <2> HIDE DEF w
    <2>8. num * Down * ValueDen = ValueNum * w * (den * Radix)
      BY <1>3, <2>6, <2>7, ScaleTypes, TimesRadix
    <2> QED BY <1>1, <1>2, <2>5, <2>8 DEF SameValue, w
  <1> QED BY <1>3, <1>4, <1>5

LEMMA InitScaled == VInit => ScaledInv
  BY DEF VInit, ScaledInv, Functions

LEMMA NextScaled ==
  VTypeOK /\ DigitsInv /\ ScaledInv /\ [VNext]_vvars => ScaledInv'
  <1> SUFFICES ASSUME VTypeOK, DigitsInv, ScaledInv, [VNext]_vvars PROVE ScaledInv'
    OBVIOUS
  <1>0. num \in Nat /\ den \in Nat \ {0} /\ exp \in Int /\ metric \in Functions
    BY DEF VTypeOK
  <1>1. CASE Search \/ Accumulate
    <2>1. step = "scan" /\ UNCHANGED <<metric, step, value>>
      BY <1>1 DEF Search, SearchStart, StartFound, SearchEnd, EndFound,
         Accumulate, Scan, DigitsInv
    <2> QED BY <2>1 DEF value, ScaledInv
  <1>2. CASE ReturnPrices
    <2>1. metric' = "min_max" /\ step' = "returned" /\ exp' = exp /\ step = "scan"
      BY <1>2 DEF ReturnPrices, Return, value, DigitsInv
    <2> QED BY <2>1 DEF ScaledInv
  <1>3. CASE Total \/ Mean
    <2>1. /\ step = "scan" /\ step' = "up" /\ exp' = exp /\ metric' = metric
          /\ UNCHANGED sums /\ metric # "min_max"
      BY <1>3 DEF Total, Mean, Return, DigitsInv
    <2>2. exp = 0
      BY <2>1 DEF ScaledInv
    <2>3. num' = ValueNum /\ den' = ValueDen
      BY <1>3 DEF Total, Mean, ValueNum, ValueDen
    <2>4. ValueNum' = ValueNum /\ ValueDen' = ValueDen
      BY <2>1, ScaledFrame
    <2>5. Up' = 1 /\ Down' = 1
      BY <2>1, <2>2, PowerFacts DEF Up, Down
    <2>6. SameValue'
      BY <2>3, <2>4, <2>5, ScaleTypes DEF SameValue
    <2> QED BY <2>1, <2>2, <2>6 DEF ScaledInv
  <1>4. CASE ScaleUp
    <2>1. /\ step = "up" /\ step' = "up" /\ metric' = metric /\ metric # "min_max"
          /\ num > 0 /\ num' = num * Radix /\ exp <= 0 /\ exp' = exp - 1
      BY <1>4 DEF ScaleUp, Small, ScaledInv
    <2>2. SameValue'
      BY <1>4, <2>1, ScaleUpKeepsValue DEF ScaledInv
    <2>3. num' # 0
      BY <1>0, <2>1, ValueAssumption
    <2> QED BY <1>0, <2>1, <2>2, <2>3 DEF ScaledInv
  <1>5. CASE ScaledUp
    <2>1. /\ step = "up" /\ step' = "down" /\ metric' = metric /\ metric # "min_max"
          /\ UNCHANGED <<num, den, exp, sums>>
      BY <1>5 DEF ScaledUp, value, ScaledInv
    <2>2. SameValue'
      BY <2>1, ScaledFrame DEF ScaledInv, SameValue, Up, Down
    <2> QED BY <2>1, <2>2 DEF ScaledInv
  <1>6. CASE ScaleDown
    <2>1. /\ step = "down" /\ step' = "down" /\ metric' = metric /\ metric # "min_max"
          /\ num' = num
      BY <1>6 DEF ScaleDown, ScaledInv
    <2>2. num # 0
      <3>1. MaxMantissa * den \in Nat
        BY <1>0, ValueAssumption
      <3> QED BY <1>6, <3>1 DEF ScaleDown, Large
    <2>3. SameValue'
      BY <1>6, <2>1, ScaleDownKeepsValue DEF ScaledInv
    <2> QED BY <2>1, <2>2, <2>3 DEF ScaledInv
  <1>7. CASE ReturnValue
    <2>1. /\ step = "down" /\ step' = "returned" /\ metric' = metric
          /\ metric # "min_max" /\ UNCHANGED <<num, den, exp, sums>>
          /\ mantissa' = Round(num, den)
      BY <1>7 DEF ReturnValue, ScaledInv
    <2>2. SameValue'
      BY <2>1, ScaledFrame DEF ScaledInv, SameValue, Up, Down
    <2>3. Rounded'
      BY <1>0, <2>1, RoundIsHalfAway DEF Rounded
    <2> QED BY <2>1, <2>2, <2>3 DEF ScaledInv
  <1>8. CASE UNCHANGED vvars
    <2>1. UNCHANGED <<metric, step, num, den, exp, mantissa, sums>>
      BY <1>8 DEF vvars, sums
    <2>2. SameValue => SameValue'
      BY <2>1, ScaledFrame DEF SameValue, Up, Down
    <2> QED BY <2>1, <2>2 DEF ScaledInv, Rounded
  <1> QED BY <1>1, <1>2, <1>3, <1>4, <1>5, <1>6, <1>7, <1>8 DEF VNext

-----------------------------------------------------------------------------
(* Min and Max of the library are what they are called.                     *)
LEMMA MinMaxIs ==
  ASSUME NEW P \in SUBSET Nat, NEW lo \in P, NEW hi \in P,
         \A p \in P : lo <= p /\ p <= hi
  PROVE  lo = Min(P) /\ hi = Max(P)
  <1>1. Min(P) \in P /\ \A p \in P : Min(P) <= p
    BY DEF Min
  <1>2. Max(P) \in P /\ \A p \in P : Max(P) >= p
    BY DEF Max
  <1>3. Min(P) = lo
    <2>1. Min(P) \in Nat /\ lo \in Nat
      BY <1>1
    <2>2. Min(P) <= lo /\ lo <= Min(P)
      BY <1>1
    <2> QED BY <2>1, <2>2
  <1>4. Max(P) = hi
    <2>1. Max(P) \in Nat /\ hi \in Nat
      BY <1>2
    <2>2. Max(P) >= hi /\ Max(P) <= hi
      BY <1>2
    <2> QED BY <2>1, <2>2
  <1> QED BY <1>3, <1>4

LEMMA ValueIsNearest ==
  ASSUME VTypeOK, SameValue, Rounded
  PROVE  IsNearest(ValueNum, ValueDen)
  <1> DEFINE b == Down * ValueDen
             c == ValueNum * Up
  <1>1. b \in Nat \ {0} /\ c \in Nat
    BY ScaleTypes
  <1>2. mantissa \in Nat /\ num \in Nat /\ den \in Nat \ {0}
    BY ValueAssumption DEF VTypeOK
  <1>3. num * b = c * den
    <2>1. num * b = num * Down * ValueDen
      BY ScaleTypes
    <2> QED BY <2>1 DEF SameValue
  <1>4. -den <= 2 * (mantissa * den - num) /\ 2 * (mantissa * den - num) <= den
    BY DEF Rounded
  <1>5. mantissa * b = mantissa * Down * ValueDen
    BY <1>2, ScaleTypes
  <1> HIDE DEF b, c
  <1>6. -b <= 2 * (mantissa * b - c) /\ 2 * (mantissa * b - c) <= b
    BY <1>1, <1>2, <1>3, <1>4, NearInOtherTerms
  <1>7. /\ -(Down * ValueDen) <= 2 * (mantissa * Down * ValueDen - ValueNum * Up)
        /\ 2 * (mantissa * Down * ValueDen - ValueNum * Up) <= Down * ValueDen
    BY <1>5, <1>6 DEF b, c
  <1> QED BY <1>7 DEF IsNearest, Up, Down

(* What a mean of nothing returns.                                          *)
LEMMA NothingIsZero ==
  ASSUME VTypeOK, ScaledInv, SameValue, Rounded, ValueNum = 0
  PROVE  mantissa = 0 /\ exp = 0
  <1>1. mantissa \in Nat /\ num \in Nat /\ den \in Nat \ {0}
    BY ValueAssumption DEF VTypeOK
  <1>2. num = 0
    <2> DEFINE b == Down * ValueDen
    <2>1. b \in Nat \ {0}
      BY ScaleTypes
    <2>2. num * b = 0
      <3>1. num * b = num * Down * ValueDen /\ ValueNum * Up * den = 0
        BY ScaleTypes
      <3> QED BY <3>1 DEF SameValue
    <2> HIDE DEF b
    <2> QED BY <1>1, <2>1, <2>2
  <1>3. mantissa = 0
    <2>1. 2 * (mantissa * den) <= den
      BY <1>1, <1>2 DEF Rounded
    <2>2. ASSUME mantissa >= 1 PROVE mantissa * den >= den /\ mantissa * den \in Nat
      BY <1>1, <2>2
    <2> QED BY <1>1, <2>1, <2>2
  <1> QED BY <1>2, <1>3 DEF ScaledInv

LEMMA WindowValueHolds ==
  ASSUME VTypeOK, DigitsInv, AccumulatedInv, ScaledInv, ScanIsExact
  PROVE  ReturnsWindowValue
  <1> SUFFICES ASSUME step = "returned", Reaches PROVE IsWindowValue
    BY DEF ReturnsWindowValue
  <1>1. scanned = InWindow
    BY DEF DigitsInv, ScanIsExact
  <1>2. CASE metric = "min_max"
    <2>1. PricesTracked
      BY <1>2 DEF AccumulatedInv
    <2>2. ASSUME InWindow # {}
          PROVE  min_p = Min(PricesIn(InWindow)) /\ max_p = Max(PricesIn(InWindow))
      <3> DEFINE P == PricesIn(scanned)
      <3>1. \A k \in scanned : file.price[k] \in Nat
        BY TypeFacts DEF VTypeOK, Valued, AccumulatedInv
      <3>2. P \in SUBSET Nat
        BY <3>1 DEF PricesIn
      <3>3. min_p \in P /\ max_p \in P /\ \A p \in P : min_p <= p /\ p <= max_p
        BY <1>1, <2>1, <2>2 DEF PricesTracked, PricesIn
      <3> HIDE DEF P
      <3>4. min_p = Min(P) /\ max_p = Max(P)
        BY <3>2, <3>3, MinMaxIs
      <3> QED BY <1>1, <3>4 DEF P
    <2>3. InWindow = {} => min_p = NoPrice /\ max_p = NoPrice
      BY <1>1, <2>1 DEF PricesTracked
    <2> QED BY <1>2, <2>2, <2>3 DEF IsWindowValue
  <1>3. CASE metric # "min_max"
    <2>1. sum_q = QuantityIn(InWindow) /\ sum_pq = TurnoverIn(InWindow)
      BY <1>1, <1>3 DEF AccumulatedInv
    <2>2. SameValue /\ Rounded /\ sum_q \in Nat
      BY <1>3 DEF ScaledInv, VTypeOK
    <2>3. IsNearest(ValueNum, ValueDen)
      BY <2>2, ValueIsNearest
    <2>4. CASE metric = "total"
      <3>1. ValueNum = QuantityIn(InWindow) /\ ValueDen = One
        BY <2>1, <2>4 DEF ValueNum, ValueDen
      <3> QED BY <2>3, <2>4, <3>1 DEF IsWindowValue
    <2>5. CASE metric = "mean" /\ sum_q = 0
      <3>1. mantissa = 0 /\ exp = 0
        BY <2>2, <2>5, NothingIsZero DEF ValueNum
      <3> QED BY <2>1, <2>5, <3>1 DEF IsWindowValue
    <2>6. CASE metric = "mean" /\ sum_q # 0
      <3>1. /\ ValueNum = TurnoverIn(InWindow)
            /\ ValueDen = QuantityIn(InWindow) * One
        BY <2>1, <2>2, <2>6 DEF ValueNum, ValueDen
      <3> QED BY <2>1, <2>3, <2>6, <3>1 DEF IsWindowValue
    <2>7. metric = "total" \/ metric = "mean"
      BY <1>3 DEF VTypeOK, Functions
    <2> QED BY <2>4, <2>5, <2>6, <2>7
  <1> QED BY <1>2, <1>3

(* For every sorted file of 1 to 30 records and every window that reaches   *)
(* into its time, radix, limit and unit: the three functions return the     *)
(* least and the greatest price, the sum or the weighted mean of exactly    *)
(* the window's trades, off by at most half a unit of the last digit        *)
(* (query_engine.cc:95-321).                                                *)
THEOREM ValueIsTheWindows == VSpec => [](WellFormed(file) => ReturnsWindowValue)
  <1>1. VInit => DigitsInv
    BY DEF VInit, DigitsInv, KeepsDigits
  <1>2. VSpec => [](DigitsInv /\ AccumulatedInv /\ ScaledInv)
    BY <1>1, InitAccumulated, InitScaled, NextDigitsInv, NextAccumulated,
       NextScaled, ValueFits, PTL DEF VSpec
  <1>3. VTypeOK /\ DigitsInv /\ AccumulatedInv /\ ScaledInv
          /\ (WellFormed(file) => ScanIsExact) => (WellFormed(file) => ReturnsWindowValue)
    BY WindowValueHolds
  <1> QED BY <1>2, <1>3, ValueFits, ValueScansExactly, PTL
=============================================================================
