---------------------------- MODULE MetricValue ----------------------------
(***************************************************************************)
(* A whole range function of Query_engine: the searches and the scan of    *)
(* RangeScan, what the scan accumulates for each of the three metrics, and *)
(* the loops that turn a sum or a mean into a mantissa of 32 bits and a    *)
(* decimal exponent.  The doubles are exact fractions num / den here, so   *)
(* rounding happens once, where the code calls std::round.                 *)
(***************************************************************************)
EXTENDS RangeScan, FiniteSetsExt

CONSTANTS
  Radix,            (* 10.0                                                 *)
  ScaleUpTo,        (* 1000000000.0: a smaller value is scaled up           *)
  MaxMantissa,      (* std::numeric_limits<uint32_t>::max()                 *)
  MinExponent,      (* 18: the exponent is not taken below -18              *)
  One               (* how many of the units of prices and quantities are 1 *)

(* price[k] and quantity[k] of the k-th record, in units of 1 / One.        *)
Valued(f) == f.price \in [0..(f.n - 1) -> Nat] /\ f.quantity \in [0..(f.n - 1) -> Nat]

ASSUME ValueAssumption ==
  /\ \A f \in Files : Valued(f)
  /\ Radix \in Nat /\ Radix > 1 /\ ScaleUpTo \in Nat /\ MinExponent \in Nat
  /\ MaxMantissa \in Nat \ {0} /\ One \in Nat \ {0}

VARIABLES
  metric,           (* which function it is: a member of Functions          *)
  sum_q, sum_pq,    (* total_val or sum_q, and sum_pq                       *)
  min_p, max_p,     (* of min_max_price_in_range; NoPrice: Price{}          *)
  step,             (* scanning, scaling up, scaling down, returned         *)
  num, den,         (* the value that is scaled                             *)
  exp,              (* its decimal exponent                                 *)
  mantissa

vvars == <<vars, metric, sum_q, sum_pq, min_p, max_p, step, num, den, exp, mantissa>>
sums  == <<sum_q, sum_pq, min_p, max_p>>
value == <<num, den, exp, mantissa>>

Functions == {"min_max", "mean", "total"}
NoPrice == 0

VInit ==
  /\ Init
  /\ metric \in Functions /\ step = "scan"
  /\ sum_q = 0 /\ sum_pq = 0 /\ min_p = NoPrice /\ max_p = NoPrice
  /\ num = 0 /\ den = 1 /\ exp = 0 /\ mantissa = 0

(* The two searches, before anything is accumulated.                        *)
Search == /\ SearchStart \/ StartFound \/ SearchEnd \/ EndFound
          /\ UNCHANGED <<metric, sums, step, value>>

(* Mutation of Track: without first, so that 0 is the least price.          *)
MutTrackFromZero(p) ==
  /\ min_p' = IF p < min_p THEN p ELSE min_p
  /\ max_p' = IF p > max_p THEN p ELSE max_p

(* min_max_price_in_range.                                                  *)
Track(p) ==
  /\ min_p' = IF scanned = {} \/ p < min_p THEN p ELSE min_p
  /\ max_p' = IF scanned = {} \/ p > max_p THEN p ELSE max_p

(* mean_price_in_range; total_quantity_in_range needs sum_q only.           *)
AddUp(p, q) == sum_q' = sum_q + q /\ sum_pq' = sum_pq + p * q

Accumulate ==
  /\ Scan
  /\ IF Throws(i) THEN UNCHANGED sums
     ELSE IF metric = "min_max"
       THEN Track(file.price[i]) /\ UNCHANGED <<sum_q, sum_pq>>
       ELSE AddUp(file.price[i], file.quantity[i]) /\ UNCHANGED <<min_p, max_p>>
  /\ UNCHANGED <<metric, step, value>>

(* min_p and max_p are returned as they are in the file.                    *)
ReturnPrices ==
  /\ metric = "min_max" /\ Return /\ step' = "returned"
  /\ UNCHANGED <<metric, sums, value>>

(* total_val                                                                *)
Total ==
  /\ metric = "total" /\ Return /\ step' = "up"
  /\ num' = sum_q /\ den' = One
  /\ UNCHANGED <<metric, sums, exp, mantissa>>

(* mean_val, 0 when nothing was traded                                      *)
Mean ==
  /\ metric = "mean" /\ Return /\ step' = "up"
  /\ num' = IF sum_q > 0 THEN sum_pq ELSE 0
  /\ den' = IF sum_q > 0 THEN sum_q * One ELSE One
  /\ UNCHANGED <<metric, sums, exp, mantissa>>

Small == num > 0 /\ num < ScaleUpTo * den /\ exp > -MinExponent
Large == num > MaxMantissa * den

(* A small value is scaled up to keep its digits, a large one down to fit.  *)
ScaleUp ==
  /\ step = "up" /\ Small
  /\ num' = num * Radix /\ exp' = exp - 1
  /\ UNCHANGED <<vars, metric, sums, step, den, mantissa>>

ScaledUp ==
  /\ step = "up" /\ ~Small /\ step' = "down"
  /\ UNCHANGED <<vars, metric, sums, value>>

(* Mutation of ScaleDown: by a hundred.                                     *)
MutScaleDownTwice ==
  /\ step = "down" /\ Large
  /\ den' = den * Radix * Radix /\ exp' = exp + 2
  /\ UNCHANGED <<vars, metric, sums, step, num, mantissa>>

ScaleDown ==
  /\ step = "down" /\ Large
  /\ den' = den * Radix /\ exp' = exp + 1
  /\ UNCHANGED <<vars, metric, sums, step, num, mantissa>>

(* std::round of a / b                                                      *)
Round(a, b) == (2 * a + b) \div (2 * b)

ReturnValue ==
  /\ step = "down" /\ ~Large /\ step' = "returned"
  /\ mantissa' = Round(num, den)
  /\ UNCHANGED <<vars, metric, sums, num, den, exp>>

VNext == \/ Search \/ Accumulate \/ ReturnPrices \/ Total \/ Mean
         \/ ScaleUp \/ ScaledUp \/ ScaleDown \/ ReturnValue

VSpec == VInit /\ [][VNext]_vvars
FairVSpec == VSpec /\ WF_vvars(VNext)

-----------------------------------------------------------------------------
(* Properties.                                                              *)

(* The cast to uint32_t is defined: what is rounded fits, and so does what  *)
(* rounding makes of it.                                                    *)
VTypeOK ==
  /\ TypeOK
  /\ metric \in Functions /\ step \in {"scan", "up", "down", "returned"}
  /\ sum_q \in Nat /\ sum_pq \in Nat /\ min_p \in Nat /\ max_p \in Nat
  /\ num \in Nat /\ den \in Nat \ {0}
  /\ exp \in Int /\ exp >= -MinExponent
  /\ mantissa \in 0..MaxMantissa

(* Scaling up overshoots the mantissa and scaling down takes it back        *)
(* ("to preserve precision", query_engine.cc:234, 308): what is returned    *)
(* has all the digits that fit, unless the exponent is as low as it goes.   *)
KeepsDigits ==
  step = "returned" /\ num > 0 =>
    \/ mantissa >= ScaleUpTo \/ Radix * mantissa >= MaxMantissa - Radix
    \/ exp = -MinExponent

(* A window that reaches into the file's time gets its value: the smallest  *)
(* and the largest price, or the sum, or the weighted mean of exactly its   *)
(* trades, off by at most half a unit of the last digit.                    *)
Power[e \in Nat] == IF e = 0 THEN 1 ELSE Radix * Power[e - 1]
IsNearest(n, d) ==   (* 2 |mantissa * 10^exp - n / d| <= 10^exp             *)
  LET up == Power[IF exp < 0 THEN -exp ELSE 0]
      down == Power[IF exp > 0 THEN exp ELSE 0]
      diff == 2 * (mantissa * down * d - n * up)
  IN  -(down * d) <= diff /\ diff <= down * d
PricesIn(S) == {file.price[k] : k \in S}
Turnover == [k \in 0..(file.n - 1) |-> file.price[k] * file.quantity[k]]
QuantityIn(S) == SumFunctionOnSet(file.quantity, S)
TurnoverIn(S) == SumFunctionOnSet(Turnover, S)
IsWindowValue ==
  CASE metric = "min_max" ->
         IF InWindow = {} THEN min_p = NoPrice /\ max_p = NoPrice
         ELSE min_p = Min(PricesIn(InWindow)) /\ max_p = Max(PricesIn(InWindow))
    [] metric = "total" -> IsNearest(QuantityIn(InWindow), One)
    [] metric = "mean" ->
         LET q == QuantityIn(InWindow)
         IN  IF q = 0 THEN mantissa = 0 /\ exp = 0
             ELSE IsNearest(TurnoverIn(InWindow), q * One)
ReturnsWindowValue == step = "returned" /\ Reaches => IsWindowValue

(* The function returns, or a read has failed: neither search, nor the      *)
(* scan, nor the scaling goes on for ever.                                  *)
Answers == <>(step = "returned" \/ pc = "thrown")
=============================================================================
