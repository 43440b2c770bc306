----------------------------- MODULE RangeScan -----------------------------
(***************************************************************************)
(* One range function of Query_engine (min_max_price_in_range; the other   *)
(* two search the same way): two binary searches over the trade file for   *)
(* the first and the last trade of a window, and a scan between them.      *)
(* What is computed from the scanned trades is left out; which trades are  *)
(* scanned is what the results depend on.                                  *)
(***************************************************************************)
EXTENDS Integers, FiniteSets

CONSTANTS
  Modulus,          (* 2^64: indices and sizes are 0 .. Modulus - 1         *)
  Files,            (* the trade files to consider                          *)
  Starts, Ends      (* the windows' ends to consider                        *)

(* A file of n records; at[k] is created_at of the k-th.                    *)
FileType(f) == f.n \in Nat /\ f.at \in [0..(f.n - 1) -> Nat]

ASSUME ScanAssumption ==
  /\ Modulus \in Nat \ {0}
  /\ \A f \in Files : FileType(f) /\ 2 * f.n < Modulus
  /\ Starts \subseteq Nat /\ Ends \subseteq Nat

RecordBytes == 32   (* sizeof(TradeData)                                    *)

VARIABLES
  file,             (* the file the engine has open                         *)
  trades_size,      (* what the constructor made of its size                *)
  start_time, end_time,
  pc,               (* search for the start, for the end, scan, done; or    *)
                    (* thrown: read_trade_data has failed                   *)
  left, right,      (* of the search that runs                              *)
  start_idx, end_idx,
  i,                (* of the scan                                          *)
  scanned           (* the records the scan has used                        *)

data == <<file, trades_size, start_time, end_time>>
vars == <<data, pc, left, right, start_idx, end_idx, i, scanned>>

(* Mutation of TradesSize: rounded up.                                      *)
MutTradesSizeUp(f) == (f.n * RecordBytes + 30) \div 31

(* The constructor divides by 31.                                           *)
TradesSize(f) == (f.n * RecordBytes) \div 31

Init ==
  /\ file \in Files /\ trades_size = TradesSize(file)
  /\ start_time \in Starts /\ end_time \in Ends
  /\ end_time > start_time           (* asserted on entry                   *)
  /\ pc = "start"
  /\ left = 0 /\ right = (trades_size - 1) % Modulus
  /\ start_idx = 0 /\ end_idx = 0 /\ i = 0 /\ scanned = {}

(* read_trade_data throws when the record is not in the file.               *)
Throws(k) == k \notin 0..(file.n - 1)
Throw == /\ pc' = "thrown"
         /\ UNCHANGED <<data, left, right, start_idx, end_idx, i, scanned>>

Mid == left + ((right - left) \div 2)

(* Mutation of Halve: left = mid.                                           *)
MutHalveStays(bound) ==
  /\ IF file.at[Mid] < bound
       THEN left' = Mid /\ UNCHANGED right
       ELSE right' = Mid /\ UNCHANGED left
  /\ UNCHANGED <<data, pc, start_idx, end_idx, i, scanned>>

(* One turn of a search for the first trade at or after bound.              *)
Halve(bound) ==
  /\ IF file.at[Mid] < bound
       THEN left' = Mid + 1 /\ UNCHANGED right
       ELSE right' = Mid /\ UNCHANGED left
  /\ UNCHANGED <<data, pc, start_idx, end_idx, i, scanned>>

(* 1) the first trade at or after start_time, among all but the last.       *)
SearchStart ==
  /\ pc = "start" /\ left < right
  /\ IF Throws(Mid) THEN Throw ELSE Halve(start_time)

StartFound ==
  /\ pc = "start" /\ ~(left < right)
  /\ start_idx' = left
  /\ right' = trades_size
  /\ pc' = "end"
  /\ UNCHANGED <<data, left, end_idx, i, scanned>>

(* 2) the first trade at or after end_time, and back up one.                *)
SearchEnd ==
  /\ pc = "end" /\ left < right
  /\ IF Throws(Mid) THEN Throw ELSE Halve(end_time)

(* Mutation of EndFound: no step back.                                      *)
MutEndNotBackedUp ==
  /\ pc = "end" /\ ~(left < right)
  /\ end_idx' = right
  /\ i' = start_idx
  /\ pc' = "scan"
  /\ UNCHANGED <<data, left, right, start_idx, scanned>>

(* Mutation of EndFound: the test for right = 0 dropped.                    *)
MutEndUnguarded ==
  /\ pc = "end" /\ ~(left < right)
  /\ end_idx' = right - 1
  /\ i' = start_idx
  /\ pc' = "scan"
  /\ UNCHANGED <<data, left, right, start_idx, scanned>>

EndFound ==
  /\ pc = "end" /\ ~(left < right)
  /\ end_idx' = IF right = 0 THEN 0 ELSE right - 1
  /\ i' = start_idx
  /\ pc' = "scan"
  /\ UNCHANGED <<data, left, right, start_idx, scanned>>

(* 3) every record from start_idx to end_idx, both included.                *)
Scan ==
  /\ pc = "scan" /\ i <= end_idx
  /\ IF Throws(i) THEN Throw
     ELSE /\ scanned' = scanned \cup {i}
          /\ i' = i + 1
          /\ UNCHANGED <<data, pc, left, right, start_idx, end_idx>>

Return ==
  /\ pc = "scan" /\ ~(i <= end_idx)
  /\ pc' = "done"
  /\ UNCHANGED <<data, left, right, start_idx, end_idx, i, scanned>>

Next == SearchStart \/ StartFound \/ SearchEnd \/ EndFound \/ Scan \/ Return

Spec == Init /\ [][Next]_vars

-----------------------------------------------------------------------------
(* Properties.                                                              *)

(* What the searches need: records in time order, and few enough for the    *)
(* constructor's division to count them.                                    *)
Sorted(f) == \A j, k \in 0..(f.n - 1) : j <= k => f.at[j] <= f.at[k]
WellFormed(f) == f.n \in 1..30 /\ Sorted(f)

TypeOK ==
  /\ file \in Files /\ start_time \in Starts /\ end_time \in Ends
  /\ trades_size \in Nat
  /\ pc \in {"start", "end", "scan", "done", "thrown"}
  /\ left \in Nat /\ right \in Nat
  /\ start_idx \in Nat /\ end_idx \in Nat /\ i \in Nat
  /\ scanned \subseteq Nat

(* The trades of the window, start inclusive and end exclusive.             *)
InWindow == {k \in 0..(file.n - 1) :
               start_time <= file.at[k] /\ file.at[k] < end_time}

(* No read is outside the file (an exception would end the server): the     *)
(* indices come from trades_size, "The number of trades in the loaded data  *)
(* file" (query_engine.h:54).                                               *)
ReadsInBounds == pc # "thrown"

(* A window that reaches into the time covered by the file is scanned       *)
(* exactly: all its trades and no other, also when there is none in it.     *)
Reaches == file.at[0] < end_time /\ start_time <= file.at[file.n - 1]
ScanIsExact == pc = "done" /\ Reaches => scanned = InWindow
=============================================================================
