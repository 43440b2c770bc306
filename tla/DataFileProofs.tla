--------------------------- MODULE DataFileProofs ---------------------------
(***************************************************************************)
(* Proofs about DataFile, for any workers, any CSVs and any number of      *)
(* conversions: what is in the file at any moment, what the exit status    *)
(* says of it, and which engines can read beyond it.                       *)
(***************************************************************************)
EXTENDS DataFile, TLAPS

LEMMA AppendFacts ==
  ASSUME NEW S, NEW s \in Seq(S), NEW r \in S
  PROVE  /\ Append(s, r) \in Seq(S) /\ Len(Append(s, r)) = Len(s) + 1
         /\ \A i \in 1..Len(s) : Append(s, r)[i] = s[i]
         /\ Append(s, r)[Len(s) + 1] = r
  OBVIOUS

(* The lines of a CSV, or of none.                                          *)
LEMMA CsvLines ==
  ASSUME NEW lines \in Csvs \cup {<<>>}
  PROVE  /\ lines \in Seq(LineKinds) /\ Len(lines) \in Nat
         /\ \A i \in 1..Len(lines) : lines[i] \in LineKinds
  <1>1. CASE lines \in Csvs
    BY <1>1, DataAssumption DEF DataAssumption, CsvType
  <1>2. CASE lines = <<>>
    BY <1>2
  <1> QED BY <1>1, <1>2

-----------------------------------------------------------------------------
(* The inductive invariant: the writer's part.                              *)
Begun == pc # "none" => version >= 1
Fresh == pc = "open" => line = 1 /\ disk = <<>>
NoneBad == \A i \in 1..(line - 1) : csv[i] # "malformed"
AtEnd == pc = "none" /\ status = "ok" => line = Len(csv) + 1
WriterInv == Begun /\ Fresh /\ FileIsPrefix /\ NoneBad /\ AtEnd

(* ... and the readers': an engine that is not exposed has counted no more  *)
(* trades than there are. The count is taken from the file of its time, and *)
(* until the next conversion that file only grows.                          *)
Counted(e) ==
  engine[e] \in {"idle", "query"} =>
    /\ opened[e] <= version
    /\ opened[e] = version /\ trades_size[e] <= CountedRight
         => trades_size[e] <= Len(disk)
Since(e) ==
  engine[e] = "query" => began[e] <= version /\ seen[e] \subseteq began[e]..version
ReaderInv == \A e \in Engines : Counted(e) /\ Since(e)

IInv == TypeOK /\ WriterInv /\ ReaderInv

(* No worker has an engine: before the server starts, and after it ended.   *)
LEMMA NoEngines ==
  /\ [e \in Engines |-> "none"] \in [Engines -> {"none", "closed", "idle", "query"}]
  /\ [e \in Engines |-> 0] \in [Engines -> Nat]
  /\ [e \in Engines |-> 0] \in [Engines -> 0..MaxVersion]
  /\ [e \in Engines |-> {}] \in [Engines -> SUBSET (1..MaxVersion)]
  <1>1. 0 \in 0..MaxVersion
    BY DataAssumption DEF DataAssumption
  <1> QED BY <1>1

LEMMA InitIInv == Init => IInv
  <1> SUFFICES ASSUME Init PROVE IInv
    OBVIOUS
  <1>1. TypeOK
    <2>1. version \in 0..MaxVersion
      BY DataAssumption DEF Init, DataAssumption
    <2>2. /\ engine \in [Engines -> {"none", "closed", "idle", "query"}]
          /\ trades_size \in [Engines -> Nat]
          /\ opened \in [Engines -> 0..MaxVersion]
          /\ began \in [Engines -> 0..MaxVersion]
          /\ seen \in [Engines -> SUBSET (1..MaxVersion)]
      BY NoEngines DEF Init
    <2>3. csv \in Csvs \cup {<<>>} /\ line \in Nat \ {0} /\ line <= Len(csv) + 1
      BY DEF Init
    <2>4. /\ pc = "none" /\ status = "ok" /\ good = TRUE /\ exists = FALSE
          /\ up = FALSE /\ disk \in Seq(Record)
      BY DEF Init
    <2> QED BY <2>1, <2>2, <2>3, <2>4 DEF TypeOK
  <1>2. WriterInv
    <2>1. \E n \in 1..line :
            {disk[k].line : k \in 1..Len(disk)} = TradesBefore(n) /\ n = line
      BY DEF Init, TradesBefore
    <2>2. FileIsPrefix
      BY <2>1 DEF Init, FileIsPrefix
    <2> QED BY <2>2 DEF Init, WriterInv, Begun, Fresh, NoneBad, AtEnd
  <1>3. ReaderInv
    BY DEF Init, ReaderInv, Counted, Since
  <1> QED BY <1>1, <1>2, <1>3 DEF IInv

-----------------------------------------------------------------------------
(* The writer's steps.                                                      *)
LEMMA Facts ==
  ASSUME TypeOK
  PROVE  /\ line \in Nat \ {0} /\ version \in Nat /\ version <= MaxVersion
         /\ MaxVersion \in Nat
         /\ disk \in Seq(Record) /\ Len(disk) \in Nat
         /\ Len(csv) \in Nat /\ line <= Len(csv) + 1
         /\ \A k \in 1..Len(disk) :
              disk[k] \in Record /\ disk[k].version \in Nat /\ disk[k].line \in Nat
  <1>1. csv \in Csvs \cup {<<>>} /\ disk \in Seq(Record)
    BY DEF TypeOK
  <1>2. Len(csv) \in Nat
    BY <1>1, CsvLines
  <1>3. \A k \in 1..Len(disk) : disk[k] \in Record
    BY <1>1
  <1>4. \A r \in Record : r.version \in Nat /\ r.line \in Nat
    BY DataAssumption DEF Record, DataAssumption
  <1> QED BY <1>1, <1>2, <1>3, <1>4, DataAssumption DEF TypeOK, DataAssumption

LEMMA TruncateKeeps ==
  ASSUME IInv, Truncate
  PROVE  IInv'
  <1> USE DEF Truncate
  <1>1. TypeOK /\ version \in Nat
    BY Facts DEF IInv
  <1>2. TypeOK'
    BY <1>1, DataAssumption DEF TypeOK, readers, DataAssumption
  <1>3. FileIsPrefix'
    <2>1. TradesBefore(1)' = {}
      BY DEF TradesBefore
    <2>2. {disk'[k].line : k \in 1..Len(disk')} = {}
      OBVIOUS
    <2>3. 1 \in 1..line'
      OBVIOUS
    <2> QED BY <2>1, <2>2, <2>3 DEF FileIsPrefix
  <1>4. WriterInv'
    BY <1>1, <1>3 DEF WriterInv, Begun, Fresh, NoneBad, AtEnd
  <1>5. ReaderInv'
    <2> SUFFICES ASSUME NEW e \in Engines PROVE Counted(e)' /\ Since(e)'
      BY DEF ReaderInv
    <2>1. Counted(e) /\ Since(e) /\ opened[e] \in Nat /\ began[e] \in Nat
      BY DEF IInv, ReaderInv, TypeOK
    <2>2. Counted(e)'
      BY <1>1, <2>1 DEF Counted, readers
    <2>3. Since(e)'
      BY <1>1, <2>1 DEF Since, readers
    <2> QED BY <2>2, <2>3
  <1> QED BY <1>2, <1>4, <1>5 DEF IInv

(* Between two conversions the readers see a file that grows.               *)
LEMMA GrowthKeepsReaders ==
  ASSUME IInv, UNCHANGED <<version, readers>>,
         Len(disk') \in Nat, Len(disk') >= Len(disk)
  PROVE  ReaderInv'
  <1> SUFFICES ASSUME NEW e \in Engines PROVE Counted(e)' /\ Since(e)'
    BY DEF ReaderInv
  <1>1. Counted(e) /\ Since(e) /\ trades_size[e] \in Nat
    BY DEF IInv, ReaderInv, TypeOK
  <1>2. Len(disk) \in Nat
    BY Facts DEF IInv
  <1> QED BY <1>1, <1>2 DEF Counted, Since, readers

(* The ends of process_data leave the file as it is.                        *)
LEMMA EndsKeep ==
  ASSUME IInv, NoOutput \/ NoCsv \/ BadLine \/ Converted \/ Interrupt
  PROVE  IInv'
  <1>1. /\ UNCHANGED <<csv, line, good, version, exists, disk, readers>>
        /\ pc' = "none" /\ status' \in {"ok", "nocsv", "failed"}
        /\ status' = "ok" => line > Len(csv)
    BY DEF NoOutput, NoCsv, BadLine, Converted, Interrupt, Exit
  <1>2. TypeOK'
    BY <1>1 DEF IInv, TypeOK, readers
  <1>3. FileIsPrefix'
    BY <1>1 DEF IInv, WriterInv, FileIsPrefix, TradesBefore
  <1>4. AtEnd'
    BY <1>1, Facts DEF IInv, AtEnd
  <1>5. WriterInv'
    BY <1>1, <1>3, <1>4 DEF IInv, WriterInv, Begun, Fresh, NoneBad
  <1>6. ReaderInv'
    BY <1>1, Facts, GrowthKeepsReaders DEF IInv
  <1> QED BY <1>2, <1>5, <1>6 DEF IInv

LEMMA SkipHeaderKeeps ==
  ASSUME IInv, SkipHeader
  PROVE  IInv'
  <1> USE DEF SkipHeader
  <1>1. line = 1 /\ disk = <<>> /\ version >= 1
    BY DEF IInv, WriterInv, Fresh, Begun
  <1>2. csv' \in Csvs /\ Len(csv') \in Nat
    BY CsvLines
  <1>3. TypeOK'
    BY <1>1, <1>2 DEF IInv, TypeOK, readers
  <1>4. FileIsPrefix'
    <2>1. TradesBefore(1)' = {} /\ {disk'[k].line : k \in 1..Len(disk')} = {}
      BY <1>1 DEF TradesBefore
    <2> QED BY <1>1, <2>1 DEF FileIsPrefix
  <1>5. WriterInv'
    BY <1>1, <1>4 DEF WriterInv, Begun, Fresh, NoneBad, AtEnd
  <1>6. ReaderInv'
    BY Facts, GrowthKeepsReaders DEF IInv
  <1> QED BY <1>3, <1>5, <1>6 DEF IInv

(* One more line read: the trades before it are those before, and itself.   *)
LEMMA TradesGrow ==
  ASSUME TypeOK
  PROVE  TradesBefore(line + 1)
           = TradesBefore(line) \cup (IF csv[line] = "trade" THEN {line} ELSE {})
  <1>1. line \in Nat \ {0}
    BY Facts
  <1>2. 1..(line + 1 - 1) = (1..(line - 1)) \cup {line}
    BY <1>1
  <1> QED BY <1>2 DEF TradesBefore

(* ConvertLine when a trade is written.                                     *)
LEMMA WrittenKeepsPrefix ==
  ASSUME IInv, ConvertLine, csv[line] = "trade", good
  PROVE  /\ disk' \in Seq(Record) /\ Len(disk') = Len(disk) + 1
         /\ FileIsPrefix'
  <1> DEFINE r == [version |-> version, line |-> line]
  <1>1. TypeOK /\ FileIsPrefix /\ version \in Nat /\ version >= 1
    BY Facts DEF IInv, WriterInv, Begun, ConvertLine
  <1>2. r \in Record
    BY <1>1, Facts DEF Record
  <1>3. disk' = Append(disk, r) /\ line' = line + 1
        /\ UNCHANGED <<csv, good, version>>
    BY DEF ConvertLine
  <1>4. /\ disk' \in Seq(Record) /\ Len(disk') = Len(disk) + 1
        /\ \A k \in 1..Len(disk) : disk'[k] = disk[k]
        /\ disk'[Len(disk) + 1] = r
    BY <1>1, <1>2, <1>3, Facts, AppendFacts
  <1> HIDE DEF r
  <1>5. r.version = version /\ r.line = line
    BY DEF r
  <1>6. 1..Len(disk') = (1..Len(disk)) \cup {Len(disk) + 1}
    BY <1>1, <1>4, Facts
  <1>7. {disk[k].line : k \in 1..Len(disk)} = TradesBefore(line)
    BY <1>1 DEF FileIsPrefix
  <1>8. \A k \in 1..Len(disk) : disk[k].line < line
    <2> TAKE k \in 1..Len(disk)
    <2>1. disk[k].line \in TradesBefore(line)
      BY <1>7
    <2> QED BY <2>1, <1>1, Facts DEF TradesBefore
  <1>9. \A k \in 1..Len(disk') : disk'[k].version = version
    BY <1>1, <1>4, <1>5, <1>6 DEF FileIsPrefix
  <1>10. \A k, l \in 1..Len(disk') : k < l => disk'[k].line < disk'[l].line
    <2> TAKE k, l \in 1..Len(disk')
    <2> HAVE k < l
    <2>1. k \in 1..Len(disk)
      BY <1>1, <1>4, Facts
    <2>2. CASE l \in 1..Len(disk)
      BY <1>1, <1>4, <2>1, <2>2 DEF FileIsPrefix
    <2>3. CASE l = Len(disk) + 1
      BY <1>4, <1>5, <1>8, <2>1, <2>3
    <2> QED BY <1>6, <2>2, <2>3
  <1>11. {disk'[k].line : k \in 1..Len(disk')}
           = {disk[k].line : k \in 1..Len(disk)} \cup {line}
    <2>1. \A k \in 1..Len(disk) : disk'[k].line = disk[k].line
      BY <1>4
    <2>2. disk'[Len(disk) + 1].line = line
      BY <1>4, <1>5
    <2> QED BY <2>1, <2>2, <1>6
  <1>12. TradesBefore(line + 1) = TradesBefore(line) \cup {line}
    BY <1>1, TradesGrow
  <1>13. TradesBefore(line + 1) = TradesBefore(line)'
    BY <1>3 DEF TradesBefore
  <1>14. {disk'[k].line : k \in 1..Len(disk')} = TradesBefore(line)'
    BY <1>7, <1>11, <1>12, <1>13
  <1>15. line' \in 1..line'
    BY <1>1, <1>3, Facts
  <1> QED BY <1>3, <1>4, <1>9, <1>10, <1>14, <1>15 DEF FileIsPrefix

(* A line that leaves the file as it is.                                    *)
LEMMA ReadKeepsPrefix ==
  ASSUME IInv, UNCHANGED <<csv, version, disk>>, line' = line + 1,
         good' => good /\ csv[line] # "trade"
  PROVE  FileIsPrefix'
  <1>1. TypeOK /\ FileIsPrefix /\ line \in Nat \ {0}
    BY Facts DEF IInv, WriterInv
  <1>2. PICK n \in 1..line :
          /\ {disk[k].line : k \in 1..Len(disk)} = TradesBefore(n)
          /\ good => n = line
    BY <1>1 DEF FileIsPrefix
  <1>3. \A m : TradesBefore(m)' = TradesBefore(m)
    BY DEF TradesBefore
  <1>4. CASE good'
    <2>1. TradesBefore(line + 1) = TradesBefore(line) /\ n = line
      BY <1>1, <1>2, <1>4, TradesGrow
    <2> QED BY <1>1, <1>2, <1>3, <2>1 DEF FileIsPrefix
  <1>5. CASE ~good'
    BY <1>1, <1>2, <1>3, <1>5 DEF FileIsPrefix
  <1> QED BY <1>4, <1>5

LEMMA LineKeeps ==
  ASSUME IInv, ConvertLine \/ WriteFails
  PROVE  IInv'
  <1>1. /\ pc = "lines" /\ UNCHANGED <<pc, csv, status, version, exists, readers>>
        /\ line <= Len(csv) /\ csv[line] # "malformed"
        /\ line' = line + 1 /\ good' \in BOOLEAN
    BY DEF IInv, TypeOK, ConvertLine, WriteFails
  <1>2. /\ disk' \in Seq(Record) /\ FileIsPrefix'
        /\ Len(disk') \in Nat /\ Len(disk) <= Len(disk')
        /\ Len(disk') <= Len(disk) + 1
    <2>1. CASE ConvertLine /\ csv[line] = "trade" /\ good
      BY <2>1, WrittenKeepsPrefix, Facts DEF IInv
    <2>2. CASE WriteFails \/ (ConvertLine /\ ~(csv[line] = "trade" /\ good))
      <3>1. /\ UNCHANGED <<csv, version, disk>>
            /\ good' => good /\ csv[line] # "trade"
        BY <2>2 DEF WriteFails, ConvertLine
      <3> QED BY <1>1, <3>1, ReadKeepsPrefix, Facts DEF IInv
    <2> QED BY <2>1, <2>2
  <1>3. TypeOK'
    BY <1>1, <1>2, Facts DEF IInv, TypeOK, readers
  <1>5. NoneBad'
    BY <1>1, Facts DEF IInv, WriterInv, NoneBad
  <1>6. WriterInv'
    BY <1>1, <1>2, <1>5 DEF IInv, WriterInv, Begun, Fresh, AtEnd
  <1>7. ReaderInv'
    BY <1>1, <1>2, Facts, GrowthKeepsReaders DEF IInv
  <1> QED BY <1>3, <1>6, <1>7 DEF IInv

-----------------------------------------------------------------------------
(* The readers' steps.                                                      *)
LEMMA WriterUnmoved ==
  ASSUME IInv, UNCHANGED writer
  PROVE  WriterInv'
  <1>1. FileIsPrefix'
    BY DEF IInv, WriterInv, FileIsPrefix, TradesBefore, writer
  <1> QED BY <1>1 DEF IInv, WriterInv, Begun, Fresh, NoneBad, AtEnd, writer

(* A count of at most 30 is of so many records: with more, the division by  *)
(* 31 gives more than 30 too.                                               *)
LEMMA CountsRight ==
  ASSUME TypeOK
  PROVE  /\ TradesSize \in Nat
         /\ TradesSize <= CountedRight => TradesSize <= Len(disk)
  <1>1. Len(disk) \in Nat
    BY Facts
  <1> QED BY <1>1 DEF TradesSize, RecordBytes, CountedRight

LEMMA OpenKeeps ==
  ASSUME IInv, NEW e \in Engines, Open(e)
  PROVE  IInv'
  <1> USE DEF Open
  <1>1. /\ TradesSize \in Nat
        /\ TradesSize <= CountedRight => TradesSize <= Len(disk)
        /\ Len(disk) \in Nat /\ version \in 0..MaxVersion
    BY CountsRight, Facts DEF IInv, TypeOK
  <1>2. TypeOK'
    BY <1>1 DEF IInv, TypeOK, writer
  <1>3. ReaderInv'
    <2> SUFFICES ASSUME NEW f \in Engines PROVE Counted(f)' /\ Since(f)'
      BY DEF ReaderInv
    <2>1. Counted(f) /\ Since(f)
      BY DEF IInv, ReaderInv
    <2>2. CASE f = e
      BY <1>1, <2>2, Facts DEF IInv, TypeOK, Counted, Since, writer
    <2>3. CASE f # e
      BY <2>1, <2>3 DEF IInv, TypeOK, Counted, Since, writer
    <2> QED BY <2>2, <2>3
  <1> QED BY <1>2, <1>3, WriterUnmoved DEF IInv

LEMMA BeginQueryKeeps ==
  ASSUME IInv, NEW e \in Engines, BeginQuery(e)
  PROVE  IInv'
  <1> USE DEF BeginQuery
  <1>1. TypeOK'
    BY DEF IInv, TypeOK, writer
  <1>2. ReaderInv'
    <2> SUFFICES ASSUME NEW f \in Engines PROVE Counted(f)' /\ Since(f)'
      BY DEF ReaderInv
    <2>1. Counted(f) /\ Since(f)
      BY DEF IInv, ReaderInv
    <2>2. CASE f = e
      BY <2>1, <2>2, Facts DEF IInv, TypeOK, Counted, Since, writer
    <2>3. CASE f # e
      BY <2>1, <2>3 DEF IInv, TypeOK, Counted, Since, writer
    <2> QED BY <2>2, <2>3
  <1> QED BY <1>1, <1>2, WriterUnmoved DEF IInv

LEMMA ReadTradeKeeps ==
  ASSUME IInv, NEW e \in Engines, ReadTrade(e)
  PROVE  IInv'
  <1> USE DEF ReadTrade
  <1>1. PICK ind \in Indices(e) :
          /\ ind < Len(disk)
          /\ seen' = [seen EXCEPT ![e] = @ \cup {disk[ind + 1].version}]
    OBVIOUS
  <1>2. ind \in Nat
    BY DEF IInv, TypeOK, Indices
  <1>3. ind + 1 \in 1..Len(disk)
    BY <1>1, <1>2, Facts DEF IInv
  <1>4. disk[ind + 1].version = version /\ disk[ind + 1] \in Record
    BY <1>3, Facts DEF IInv, WriterInv, FileIsPrefix
  <1>5. version \in 1..MaxVersion
    BY <1>4 DEF Record
  <1>6. TypeOK'
    BY <1>1, <1>4, <1>5 DEF IInv, TypeOK, writer
  <1>7. ReaderInv'
    <2> SUFFICES ASSUME NEW f \in Engines PROVE Counted(f)' /\ Since(f)'
      BY DEF ReaderInv
    <2>1. Counted(f) /\ Since(f) /\ began[f] \in Nat
      BY DEF IInv, ReaderInv, TypeOK
    <2>2. Counted(f)'
      BY <2>1 DEF Counted, writer
    <2>3. Since(f)'
      <3>1. seen'[f] \subseteq seen[f] \cup {version}
        BY <1>1, <1>4 DEF IInv, TypeOK
      <3> QED BY <1>5, <2>1, <3>1 DEF Since, writer
    <2> QED BY <2>2, <2>3
  <1> QED BY <1>6, <1>7, WriterUnmoved DEF IInv

LEMMA EndQueryKeeps ==
  ASSUME IInv, NEW e \in Engines, EndQuery(e)
  PROVE  IInv'
  <1> USE DEF EndQuery
  <1>1. TypeOK'
    BY DEF IInv, TypeOK, writer
  <1>2. ReaderInv'
    <2> SUFFICES ASSUME NEW f \in Engines PROVE Counted(f)' /\ Since(f)'
      BY DEF ReaderInv
    <2>1. Counted(f) /\ Since(f)
      BY DEF IInv, ReaderInv
    <2>2. engine' = [engine EXCEPT ![e] = "idle"] /\ engine[e] = "query"
      OBVIOUS
    <2> QED BY <2>1, <2>2 DEF IInv, TypeOK, Counted, Since, writer
  <1> QED BY <1>1, <1>2, WriterUnmoved DEF IInv

(* The start and the end of a server.                                       *)
LEMMA ServerKeeps ==
  ASSUME IInv, StartServer \/ ServerEnds
  PROVE  IInv'
  <1>1. UNCHANGED writer /\ up' \in BOOLEAN
    BY DEF StartServer, ServerEnds
  <1>2. CASE StartServer
    <2>1. TypeOK'
      BY <1>2 DEF IInv, TypeOK, StartServer, writer
    <2>2. ReaderInv'
      BY <1>2 DEF IInv, ReaderInv, Counted, Since, StartServer, writer
    <2> QED BY <1>1, <2>1, <2>2, WriterUnmoved DEF IInv
  <1>3. CASE ServerEnds
    <2>1. TypeOK'
      <3>1. /\ engine' \in [Engines -> {"none", "closed", "idle", "query"}]
            /\ trades_size' \in [Engines -> Nat]
            /\ opened' \in [Engines -> 0..MaxVersion]
            /\ began' \in [Engines -> 0..MaxVersion]
            /\ seen' \in [Engines -> SUBSET (1..MaxVersion)]
        BY <1>3, NoEngines DEF ServerEnds
      <3> QED BY <1>1, <3>1 DEF IInv, TypeOK, writer
    <2>2. ReaderInv'
      BY <1>3 DEF ReaderInv, Counted, Since, ServerEnds
    <2> QED BY <1>1, <2>1, <2>2, WriterUnmoved DEF IInv
  <1> QED BY <1>2, <1>3

-----------------------------------------------------------------------------
LEMMA NextIInv == IInv /\ [Next]_vars => IInv'
  <1> SUFFICES ASSUME IInv, [Next]_vars PROVE IInv'
    OBVIOUS
  <1>1. CASE WriterNext
    BY <1>1, TruncateKeeps, EndsKeep, SkipHeaderKeeps, LineKeeps DEF WriterNext
  <1>2. CASE StartServer \/ StopServer
    BY <1>2, ServerKeeps DEF StopServer
  <1>3. ASSUME NEW e \in Engines, EngineNext(e)
        PROVE  IInv'
    BY <1>3, OpenKeeps, BeginQueryKeeps, ReadTradeKeeps, EndQueryKeeps,
       ServerKeeps DEF EngineNext, ReadThrows
  <1>4. CASE UNCHANGED vars
    <2>1. TypeOK'
      BY <1>4 DEF IInv, TypeOK, vars, writer, readers
    <2>2. ReaderInv'
      BY <1>4, Facts, GrowthKeepsReaders DEF IInv, vars, writer
    <2>3. UNCHANGED writer
      BY <1>4 DEF vars
    <2> QED BY <2>1, <2>2, <2>3, WriterUnmoved DEF IInv
  <1> QED BY <1>1, <1>2, <1>3, <1>4 DEF Next

LEMMA Invariance == Spec => []IInv
  <1> QED BY InitIInv, NextIInv, PTL DEF Spec

(* The types, the writer's and the readers', hold in every reachable state. *)
THEOREM TypeCorrect == Spec => []TypeOK
  <1>1. IInv => TypeOK
    BY DEF IInv
  <1> QED BY <1>1, Invariance, PTL

(* Whenever process_data is stopped, by a line, a user or a full disk, the  *)
(* file holds the trades of a first part of its CSV and nothing else.       *)
THEOREM FileHoldsPrefix == Spec => []FileIsPrefix
  <1>1. IInv => FileIsPrefix
    BY DEF IInv, WriterInv
  <1> QED BY <1>1, Invariance, PTL

(* With an exit status of 0, a CSV, and room on the disk, every trade has   *)
(* been converted.                                                          *)
THEOREM SuccessMeansComplete == Spec => []SuccessIsComplete
  <1>1. IInv => SuccessIsComplete
    <2> SUFFICES ASSUME IInv, version > 0, pc = "none", status = "ok", good
                 PROVE  {disk[k].line : k \in 1..Len(disk)}
                          = {i \in 1..Len(csv) : csv[i] # "empty"}
      BY DEF SuccessIsComplete
    <2>1. {disk[k].line : k \in 1..Len(disk)} = TradesBefore(line)
      BY DEF IInv, WriterInv, FileIsPrefix
    <2>2. line = Len(csv) + 1 /\ Len(csv) \in Nat
      BY Facts DEF IInv, WriterInv, AtEnd
    <2>3. 1..(line - 1) = 1..Len(csv)
      BY <2>2
    <2>4. \A i \in 1..Len(csv) : csv[i] \in {"trade", "empty"}
      <3>1. \A i \in 1..Len(csv) : csv[i] \in LineKinds
        BY CsvLines DEF IInv, TypeOK
      <3>2. \A i \in 1..Len(csv) : csv[i] # "malformed"
        BY <2>3 DEF IInv, WriterInv, NoneBad
      <3> QED BY <3>1, <3>2 DEF LineKinds
    <2> QED BY <2>1, <2>3, <2>4 DEF TradesBefore
  <1> QED BY <1>1, Invariance, PTL

(* A query reads no trade of a CSV that was replaced before it began.       *)
THEOREM ReadsNoOldTrades == Spec => []NoOldTrades
  <1>1. IInv => NoOldTrades
    BY DEF IInv, ReaderInv, Since, NoOldTrades
  <1> QED BY <1>1, Invariance, PTL

(* A server whose engines counted at most 30 trades, which are still there, *)
(* does not end by a failing read, not even while a conversion goes on.     *)
THEOREM ThrowsOnlyExposed == Spec => OnlyExposedThrow
  <1>1. IInv /\ [Next]_vars =>
          [\A e \in Engines : ReadThrows(e) => Exposed(e)]_vars
    <2> SUFFICES ASSUME IInv, NEW e \in Engines, ReadThrows(e), ~Exposed(e)
                 PROVE  FALSE
      OBVIOUS
    <2>1. /\ engine[e] = "query" /\ opened[e] = version
          /\ trades_size[e] \in Nat /\ trades_size[e] <= CountedRight
          /\ \E ind \in Indices(e) : ind >= Len(disk)
      BY DEF ReadThrows, Exposed, IInv, TypeOK, CountedRight
    <2>2. PICK ind \in 0..(trades_size[e] - 1) : ind >= Len(disk)
      BY <2>1 DEF Indices
    <2>3. trades_size[e] <= Len(disk)
      BY <2>1 DEF IInv, ReaderInv, Counted
    <2>4. Len(disk) \in Nat
      BY Facts DEF IInv
    <2> QED BY <2>1, <2>2, <2>3, <2>4
  <1> QED BY <1>1, Invariance, PTL DEF Spec, OnlyExposedThrow
=============================================================================
