------------------------------ MODULE DataFile ------------------------------
(***************************************************************************)
(* The file of trades, which process_data writes from a CSV and the query  *)
(* engines of a server read: no lock, and nothing that tells a reader of a *)
(* rewrite. `make` converts the CSV again each time it is run, whether or  *)
(* not a server is up. What a trade holds is left out; which line of which *)
(* CSV it comes from is what the readers depend on.                        *)
(***************************************************************************)
EXTENDS Integers, Sequences

CONSTANTS
  Engines,          (* one for each worker of the server                    *)
  Csvs,             (* the CSVs' lines after the header; see CsvType        *)
  MaxVersion        (* bound on the conversions                             *)

(* A line of a CSV. A second header is malformed, like anything stoul does  *)
(* not take: parse_csv means to skip it, but compares with a string that    *)
(* ends in a line feed, which getline has removed.                          *)
LineKinds == {"trade", "empty", "malformed"}
CsvType(lines) == lines \in Seq(LineKinds)

ASSUME DataAssumption ==
  /\ \A lines \in Csvs : CsvType(lines)
  /\ MaxVersion \in Nat

RecordBytes == 32   (* sizeof(TradeData)                                    *)

VARIABLES
  pc,               (* of process_data: none, open, lines                   *)
  csv, line,        (* the lines it reads, and the next one                 *)
  good,             (* no write to its output has failed                    *)
  status,           (* how it ended: ok, nocsv (also 0), or failed          *)
  version,          (* history: the number of conversions begun             *)
  exists, disk,     (* the record file: trades as [version, line]           *)
  up,               (* the server runs                                      *)
  engine,           (* of each worker: none, closed (no file), idle, query  *)
  trades_size,
  opened,           (* history: the version when the engine was opened      *)
  began,            (* ... and when its query began                         *)
  seen              (* history: versions of the trades its query has read   *)

writer == <<pc, csv, line, good, status, version, exists, disk>>
readers == <<up, engine, trades_size, opened, began, seen>>
vars == <<writer, readers>>

Record == [version: 1..MaxVersion, line: Nat \ {0}]

Init ==
  /\ pc = "none" /\ csv = <<>> /\ line = 1 /\ good = TRUE /\ status = "ok"
  /\ version = 0
  /\ exists = FALSE /\ disk = <<>>
  /\ up = FALSE
  /\ engine = [e \in Engines |-> "none"]
  /\ trades_size = [e \in Engines |-> 0]
  /\ opened = [e \in Engines |-> 0]
  /\ began = [e \in Engines |-> 0]
  /\ seen = [e \in Engines |-> {}]

-----------------------------------------------------------------------------
(* process_data.                                                            *)

Exit(how) == pc' = "none" /\ status' = how

(* Mutation of Truncate: the file is opened to append.                      *)
MutAppends ==
  /\ pc = "none" /\ version < MaxVersion
  /\ pc' = "open"
  /\ version' = version + 1
  /\ exists' = TRUE /\ disk' = disk
  /\ csv' = <<>> /\ line' = 1 /\ good' = TRUE
  /\ UNCHANGED <<status, readers>>

(* main opens the output first, and truncates it.                           *)
Truncate ==
  /\ pc = "none" /\ version < MaxVersion
  /\ pc' = "open"
  /\ version' = version + 1
  /\ exists' = TRUE /\ disk' = <<>>
  /\ csv' = <<>> /\ line' = 1 /\ good' = TRUE
  /\ UNCHANGED <<status, readers>>

(* No argument, or no directory for the output.                             *)
NoOutput ==
  /\ pc = "none"
  /\ Exit("failed")
  /\ UNCHANGED <<csv, line, good, version, exists, disk, readers>>

(* parse_csv returns when it finds no CSV, or no header in it; main does    *)
(* not notice, and returns 0.                                               *)
NoCsv ==
  /\ pc = "open"
  /\ Exit("nocsv")
  /\ UNCHANGED <<csv, line, good, version, exists, disk, readers>>

SkipHeader ==
  /\ pc = "open"
  /\ csv' \in Csvs
  /\ pc' = "lines"
  /\ UNCHANGED <<line, good, status, version, exists, disk, readers>>

(* A line is skipped, or its trade written and flushed; after a failure the *)
(* stream writes nothing more.                                              *)
ConvertLine ==
  /\ pc = "lines" /\ line <= Len(csv) /\ csv[line] # "malformed"
  /\ line' = line + 1
  /\ disk' = IF csv[line] = "trade" /\ good
               THEN Append(disk, [version |-> version, line |-> line])
               ELSE disk
  /\ UNCHANGED <<pc, csv, good, status, version, exists, readers>>

(* The disk is full (the blocks of a file system hold whole records). The   *)
(* stream's state is not looked at.                                         *)
WriteFails ==
  /\ pc = "lines" /\ line <= Len(csv) /\ csv[line] = "trade"
  /\ line' = line + 1
  /\ good' = FALSE
  /\ UNCHANGED <<pc, csv, status, version, exists, disk, readers>>

(* Mutation of BadLine: the exception is caught, and parse_csv returns.     *)
MutBadLineReturns ==
  /\ pc = "lines" /\ line <= Len(csv) /\ csv[line] = "malformed"
  /\ Exit("ok")
  /\ UNCHANGED <<csv, line, good, version, exists, disk, readers>>

(* std::invalid_argument or std::out_of_range, which nothing catches; what  *)
(* has been flushed stays.                                                  *)
BadLine ==
  /\ pc = "lines" /\ line <= Len(csv) /\ csv[line] = "malformed"
  /\ Exit("failed")
  /\ UNCHANGED <<csv, line, good, version, exists, disk, readers>>

Converted ==
  /\ pc = "lines" /\ line > Len(csv)
  /\ Exit("ok")
  /\ UNCHANGED <<csv, line, good, version, exists, disk, readers>>

(* Someone stops it, between two writes.                                    *)
Interrupt ==
  /\ pc # "none"
  /\ Exit("failed")
  /\ UNCHANGED <<csv, line, good, version, exists, disk, readers>>

-----------------------------------------------------------------------------
(* The server's workers and their engines.                                  *)

StartServer ==
  /\ ~up
  /\ up' = TRUE
  /\ UNCHANGED <<writer, engine, trades_size, opened, began, seen>>

(* Mutation of TradesSize: one more than there are.                         *)
MutOneMore == (Len(disk) * RecordBytes) \div 31 + 1

(* The constructor divides by 31, not by the size of a record.              *)
TradesSize == (Len(disk) * RecordBytes) \div 31

(* The constructor of a worker's engine, once for the life of the worker.   *)
(* Without a file it returns, and trades_size is never set.                 *)
Open(e) ==
  /\ up /\ engine[e] = "none"
  /\ engine' = [engine EXCEPT ![e] = IF exists THEN "idle" ELSE "closed"]
  /\ trades_size' = [trades_size EXCEPT ![e] = TradesSize]
  /\ opened' = [opened EXCEPT ![e] = version]
  /\ UNCHANGED <<writer, up, began, seen>>

BeginQuery(e) ==
  /\ engine[e] = "idle"
  /\ engine' = [engine EXCEPT ![e] = "query"]
  /\ began' = [began EXCEPT ![e] = version]
  /\ seen' = [seen EXCEPT ![e] = {}]
  /\ UNCHANGED <<writer, up, trades_size, opened>>

(* The searches and the scan read below trades_size, RangeScan shows.       *)
Indices(e) == 0..(trades_size[e] - 1)

ReadTrade(e) ==
  /\ engine[e] = "query"
  /\ \E ind \in Indices(e) :
       /\ ind < Len(disk)
       /\ seen' = [seen EXCEPT ![e] = @ \cup {disk[ind + 1].version}]
  /\ UNCHANGED <<writer, up, engine, trades_size, opened, began>>

EndQuery(e) ==
  /\ engine[e] = "query"
  /\ engine' = [engine EXCEPT ![e] = "idle"]
  /\ UNCHANGED <<writer, up, trades_size, opened, began, seen>>

ServerEnds ==
  /\ up' = FALSE
  /\ engine' = [e \in Engines |-> "none"]
  /\ trades_size' = [e \in Engines |-> 0]
  /\ opened' = [e \in Engines |-> 0]
  /\ began' = [e \in Engines |-> 0]
  /\ seen' = [e \in Engines |-> {}]
  /\ UNCHANGED writer

(* read_trade_data throws, in a worker that does not catch. In a file found *)
(* empty the search begins at 2^64 - 1, beyond the end of any file.         *)
ReadThrows(e) ==
  /\ \/ /\ engine[e] = "query"
        /\ trades_size[e] = 0 \/ \E ind \in Indices(e) : ind >= Len(disk)
     \/ engine[e] = "closed"
  /\ ServerEnds

StopServer == up /\ ServerEnds

WriterNext == \/ Truncate \/ NoOutput \/ NoCsv \/ SkipHeader
              \/ ConvertLine \/ WriteFails \/ BadLine \/ Converted \/ Interrupt
EngineNext(e) == \/ Open(e) \/ BeginQuery(e) \/ ReadTrade(e) \/ EndQuery(e)
                 \/ ReadThrows(e)

Next == \/ WriterNext \/ StartServer \/ StopServer
        \/ \E e \in Engines : EngineNext(e)

Spec == Init /\ [][Next]_vars

-----------------------------------------------------------------------------
(* Properties.                                                              *)

TypeOK ==
  /\ pc \in {"none", "open", "lines"} /\ status \in {"ok", "nocsv", "failed"}
  /\ csv \in Csvs \cup {<<>>} /\ line \in Nat \ {0} /\ line <= Len(csv) + 1
  /\ good \in BOOLEAN /\ version \in 0..MaxVersion
  /\ exists \in BOOLEAN /\ disk \in Seq(Record)
  /\ up \in BOOLEAN
  /\ engine \in [Engines -> {"none", "closed", "idle", "query"}]
  /\ trades_size \in [Engines -> Nat]
  /\ opened \in [Engines -> 0..MaxVersion]
  /\ began \in [Engines -> 0..MaxVersion]
  /\ seen \in [Engines -> SUBSET (1..MaxVersion)]

TradesBefore(n) == {i \in 1..(n - 1) : csv[i] = "trade"}

(* At any moment, also after an exception, an interrupt or a full disk, the *)
(* file is what the last conversion has made of the CSV up to some line:    *)
(* each of its trades once, in their order, and nothing of an older CSV. As *)
(* long as no write fails, that is as far as it has read.                   *)
FileIsPrefix ==
  /\ \A k \in 1..Len(disk) : disk[k].version = version
  /\ \A k, l \in 1..Len(disk) : k < l => disk[k].line < disk[l].line
  /\ \E n \in 1..line :
       /\ {disk[k].line : k \in 1..Len(disk)} = TradesBefore(n)
       /\ good => n = line

(* A conversion that ends with 0, having read a CSV and found room, has     *)
(* converted every trade of it (process_data_main.cc:105-107).              *)
SuccessIsComplete ==
  version > 0 /\ pc = "none" /\ status = "ok" /\ good =>
    {disk[k].line : k \in 1..Len(disk)}
      = {i \in 1..Len(csv) : csv[i] # "empty"}

(* So many records are counted right: 32n \div 31 is n up to there, and more *)
(* from 31 on.                                                              *)
CountedRight == 30

(* The engine has had no file, or an empty one, or so long a one that it    *)
(* counted too many, or one that was rewritten since it counted.            *)
Exposed(e) == \/ engine[e] = "closed" \/ trades_size[e] = 0
              \/ trades_size[e] > CountedRight
              \/ opened[e] # version

(* No read throws, and ends the server, unless its engine is exposed: with  *)
(* one that was opened on a few trades, queries are safe, even while the    *)
(* conversion that wrote those goes on and makes the file long.             *)
OnlyExposedThrow ==
  [][\A e \in Engines : ReadThrows(e) => Exposed(e)]_vars

(* A query uses no trade of a CSV replaced before it began, although its    *)
(* engine may have been opened, and have counted its trades, long before.   *)
NoOldTrades ==
  \A e \in Engines : engine[e] = "query" => seen[e] \subseteq began[e]..version
=============================================================================
