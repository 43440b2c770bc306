----------------------------- MODULE ReplyCodec -----------------------------
(***************************************************************************)
(* The bytes of a reply: how the results of WorkerLoop are laid out        *)
(* (aggregator in query_engine.cc) and how the client cuts them up again   *)
(* (client_main.cc).  Each value sent is a mantissa of four bytes and an   *)
(* exponent of one, and every offset on either side is a multiple of five; *)
(* so a field stands for five bytes.                                       *)
(***************************************************************************)
EXTENDS WorkerLoop, SequencesExt

(* The fields of a metric, in the order they are sent and read.             *)
FieldsOf(m) == CASE m = 0 -> <<"min", "max">>
                 [] m = 1 -> <<"mean">>
                 [] m = 2 -> <<"total">>

Field(from, to, name) == [from |-> from, to |-> to, name |-> name]

(* The server: one result after the other.                                  *)
Encode(results) ==
  FlattenSeq([k \in 1..Len(results) |->
    LET r == results[k]
    IN  [f \in 1..Len(FieldsOf(r.metric)) |->
           Field(r.from, r.to, FieldsOf(r.metric)[f])]])

(* The client: "Each result set is 20 bytes".                               *)
SetSize == 4
NumSets(output) == (Len(output) + SetSize - 1) \div SetSize

(* Reading behind the end of the vector.                                    *)
Beyond == "beyond"
At(output, index) == IF index < Len(output) THEN output[index + 1] ELSE Beyond

(* Mutation of Index: one field of the prices is skipped, not two.          *)
MutIndexOneField(asked, m) == Cardinality({l \in asked : l < m})

(* The names asked for: the f-th field of metric m.                         *)
NamesOf(asked) == UNION {{<<m, f>> : f \in 1..Len(FieldsOf(m))} : m \in asked}

(* index, before the fields of metric m of a set are read.                  *)
Index(asked, m) == Cardinality({mf \in NamesOf(asked) : mf[1] < m})

(* What is printed for a set under each name.                               *)
DecodeSet(asked, output, set) ==
  [mf \in NamesOf(asked) |->
     At(output, set * SetSize + Index(asked, mf[1]) + mf[2] - 1)]
Decoded(asked, output) ==
  [set \in 0..(NumSets(output) - 1) |-> DecodeSet(asked, output, set)]

-----------------------------------------------------------------------------
(* Properties.                                                              *)

(* What a reader of the output takes it for: for every window of the query, *)
(* under each name, the value of that name.                                 *)
MeantFor(q) ==
  [w \in 0..(Windows(q) - 1) |->
     LET from == q.start_time_point + w * q.resolution
         to == Lesser(from + q.resolution, q.end_time_point)
     IN  [mf \in NamesOf(MetricList(q)) |->
            Field(from, to, FieldsOf(mf[1])[mf[2]])]]
PrintedRight == Decoded(MetricList(query), Encode(out)) = MeantFor(query)

(* The two sides agree on the layout: what the client prints for a query    *)
(* for all metrics, or for any metrics of a single window, is what was      *)
(* computed, value for value (query_engine.cc:81-118,                       *)
(* client_main.cc:104-159).                                                 *)
RoundTrip ==
  pc = "done" /\ Tame(query) /\ MetricList(query) # {}
    /\ (MetricList(query) = Metrics \/ Windows(query) <= 1)
  => PrintedRight

(* "Each result set is 20 bytes (min/max price, mean price, total           *)
(* quantity)" (client_main.cc:104): what is printed is right whatever the   *)
(* metrics.                                                                 *)
SetsAreWhole ==
  pc = "done" /\ Tame(query) /\ MetricList(query) # {} => PrintedRight
=============================================================================
