------------------------ MODULE ClientSessionProofs ------------------------
(***************************************************************************)
(* Proofs about ClientSession: its types, and that as long as its          *)
(* connection stands the client is the one QueryService and EpollServer    *)
(* take it for, for every number of queries and every size of a reply.     *)
(***************************************************************************)
EXTENDS ClientSession, SequenceTheorems, TLAPS

-----------------------------------------------------------------------------
(* The units of a reply.                                                    *)
LEMMA UnitType ==
  ASSUME NEW q \in 0..MaxQueries, NEW size \in Nat, NEW k \in Nat
  PROVE  Unit(q, size, k) \in Units
  BY DEF Unit, Units

LEMMA BodyType ==
  ASSUME NEW q \in 0..MaxQueries, NEW size \in Nat
  PROVE  /\ Body(q, size) \in Seq(Units) /\ Len(Body(q, size)) = size
         /\ \A k \in 1..size : Body(q, size)[k] = Unit(q, size, k)
  <1>1. \A k \in 1..size : Unit(q, size, k) \in Units
    BY UnitType
  <1> QED BY <1>1 DEF Body

LEMMA ReplyType ==
  ASSUME NEW q \in 0..MaxQueries, NEW size \in Nat
  PROVE  /\ Reply(q, size) \in Seq(Units) /\ Len(Reply(q, size)) = size + 1
         /\ \A k \in 1..(size + 1) : Reply(q, size)[k] = Unit(q, size, k - 1)
  <1> DEFINE first == <<Unit(q, size, 0)>>
             body == Body(q, size)
  <1>1. first \in Seq(Units) /\ Len(first) = 1 /\ first[1] = Unit(q, size, 0)
    BY UnitType
  <1>2. /\ body \in Seq(Units) /\ Len(body) = size
        /\ \A k \in 1..size : body[k] = Unit(q, size, k)
    BY BodyType
  <1>3. Reply(q, size) = first \o body
    BY DEF Reply
  <1> HIDE DEF first, body
  <1>4. /\ first \o body \in Seq(Units) /\ Len(first \o body) = 1 + size
        /\ \A k \in 1..(1 + size) :
             (first \o body)[k] = IF k <= 1 THEN first[k] ELSE body[k - 1]
    <2>1. /\ first \o body \in Seq(Units)
          /\ Len(first \o body) = Len(first) + Len(body)
          /\ \A k \in 1..(Len(first) + Len(body)) :
               (first \o body)[k] = IF k <= Len(first) THEN first[k]
                                   ELSE body[k - Len(first)]
      BY <1>1, <1>2, ConcatProperties, Zenon
    <2> QED BY <1>1, <1>2, <2>1
  <1>5. ASSUME NEW k \in 1..(1 + size)
        PROVE  Reply(q, size)[k] = Unit(q, size, k - 1)
    <2>1. CASE k = 1
      BY <1>1, <1>3, <1>4, <2>1
    <2>2. CASE k # 1
      <3>1. k - 1 \in 1..size
        BY <2>2
      <3> QED BY <1>2, <1>3, <1>4, <2>2, <3>1
    <2> QED BY <2>1, <2>2
  <1> QED BY <1>3, <1>4, <1>5

-----------------------------------------------------------------------------
(* Types.                                                                   *)
LEMMA InitTypeOK == Init => TypeOK
  BY SessionAssumption DEF Init, TypeOK, LinkStates

LEMMA AnswerTypes == ASSUME TypeOK, Answer PROVE TypeOK'
  <1>1. PICK size \in BodySizes : stream' = stream \o Reply(Head(waiting), size)
    BY DEF Answer
  <1>2. Head(waiting) \in 0..MaxQueries /\ waiting' \in Seq(1..MaxQueries)
    <2> DEFINE Q == 1..MaxQueries
    <2>1. waiting \in Seq(Q) /\ waiting # <<>> /\ waiting' = Tail(waiting)
      BY DEF Answer, TypeOK
    <2>2. \A q \in Q : q \in 0..MaxQueries
      OBVIOUS
    <2> HIDE DEF Q
    <2>3. Head(waiting) \in Q /\ waiting' \in Seq(Q)
      BY <2>1, HeadTailProperties
    <2> QED BY <2>2, <2>3 DEF Q
  <1>3. Reply(Head(waiting), size) \in Seq(Units)
    BY <1>2, ReplyType, SessionAssumption
  <1>4. stream' \in Seq(Units) /\ Len(stream') >= Len(stream)
    BY <1>1, <1>3, ConcatProperties, LenProperties DEF TypeOK
  <1> QED BY <1>2, <1>4 DEF Answer, TypeOK, client

LEMMA CutTypes ==
  ASSUME TypeOK, NEW k \in 0..Len(stream)
  PROVE  SubSeq(stream, 1, k) \in Seq(Units) /\ Len(SubSeq(stream, 1, k)) = k
  BY SubSeqProperties, LenProperties DEF TypeOK

LEMMA ServerCloseTypes == ASSUME TypeOK, ServerClose PROVE TypeOK'
  <1>1. PICK k \in arrived..Len(stream) : stream' = SubSeq(stream, 1, k)
    BY DEF ServerClose
  <1>2. stream' \in Seq(Units) /\ arrived <= Len(stream')
    BY <1>1, CutTypes DEF TypeOK
  <1> QED BY <1>2 DEF ServerClose, TypeOK, client, LinkStates

LEMMA SendMessageTypes == ASSUME TypeOK, SendMessage PROVE TypeOK'
  <1>1. sent' \in 1..MaxQueries
    BY SessionAssumption DEF SendMessage, TypeOK
  <1>2. waiting' \in Seq(1..MaxQueries)
    <2> DEFINE Q == 1..MaxQueries
    <2>1. waiting \in Seq(Q) /\ sent' \in Q
      BY <1>1 DEF TypeOK
    <2>2. waiting' = waiting \/ waiting' = Append(waiting, sent')
      BY DEF SendMessage
    <2> HIDE DEF Q
    <2>3. waiting' \in Seq(Q)
      BY <2>1, <2>2, AppendProperties
    <2> QED BY <2>3 DEF Q
  <1>3. stream' \in Seq(Units) /\ arrived \in 0..Len(stream')
    BY CutTypes DEF SendMessage, TypeOK
  <1> QED BY <1>1, <1>2, <1>3 DEF SendMessage, TypeOK, LinkStates

LEMMA ConsumeTypes ==
  ASSUME TypeOK, arrived > 0, Consume
  PROVE  /\ Head(stream) \in Units /\ stream' \in Seq(Units)
         /\ arrived' \in 0..Len(stream')
  <1>1. stream # <<>> /\ Len(stream) \in Nat
    BY EmptySeq DEF TypeOK
  <1>2. /\ Head(stream) \in Units /\ Tail(stream) \in Seq(Units)
        /\ Len(Tail(stream)) = Len(stream) - 1
    BY <1>1, HeadTailProperties DEF TypeOK
  <1> QED BY <1>1, <1>2 DEF Consume, TypeOK

LEMMA MainTypes == ASSUME TypeOK, Main PROVE TypeOK'
  <1>1. CASE SendMessage
    BY <1>1, SendMessageTypes
  <1>2. CASE SendFails
    BY <1>2 DEF SendFails, TypeOK, server
  <1>3. CASE ReadCount
    <2>1. count' \in Int
      <3>1. Head(stream) \in Units
        BY <1>3, ConsumeTypes DEF ReadCount
      <3>2. Head(stream).of \in Int
        BY <3>1 DEF Units
      <3> QED BY <1>3, <3>2, SessionAssumption DEF ReadCount
    <2> QED BY <1>3, <2>1, ConsumeTypes DEF ReadCount, Allocate, TypeOK
  <1>4. CASE NoCount
    BY <1>4, SessionAssumption DEF NoCount, Allocate, TypeOK, server
  <1>5. CASE ReadByte
    <2>1. output' \in Seq(Units) /\ Len(output') = Len(output) + 1
      BY <1>5, ConsumeTypes, LenProperties DEF ReadByte, TypeOK
    <2> QED BY <1>5, <2>1, ConsumeTypes DEF ReadByte, TypeOK
  <1>6. CASE NoByte
    <2>1. Zero \in Units
      BY UnitType, SessionAssumption DEF Zero
    <2>2. output' \in Seq(Units) /\ Len(output') = Len(output) + 1
      BY <1>6, <2>1 DEF NoByte, TypeOK
    <2> QED BY <1>6, <2>2 DEF NoByte, TypeOK, server
  <1>7. CASE ReadFails
    BY <1>7 DEF ReadFails, TypeOK, server
  <1>8. CASE PrintReply
    BY <1>8 DEF PrintReply, TypeOK, server
  <1> QED BY <1>1, <1>2, <1>3, <1>4, <1>5, <1>6, <1>7, <1>8 DEF Main

LEMMA NextTypeOK == TypeOK /\ [Next]_vars => TypeOK'
  <1> SUFFICES ASSUME TypeOK, [Next]_vars PROVE TypeOK'
    OBVIOUS
  <1>1. CASE ReadLine
    BY <1>1, SessionAssumption DEF ReadLine, TypeOK, server
  <1>2. CASE Main
    BY <1>2, MainTypes
  <1>3. CASE Answer
    BY <1>3, AnswerTypes
  <1>4. CASE Arrive
    BY <1>4 DEF Arrive, TypeOK, client
  <1>5. CASE ServerClose
    BY <1>5, ServerCloseTypes
  <1>6. CASE UNCHANGED vars
    BY <1>6 DEF vars, client, server, TypeOK
  <1> QED BY <1>1, <1>2, <1>3, <1>4, <1>5, <1>6 DEF Next

(* Whatever the server does to it, the client's state is what it takes it   *)
(* for, the vector never being filled past its size (client.cc:93-97).      *)
THEOREM TypeCorrect == Spec => []TypeOK
  <1> QED BY InitTypeOK, NextTypeOK, PTL DEF Spec

-----------------------------------------------------------------------------
(* How far the exchange of the last query is while the connection stands:   *)
(* asked, answered, the count read.                                         *)
OnStream(first, size) ==
  \A k \in 1..Len(stream) : stream[k] = Unit(sent, size, first + k)
Asked == waiting = <<sent>> /\ stream = <<>>
Answered == /\ waiting = <<>>
            /\ \E size \in BodySizes : Len(stream) = size + 1 /\ OnStream(-1, size)
Counted == /\ waiting = <<>> /\ count \in BodySizes
           /\ Len(output) + Len(stream) = count
           /\ OnStream(Len(output), count)
           /\ \A k \in 1..Len(output) : output[k] = Unit(sent, count, k)

Exchange == link = "open" =>
  /\ pc \in {"input", "send"} =>
       waiting = <<>> /\ stream = <<>> /\ Len(printed) = sent
  /\ pc \in {"count", "bytes"} => Len(printed) = sent - 1
  /\ pc = "count" => Asked \/ Answered
  /\ pc = "bytes" => Counted

LEMMA InitExchange == Init => Exchange
  BY DEF Init, Exchange

LEMMA AnswerExchange == ASSUME TypeOK, Exchange, Answer PROVE Exchange'
  <1>1. CASE pc = "exited"
    BY <1>1 DEF Answer, Exchange, client
  <1>2. CASE pc # "exited"
    <2>1. waiting = <<sent>> /\ stream = <<>> /\ pc = "count"
      BY <1>2 DEF Answer, Exchange, TypeOK, Asked, Answered, Counted
    <2>2. Len(printed) = sent - 1
      BY <2>1 DEF Answer, Exchange
    <2>3. Head(waiting) = sent /\ Tail(waiting) = <<>>
      BY <2>1
    <2>4. PICK size \in BodySizes : stream' = stream \o Reply(sent, size)
      BY <2>3 DEF Answer
    <2>5. sent \in 0..MaxQueries /\ size \in Nat
      BY SessionAssumption DEF TypeOK
    <2>6. /\ Reply(sent, size) \in Seq(Units)
          /\ Len(Reply(sent, size)) = size + 1
          /\ \A k \in 1..(size + 1) : Reply(sent, size)[k] = Unit(sent, size, k - 1)
      BY <2>5, ReplyType
    <2>7. stream' = Reply(sent, size)
      BY <2>1, <2>4, <2>6, ConcatEmptySeq
    <2>8. \A k \in 1..Len(stream') : stream'[k] = Unit(sent, size, -1 + k)
      BY <2>5, <2>6, <2>7
    <2>9. Answered'
      BY <2>3, <2>6, <2>7, <2>8 DEF Answered, OnStream, Answer, client
    <2> QED BY <2>1, <2>2, <2>9 DEF Exchange, Answer, client
  <1> QED BY <1>1, <1>2

(* What the client takes from the stream, and what is left there.           *)
LEMMA Consumed ==
  ASSUME TypeOK, arrived > 0, Consume
  PROVE  /\ Len(stream) \in Nat \ {0} /\ Head(stream) = stream[1]
         /\ Len(stream') = Len(stream) - 1
         /\ \A k \in 1..Len(stream') : stream'[k] = stream[k + 1]
  <1>1. stream # <<>> /\ Len(stream) \in Nat \ {0}
    BY EmptySeq DEF TypeOK
  <1>2. /\ Len(Tail(stream)) = Len(stream) - 1
        /\ \A k \in 1..Len(Tail(stream)) : Tail(stream)[k] = stream[k + 1]
    BY <1>1, HeadTailProperties DEF TypeOK
  <1> QED BY <1>1, <1>2 DEF Consume

LEMMA ReadCountExchange == ASSUME TypeOK, Exchange, ReadCount PROVE Exchange'
  <1> SUFFICES ASSUME link = "open" PROVE Exchange'
    BY DEF ReadCount, Exchange
  <1>1. /\ Len(stream) \in Nat \ {0} /\ Head(stream) = stream[1]
        /\ Len(stream') = Len(stream) - 1
        /\ \A k \in 1..Len(stream') : stream'[k] = stream[k + 1]
    BY Consumed DEF ReadCount
  <1>2. Answered /\ Len(printed) = sent - 1
    BY <1>1 DEF ReadCount, Exchange, Asked
  <1>3. PICK size \in BodySizes : Len(stream) = size + 1 /\ OnStream(-1, size)
    BY <1>2 DEF Answered
  <1>4. size \in Nat /\ stream[1] = Unit(sent, size, 0)
    BY <1>3, SessionAssumption DEF OnStream
  <1>5. count' = size
    BY <1>1, <1>4 DEF ReadCount, Unit
  <1>6. pc' = "bytes" /\ output' = <<>> /\ Len(output') = 0
    BY <1>4, <1>5 DEF ReadCount, Allocate
  <1>7. \A k \in 1..Len(stream') : stream'[k] = Unit(sent, size, 0 + k)
    BY <1>1, <1>3, <1>4 DEF OnStream
  <1>8. Counted'
    BY <1>1, <1>2, <1>3, <1>4, <1>5, <1>6, <1>7
       DEF Counted, OnStream, ReadCount, Answered
  <1> QED BY <1>2, <1>6, <1>8 DEF Exchange, ReadCount

LEMMA ReadByteExchange == ASSUME TypeOK, Exchange, ReadByte PROVE Exchange'
  <1> SUFFICES ASSUME link = "open" PROVE Exchange'
    BY DEF ReadByte, Exchange
  <1>1. /\ Len(stream) \in Nat \ {0} /\ Head(stream) = stream[1]
        /\ Len(stream') = Len(stream) - 1
        /\ \A k \in 1..Len(stream') : stream'[k] = stream[k + 1]
    BY Consumed DEF ReadByte
  <1>2. Counted /\ Len(printed) = sent - 1
    BY DEF ReadByte, Exchange
  <1>3. Len(output) \in Nat /\ stream[1] \in Units
    <2>1. Len(output) \in Nat
      BY LenProperties DEF TypeOK
    <2> QED BY <1>1, <2>1, ConsumeTypes DEF ReadByte
  <1>4. stream[1] = Unit(sent, count, Len(output) + 1)
    BY <1>1, <1>2 DEF Counted, OnStream
  <1>5. /\ Len(output') = Len(output) + 1
        /\ \A k \in 1..Len(output) : output'[k] = output[k]
        /\ output'[Len(output) + 1] = stream[1]
    BY <1>1, <1>3, AppendProperties DEF ReadByte, TypeOK
  <1>6. \A k \in 1..Len(output') : output'[k] = Unit(sent, count, k)
    BY <1>2, <1>3, <1>4, <1>5 DEF Counted
  <1>7. \A k \in 1..Len(stream') : stream'[k] = Unit(sent, count, Len(output') + k)
    <2> SUFFICES ASSUME NEW k \in 1..Len(stream')
                 PROVE  stream'[k] = Unit(sent, count, Len(output') + k)
      OBVIOUS
    <2>1. k + 1 \in 1..Len(stream) /\ stream'[k] = stream[k + 1]
      BY <1>1
    <2>2. stream[k + 1] = Unit(sent, count, Len(output) + (k + 1))
      BY <1>2, <2>1 DEF Counted, OnStream
    <2>3. Len(output) + (k + 1) = Len(output') + k
      BY <1>3, <1>5, <2>1
    <2> QED BY <2>1, <2>2, <2>3
  <1>8. Counted'
    <2>1. Len(output') + Len(stream') = count
      BY <1>1, <1>2, <1>3, <1>5 DEF Counted
    <2> QED BY <1>2, <1>6, <1>7, <2>1 DEF Counted, OnStream, ReadByte
  <1> QED BY <1>2, <1>8 DEF Exchange, ReadByte

(* All of the reply has been read when it is printed.                       *)
LEMMA PrintsReply ==
  ASSUME TypeOK, Exchange, PrintReply, link = "open"
  PROVE  /\ output = Body(sent, count) /\ count \in BodySizes
         /\ waiting = <<>> /\ stream = <<>> /\ Len(printed) = sent - 1
  <1>1. Counted /\ Len(printed) = sent - 1 /\ Len(output) = count
    BY DEF PrintReply, Exchange
  <1>2. count \in Nat /\ sent \in 0..MaxQueries
    BY <1>1, SessionAssumption DEF Counted, TypeOK
  <1>3. stream = <<>>
    <2>1. Len(stream) \in Nat /\ Len(stream) = 0
      BY <1>1, <1>2, LenProperties DEF Counted, TypeOK
    <2> QED BY <2>1, EmptySeq DEF TypeOK
  <1>4. /\ Body(sent, count) \in Seq(Units) /\ Len(Body(sent, count)) = count
        /\ \A k \in 1..count : Body(sent, count)[k] = Unit(sent, count, k)
    BY <1>2, BodyType
  <1>5. output = Body(sent, count)
    BY <1>1, <1>4, SeqEqual DEF Counted, TypeOK
  <1> QED BY <1>1, <1>3, <1>5 DEF Counted

LEMMA PrintExchange == ASSUME TypeOK, Exchange, PrintReply PROVE Exchange'
  <1> SUFFICES ASSUME link = "open" PROVE Exchange'
    BY DEF PrintReply, Exchange, server
  <1>1. waiting = <<>> /\ stream = <<>> /\ Len(printed) = sent - 1
    BY PrintsReply
  <1>2. Len(printed') = sent
    <2>1. Len(printed') = Len(printed) + 1
      BY AppendProperties DEF PrintReply, TypeOK
    <2> QED BY <1>1, <2>1 DEF TypeOK
  <1> QED BY <1>1, <1>2 DEF PrintReply, Exchange, server

LEMMA NextExchange == TypeOK /\ Exchange /\ [Next]_vars => Exchange'
  <1> SUFFICES ASSUME TypeOK, Exchange, [Next]_vars PROVE Exchange'
    OBVIOUS
  <1>1. CASE ReadLine
    BY <1>1 DEF ReadLine, Exchange, server
  <1>2. CASE SendMessage
    <2>1. CASE link = "open"
      <3>1. waiting = <<>> /\ stream = <<>> /\ Len(printed) = sent /\ sent \in Nat
        BY <1>2, <2>1 DEF SendMessage, Exchange, TypeOK
      <3>2. waiting' = <<sent'>> /\ stream' = <<>>
        BY <1>2, <2>1, <3>1 DEF SendMessage
      <3> QED BY <1>2, <3>1, <3>2 DEF SendMessage, Exchange, Asked
    <2>2. CASE link # "open"
      BY <1>2, <2>2 DEF SendMessage, Exchange
    <2> QED BY <2>1, <2>2
  <1>3. CASE SendFails
    BY <1>3 DEF SendFails, Exchange, server
  <1>4. CASE ReadCount
    BY <1>4, ReadCountExchange
  <1>5. CASE NoCount
    BY <1>5 DEF NoCount, Ended, Exchange, server
  <1>6. CASE ReadByte
    BY <1>6, ReadByteExchange
  <1>7. CASE NoByte
    BY <1>7 DEF NoByte, Ended, Exchange, server
  <1>8. CASE ReadFails
    BY <1>8 DEF ReadFails, Exchange, server
  <1>9. CASE PrintReply
    BY <1>9, PrintExchange
  <1>10. CASE Answer
    BY <1>10, AnswerExchange
  <1>11. CASE Arrive
    BY <1>11 DEF Arrive, client, Exchange, Asked, Answered, Counted, OnStream
  <1>12. CASE ServerClose
    BY <1>12 DEF ServerClose, Exchange
  <1>13. CASE UNCHANGED vars
    BY <1>13 DEF vars, client, server, Exchange, Asked, Answered, Counted,
       OnStream
  <1> QED BY <1>1, <1>2, <1>3, <1>4, <1>5, <1>6, <1>7, <1>8, <1>9, <1>10,
             <1>11, <1>12, <1>13 DEF Next, Main

THEOREM ExchangeInv == Spec => [](TypeOK /\ Exchange)
  <1> QED BY InitTypeOK, NextTypeOK, InitExchange, NextExchange, PTL DEF Spec

(* For every number of queries and every size of a reply, cut up in any     *)
(* way: when a query goes out over a standing connection nothing of an      *)
(* earlier reply is still to come (client.cc:87-100).                       *)
THEOREM StreamDrained == Spec => []Drained
  <1>1. TypeOK /\ Exchange => Drained
    BY DEF Exchange, Drained
  <1> QED BY <1>1, ExchangeInv, PTL

-----------------------------------------------------------------------------
(* The client is the one of QueryService: a query is its Ask, the print of  *)
(* the reply its Reply.                                                     *)
LEMMA SendAsks ==
  ASSUME TypeOK, Exchange, SendMessage, link' = "open"
  PROVE  Service!Ask(Me)
  <1>1. link = "open" /\ sent \in Nat /\ sent < MaxQueries /\ sent' = sent + 1
    BY DEF SendMessage, TypeOK
  <1>2. Len(printed) = sent /\ printed' = printed
    BY <1>1 DEF SendMessage, Exchange
  <1> QED BY <1>1, <1>2 DEF Service!Ask

LEMMA PrintReplies ==
  ASSUME TypeOK, Exchange, PrintReply, link' = "open"
  PROVE  Service!Reply(Me)
  <1> DEFINE n == Len(printed)
             names == [k \in 1..n |-> [conn |-> Me, n |-> Owner(printed[k], k)]]
             names1 == [k \in 1..Len(printed') |->
                          [conn |-> Me, n |-> Owner(printed'[k], k)]]
  <1>1. link = "open"
    BY DEF PrintReply, server
  <1>2. output = Body(sent, count) /\ count \in BodySizes /\ n = sent - 1
    BY <1>1, PrintsReply
  <1>3. n \in Nat /\ sent \in Nat /\ sent = n + 1 /\ n < sent
    BY <1>2, LenProperties DEF TypeOK
  <1>4. /\ Len(printed') = n + 1 /\ printed'[n + 1] = output
        /\ \A k \in 1..n : printed'[k] = printed[k]
    BY AppendProperties DEF PrintReply, TypeOK
  <1>5. Owner(printed'[n + 1], n + 1) = n + 1
    BY <1>2, <1>3, <1>4 DEF Owner
  <1>6. Len(names) = n
    BY <1>3
  <1>7. names1 = Append(names, [conn |-> Me, n |-> n + 1])
    BY <1>3, <1>4, <1>5, <1>6
  <1>8. sent' = sent
    BY DEF PrintReply
  <1> QED BY <1>3, <1>6, <1>7, <1>8 DEF Service!Reply, Service!QueryId

LEMMA StepIsServed ==
  ASSUME TypeOK, Exchange, [Next]_vars, link' = "open"
  PROVE  Service!SNext \/ UNCHANGED Service!svars
  <1>1. CASE SendMessage
    BY <1>1, SendAsks DEF Service!SNext
  <1>2. CASE PrintReply
    BY <1>2, PrintReplies DEF Service!SNext
  <1>3. CASE sent' = sent /\ printed' = printed
    BY <1>3 DEF Service!svars
  <1> QED BY <1>1, <1>2, <1>3 DEF Next, Main, ReadLine, SendFails, ReadCount,
       NoCount, ReadByte, NoByte, ReadFails, Answer, Arrive, ServerClose, vars,
       client

(* While its connection stands the client asks one query at a time and      *)
(* prints for each the whole reply to it (client_main.cc:88-99), whatever   *)
(* the number of queries and the sizes of replies.                          *)
THEOREM IsServedClient == Spec => PlaysByService
  <1>1. TypeOK /\ Exchange /\ [Next]_vars
        => [link' = "open" => Service!SNext \/ UNCHANGED Service!svars]_vars
    BY StepIsServed
  <1> QED BY <1>1, ExchangeInv, PTL DEF Spec, PlaysByService
=============================================================================
