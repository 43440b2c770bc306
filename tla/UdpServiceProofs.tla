-------------------------- MODULE UdpServiceProofs --------------------------
(***************************************************************************)
(* Proofs about UdpService, for any number of clients, any sizes of the    *)
(* sockets' buffers and any bound on the results: the server never sleeps  *)
(* on a full socket, it never leaves every client waiting with its query   *)
(* unread, and a client that reads all its replies prints them whole.      *)
(***************************************************************************)
EXTENDS UdpService, TLAPS

-----------------------------------------------------------------------------
(* Sequences, as the sockets use them.                                      *)
LEMMA AppendFacts ==
  ASSUME NEW S, NEW s \in Seq(S), NEW e \in S
  PROVE  /\ Append(s, e) \in Seq(S) /\ Len(Append(s, e)) = Len(s) + 1
         /\ \A i \in 1..Len(s) : Append(s, e)[i] = s[i]
         /\ Append(s, e)[Len(s) + 1] = e
  OBVIOUS

LEMMA TailFacts ==
  ASSUME NEW S, NEW s \in Seq(S), s # <<>>
  PROVE  /\ Len(s) \in Nat \ {0}
         /\ Tail(s) \in Seq(S) /\ Len(Tail(s)) = Len(s) - 1
         /\ \A i \in 1..(Len(s) - 1) : Tail(s)[i] = s[i + 1]
         /\ Head(s) = s[1] /\ Head(s) \in S
  OBVIOUS

-----------------------------------------------------------------------------
(* Types.                                                                   *)
LEMMA ReceiveTypes ==
  ASSUME TypeOK, NEW c \in Clients, Receive(c)
  PROVE  /\ sock' \in [Clients -> Seq(Datagram)]
         /\ got' \in [Clients -> Seq(Datagram)]
         /\ Head(sock[c]) \in Datagram
  <1>1. /\ sock[c] \in Seq(Datagram) /\ got[c] \in Seq(Datagram)
        /\ sock[c] # <<>>
    BY DEF TypeOK, Receive
  <1>2. Head(sock[c]) \in Datagram /\ Tail(sock[c]) \in Seq(Datagram)
    BY <1>1, TailFacts
  <1>3. Append(got[c], Head(sock[c])) \in Seq(Datagram)
    BY <1>1, <1>2, AppendFacts
  <1> QED BY <1>1, <1>2, <1>3 DEF TypeOK, Receive

LEMMA ReplyType ==
  ASSUME TypeOK, pc = "reply"
  PROVE  Reply \in Datagram
  <1>1. /\ task.ask \in 0..1 /\ results \in 0..MaxResults
        /\ next \in 0..(MaxResults + 1) /\ next <= results
    BY DEF TypeOK, Query
  <1>2. next \in 0..MaxResults
    BY <1>1, UdpAssumption DEF UdpAssumption
  <1> QED BY <1>1, <1>2 DEF Reply, Datagram

LEMMA CountType ==
  ASSUME NEW d \in Datagram
  PROVE  CountIn(d) \subseteq Int
  <1>1. d.n \in Int
    BY DEF Datagram
  <1>2. Garbage \subseteq Int
    BY UdpAssumption DEF UdpAssumption
  <1> QED BY <1>1, <1>2 DEF CountIn

LEMMA ArriveTypes ==
  ASSUME TypeOK, NEW query \in Query, Arrive(query)
  PROVE  /\ inbox' \in Seq(Query) /\ Len(inbox') <= ServerBuf
         /\ edge' \in BOOLEAN
  <1>1. inbox \in Seq(Query) /\ Len(inbox) <= ServerBuf /\ edge \in BOOLEAN
    BY DEF TypeOK
  <1>2. CASE pc # "ended" /\ Len(inbox) < ServerBuf
    <2>1. inbox' = Append(inbox, query) /\ edge' = TRUE
      BY <1>2 DEF Arrive
    <2>2. Append(inbox, query) \in Seq(Query)
          /\ Len(Append(inbox, query)) = Len(inbox) + 1
      BY <1>1, AppendFacts
    <2> QED BY <1>1, <1>2, <2>1, <2>2, UdpAssumption DEF UdpAssumption
  <1>3. CASE ~(pc # "ended" /\ Len(inbox) < ServerBuf)
    BY <1>1, <1>3 DEF Arrive
  <1> QED BY <1>2, <1>3

LEMMA Typing == Spec => []TypeOK
  <1>1. Init => TypeOK
    <2> SUFFICES ASSUME Init PROVE TypeOK
      OBVIOUS
    <2>1. task \in Query
      BY DEF Init, Query
    <2>2. inbox \in Seq(Query) /\ Len(inbox) <= ServerBuf
      BY UdpAssumption DEF Init, UdpAssumption
    <2>3. results \in 0..MaxResults /\ next \in 0..(MaxResults + 1)
      BY UdpAssumption DEF Init, UdpAssumption
    <2>4. sock \in [Clients -> Seq(Datagram)] /\ got \in [Clients -> Seq(Datagram)]
      <3>1. <<>> \in Seq(Datagram)
        OBVIOUS
      <3> QED BY <3>1 DEF Init
    <2>5. /\ ask \in [Clients -> 0..1] /\ left \in [Clients -> Nat]
          /\ cpc \in [Clients -> {"stdin", "count", "records", "exited"}]
          /\ chatty \in [Clients -> BOOLEAN]
      BY DEF Init
    <2>6. pc = "wait" /\ edge = FALSE
      BY DEF Init
    <2> QED BY <2>1, <2>2, <2>3, <2>4, <2>5, <2>6 DEF TypeOK
  <1>2. TypeOK /\ [Next]_vars => TypeOK'
    <2> SUFFICES ASSUME TypeOK, [Next]_vars PROVE TypeOK'
      OBVIOUS
    <2> USE DEF server, clients
    <2>1. CASE Wake
      BY <2>1 DEF Wake, TypeOK
    <2>2. CASE ReadQuery
      <3>1. /\ task' \in Query /\ inbox' \in Seq(Query)
            /\ Len(inbox') <= ServerBuf
        BY <2>2, TailFacts, UdpAssumption DEF ReadQuery, TypeOK, UdpAssumption
      <3>2. next' \in 0..(MaxResults + 1) /\ next' <= results'
        BY <2>2, UdpAssumption DEF ReadQuery, UdpAssumption
      <3> QED BY <2>2, <3>1, <3>2 DEF ReadQuery, TypeOK
    <2>3. CASE ReadFails
      BY <2>3 DEF ReadFails, TypeOK
    <2>4. CASE SendReply
      <3>1. sock' \in [Clients -> Seq(Datagram)]
        <4>1. Reply \in Datagram
          BY <2>4, ReplyType DEF SendReply
        <4>2. task.from \in Clients
          BY DEF TypeOK, Query
        <4>3. Append(sock[task.from], Reply) \in Seq(Datagram)
          BY <4>1, <4>2, AppendFacts DEF TypeOK
        <4> QED BY <2>4, <4>2, <4>3 DEF SendReply, Deliver, TypeOK
      <3>2. /\ results' \in 0..MaxResults /\ next' \in 0..(MaxResults + 1)
            /\ pc' = "reply" => next' <= results'
            /\ pc' \in {"wait", "reply"}
        BY <2>4, UdpAssumption DEF SendReply, TypeOK, UdpAssumption
      <3> QED BY <2>4, <3>1, <3>2 DEF SendReply, TypeOK
    <2>5. CASE SendFails
      BY <2>5 DEF SendFails, TypeOK
    <2>6. CASE BadDatagram
      BY <2>6 DEF BadDatagram, TypeOK
    <2>7. ASSUME NEW c \in Clients, NEW kind \in Kinds(c), Ask(c, kind)
          PROVE  TypeOK'
      <3>1. ask' \in [Clients -> 0..1]
        BY <2>7 DEF Ask, TypeOK
      <3>2. [from |-> c, ask |-> ask'[c]] \in Query
        BY <3>1 DEF Query
      <3>3. /\ inbox' \in Seq(Query) /\ Len(inbox') <= ServerBuf
            /\ edge' \in BOOLEAN
        BY <2>7, <3>2, ArriveTypes DEF Ask
      <3> QED BY <2>7, <3>1, <3>3 DEF Ask, TypeOK
    <2>8. ASSUME NEW c \in Clients, AskFails(c)
          PROVE  TypeOK'
      BY <2>8 DEF AskFails, TypeOK
    <2>9. ASSUME NEW c \in Clients, ReadCount(c)
          PROVE  TypeOK'
      <3>1. /\ sock' \in [Clients -> Seq(Datagram)]
            /\ got' \in [Clients -> Seq(Datagram)]
            /\ Head(sock[c]) \in Datagram
        BY <2>9, ReceiveTypes DEF ReadCount
      <3>2. CountIn(Head(sock[c])) \subseteq Int
        BY <3>1, CountType
      <3>3. PICK count \in CountIn(Head(sock[c])) : Resize(c, count)
        BY <2>9 DEF ReadCount
      <3>4. count \in Int
        BY <3>2
      <3>5. /\ left' \in [Clients -> Nat]
            /\ cpc' \in [Clients -> {"stdin", "count", "records", "exited"}]
        <4>1. CASE count < 0
          BY <3>3, <4>1 DEF Resize, TypeOK
        <4>2. CASE ~(count < 0)
          <5>1. count \in Nat
            BY <3>4, <4>2
          <5> QED BY <3>3, <4>2, <5>1 DEF Resize, TypeOK
        <4> QED BY <4>1, <4>2
      <3> QED BY <2>9, <3>1, <3>5 DEF ReadCount, TypeOK
    <2>10. ASSUME NEW c \in Clients, ReadRecord(c)
           PROVE  TypeOK'
      <3>1. /\ sock' \in [Clients -> Seq(Datagram)]
            /\ got' \in [Clients -> Seq(Datagram)]
        BY <2>10, ReceiveTypes DEF ReadRecord
      <3>2. left' \in [Clients -> Nat]
        BY <2>10 DEF ReadRecord, TypeOK
      <3> QED BY <2>10, <3>1, <3>2 DEF ReadRecord, TypeOK
    <2>11. ASSUME NEW c \in Clients, PrintRecords(c)
           PROVE  TypeOK'
      BY <2>11 DEF PrintRecords, TypeOK
    <2>12. CASE UNCHANGED vars
      BY <2>12 DEF vars, TypeOK
    <2> QED
      BY <2>1, <2>2, <2>3, <2>4, <2>5, <2>6, <2>7, <2>8, <2>9, <2>10, <2>11,
         <2>12 DEF Next, ServerNext, ClientNext
  <1> QED BY <1>1, <1>2, PTL DEF Spec

(* The types hold in every reachable state.                                 *)
THEOREM TypeCorrect == Spec => []TypeOK
  BY Typing

-----------------------------------------------------------------------------
(* A full socket. Only an arrival fills it, and it sets the edge, which     *)
(* lasts until run() is about to read.                                      *)
Room == pc \in {"wait", "reply"} /\ ~edge => Len(inbox) < ServerBuf

LEMMA ArriveRoom ==
  ASSUME TypeOK, Room, pc' = pc, NEW query \in Query, Arrive(query)
  PROVE  Room'
  BY DEF Arrive, Room, TypeOK

(* The server never sleeps on a full socket.                                *)
THEOREM ServerIsNeverDeaf == Spec => []NeverDeaf
  <1>1. Init => Room
    BY UdpAssumption DEF Init, Room, UdpAssumption
  <1>2. TypeOK /\ TypeOK' /\ Room /\ [Next]_vars => Room'
    <2> SUFFICES ASSUME TypeOK, TypeOK', Room, [Next]_vars PROVE Room'
      OBVIOUS
    <2> USE DEF server, clients
    <2>1. CASE Wake
      BY <2>1 DEF Wake, Room
    <2>2. CASE ReadQuery
      <3>1. Len(inbox') = Len(inbox) - 1 /\ Len(inbox) \in Nat
        BY <2>2, TailFacts DEF ReadQuery, TypeOK
      <3> QED BY <3>1, UdpAssumption DEF Room, TypeOK, UdpAssumption
    <2>3. CASE ReadFails
      BY <2>3, UdpAssumption DEF ReadFails, Room, UdpAssumption
    <2>4. CASE SendReply
      BY <2>4 DEF SendReply, Room
    <2>5. CASE SendFails
      BY <2>5 DEF SendFails, Room
    <2>6. CASE BadDatagram
      BY <2>6 DEF BadDatagram, Room
    <2>7. ASSUME NEW c \in Clients, NEW kind \in Kinds(c), Ask(c, kind)
          PROVE  Room'
      <3>1. [from |-> c, ask |-> ask'[c]] \in Query
        BY <2>7 DEF Ask, TypeOK, Query
      <3> QED BY <2>7, <3>1, ArriveRoom DEF Ask
    <2>8. ASSUME NEW c \in Clients,
                 AskFails(c) \/ ReadCount(c) \/ ReadRecord(c) \/ PrintRecords(c)
          PROVE  Room'
      BY <2>8 DEF AskFails, ReadCount, ReadRecord, PrintRecords, Room
    <2>9. CASE UNCHANGED vars
      BY <2>9 DEF vars, Room
    <2> QED
      BY <2>1, <2>2, <2>3, <2>4, <2>5, <2>6, <2>7, <2>8, <2>9
      DEF Next, ServerNext, ClientNext
  <1>3. Room => NeverDeaf
    BY DEF Room, NeverDeaf, Sleeps
  <1> QED BY <1>1, <1>2, <1>3, Typing, PTL DEF Spec

-----------------------------------------------------------------------------
(* A client that reads all its replies asks one query at a time, and what   *)
(* is sent to it is no more than it waits for.                              *)
Once(c) ==
  \A i, j \in 1..Len(inbox) : inbox[i].from = c /\ inbox[j].from = c => i = j
Serving(c) == pc = "reply" /\ task.from = c
Unsent(c) == IF Serving(c) THEN results - next + 1 ELSE 0
Expects(c) ==
  /\ cpc[c] = "count" /\ sock[c] # <<>> =>
       sock[c][1].part = 0 /\ Len(sock[c]) + Unsent(c) <= sock[c][1].n + 1
  /\ cpc[c] = "records" => Len(sock[c]) + Unsent(c) <= left[c]
Turn(c) ==
  /\ Once(c)
  /\ Unread(c) => cpc[c] = "count" /\ sock[c] = <<>> /\ ~Serving(c)
  /\ cpc[c] \in {"stdin", "exited"} => sock[c] = <<>> /\ ~Serving(c)
  /\ Serving(c) /\ cpc[c] = "count" => (sock[c] = <<>> <=> next = 0)
  /\ Serving(c) /\ next = 0 => cpc[c] = "count"
TurnInv == \A c \in Clients : ~chatty[c] => Turn(c) /\ Expects(c)

LEMMA ReadInbox ==
  ASSUME TypeOK, ReadQuery, NEW c \in Clients
  PROVE  /\ Once(c) => Once(c)'
         /\ Unread(c)' => Unread(c)
         /\ Unread(task'.from)
         /\ Once(c) /\ task'.from = c => ~Unread(c)'
  <1>1. /\ Len(inbox) \in Nat \ {0} /\ Len(inbox') = Len(inbox) - 1
        /\ \A i \in 1..(Len(inbox) - 1) : inbox'[i] = inbox[i + 1]
        /\ task' = inbox[1]
    BY TailFacts DEF TypeOK, ReadQuery
  <1>2. \A i \in 1..Len(inbox') :
          i + 1 \in 1..Len(inbox) /\ i + 1 # 1 /\ inbox'[i] = inbox[i + 1]
    BY <1>1
  <1>3. 1 \in 1..Len(inbox)
    BY <1>1
  <1>4. \A i, j \in 1..Len(inbox') : i + 1 = j + 1 => i = j
    OBVIOUS
  <1>5. Once(c) => Once(c)'
    BY <1>2, <1>4 DEF Once
  <1>6. Unread(c)' => Unread(c)
    BY <1>2 DEF Unread
  <1>7. Unread(task'.from)
    BY <1>1, <1>3 DEF Unread
  <1>8. Once(c) /\ task'.from = c => ~Unread(c)'
    BY <1>1, <1>2, <1>3 DEF Once, Unread
  <1> QED BY <1>5, <1>6, <1>7, <1>8

LEMMA ArriveInbox ==
  ASSUME TypeOK, NEW query \in Query, Arrive(query), NEW c \in Clients
  PROVE  /\ query.from # c => (Once(c) => Once(c)') /\ (Unread(c)' <=> Unread(c))
         /\ ~Unread(c) => Once(c)'
         /\ edge => edge'
         /\ Unread(c)' => Unread(c) \/ edge'
  <1>1. CASE pc # "ended" /\ Len(inbox) < ServerBuf
    <2>1. inbox' = Append(inbox, query) /\ edge' = TRUE
      BY <1>1 DEF Arrive
    <2>2. /\ Len(inbox) \in Nat /\ Len(inbox') = Len(inbox) + 1
          /\ \A i \in 1..Len(inbox) : inbox'[i] = inbox[i]
          /\ inbox'[Len(inbox) + 1] = query
      BY <2>1, AppendFacts DEF TypeOK
    <2>3. \A i \in 1..Len(inbox') : i \in 1..Len(inbox) \/ i = Len(inbox) + 1
      BY <2>2
    <2>4. 1..Len(inbox) \subseteq 1..Len(inbox')
      BY <2>2
    <2>5. query.from # c => (Once(c) => Once(c)')
      BY <2>2, <2>3 DEF Once
    <2>6. query.from # c => (Unread(c)' <=> Unread(c))
      BY <2>2, <2>3, <2>4 DEF Unread
    <2>7. ~Unread(c) => Once(c)'
      BY <2>2, <2>3 DEF Once, Unread
    <2> QED BY <2>1, <2>5, <2>6, <2>7
  <1>2. CASE ~(pc # "ended" /\ Len(inbox) < ServerBuf)
    <2>1. inbox' = inbox /\ edge' = edge
      BY <1>2 DEF Arrive
    <2> QED BY <2>1 DEF Once, Unread
  <1> QED BY <1>1, <1>2

LEMMA FirstInSocket ==
  ASSUME TypeOK, NEW c \in Clients, sock[c] # <<>>
  PROVE  /\ sock[c][1] \in Datagram /\ sock[c][1] = Head(sock[c])
         /\ sock[c][1].n \in Int /\ Len(sock[c]) \in Nat \ {0}
  <1>1. sock[c] \in Seq(Datagram)
    BY DEF TypeOK
  <1>2. /\ sock[c][1] \in Datagram /\ sock[c][1] = Head(sock[c])
        /\ Len(sock[c]) \in Nat \ {0}
    BY <1>1, TailFacts
  <1> QED BY <1>2 DEF Datagram

LEMMA InSocket ==
  ASSUME TypeOK, NEW c \in Clients, NEW i \in 1..Len(sock[c])
  PROVE  /\ sock[c][i] \in Datagram /\ Len(sock[c]) \in Nat
         /\ sock[c][i].part \in Int /\ sock[c][i].n \in Int
  <1>1. sock[c] \in Seq(Datagram)
    BY DEF TypeOK
  <1>2. sock[c][i] \in Datagram
    BY <1>1
  <1> QED BY <1>1, <1>2 DEF Datagram

LEMMA TurnInit == Init => TurnInv
  <1> SUFFICES ASSUME Init, NEW c \in Clients PROVE Turn(c) /\ Expects(c)
    BY DEF TurnInv
  <1>1. /\ inbox = <<>> /\ pc = "wait" /\ cpc[c] = "stdin"
        /\ sock[c] = <<>> /\ Len(inbox) = 0
    BY DEF Init
  <1>2. ~Unread(c) /\ Once(c)
    BY <1>1 DEF Unread, Once
  <1> QED BY <1>1, <1>2 DEF Turn, Expects, Serving

LEMMA TurnOfServer ==
  ASSUME TypeOK, TypeOK', NEW c \in Clients, Turn(c), Expects(c),
         ServerNext \/ BadDatagram
  PROVE  Turn(c)' /\ Expects(c)'
  <1> USE DEF server, clients
  <1>1. CASE Wake
    BY <1>1 DEF Wake, Turn, Expects, Once, Unread, Serving, Unsent
  <1>2. CASE ReadQuery
    <2>1. UNCHANGED <<cpc, sock, left>> /\ next' = 0 /\ pc' = "reply" /\ pc = "read"
      BY <1>2 DEF ReadQuery
    <2>2. Once(c)' /\ (Unread(c)' => Unread(c)) /\ Unread(task'.from)
      BY <1>2, ReadInbox DEF Turn
    <2>3. CASE task'.from = c
      <3>1. ~Unread(c)' /\ Serving(c)'
        BY <1>2, <2>1, <2>3, ReadInbox DEF Turn, Serving
      <3>2. cpc[c] = "count" /\ sock[c] = <<>>
        BY <2>2, <2>3 DEF Turn
      <3> QED BY <2>1, <2>2, <3>1, <3>2 DEF Turn, Expects
    <2>4. CASE task'.from # c
      <3>1. ~Serving(c)' /\ ~Serving(c)
        BY <2>1, <2>4 DEF Serving
      <3> QED BY <2>1, <2>2, <3>1 DEF Turn, Expects, Unsent
    <2> QED BY <2>3, <2>4
  <1>3. CASE ReadFails
    BY <1>3 DEF ReadFails, Turn, Expects, Once, Unread, Serving, Unsent
  <1>4. CASE SendReply
    <2>1. /\ UNCHANGED <<inbox, cpc, left, task>> /\ pc = "reply"
          /\ next <= results /\ results \in Nat /\ next \in Nat
          /\ next = results => pc' = "wait"
          /\ next # results => pc' = "reply" /\ next' = next + 1 /\ results' = results
      BY <1>4 DEF SendReply, TypeOK
    <2>2. (Once(c)' <=> Once(c)) /\ (Unread(c)' <=> Unread(c))
      BY <2>1 DEF Once, Unread
    <2>3. CASE task.from # c
      <3>1. ~Serving(c) /\ ~Serving(c)'
        BY <2>1, <2>3 DEF Serving
      <3>2. sock'[c] = sock[c]
        BY <1>4, <2>3 DEF SendReply, Deliver, TypeOK, Query
      <3> QED BY <2>1, <2>2, <3>1, <3>2 DEF Turn, Expects, Unsent
    <2>4. CASE task.from = c
      <3>1. Serving(c) /\ Unsent(c) = results - next + 1
        BY <2>1, <2>4 DEF Serving, Unsent
      <3>2. Unsent(c)' = Unsent(c) - 1 /\ Unsent(c) \in Nat
        BY <2>1, <2>4, <3>1 DEF Serving, Unsent
      <3>3. /\ sock[c] \in Seq(Datagram) /\ Reply \in Datagram
            /\ Reply.part = next /\ Reply.n = results
        BY <2>1, ReplyType DEF TypeOK, Reply
      <3>4. \/ sock'[c] = sock[c] /\ Len(sock[c]) >= ClientBuf
            \/ sock'[c] = Append(sock[c], Reply)
        <4>1. cpc[c] # "exited"
          BY <3>1 DEF Turn
        <4>2. Len(sock[c]) \in Nat /\ ClientBuf \in Nat
          BY <3>3, UdpAssumption DEF UdpAssumption
        <4>3. sock \in [Clients -> Seq(Datagram)]
          BY DEF TypeOK
        <4>4. Deliver(c, Reply)
          BY <1>4, <2>4 DEF SendReply
        <4> QED BY <4>1, <4>2, <4>3, <4>4 DEF Deliver
      <3>5. CASE sock'[c] = sock[c] /\ Len(sock[c]) >= ClientBuf
        <4>1. sock[c] # <<>> /\ Len(sock[c]) \in Nat
          BY <3>3, <3>5, UdpAssumption DEF UdpAssumption
        <4>2. next # 0
          BY <3>1, <4>1 DEF Turn
        <4>3. Turn(c)'
          <5>1. ~Unread(c)' /\ cpc[c] \notin {"stdin", "exited"}
            BY <2>2, <3>1 DEF Turn
          <5>2. Serving(c)' => next' # 0
            BY <2>1 DEF Serving
          <5> QED BY <2>1, <2>2, <3>5, <4>1, <5>1, <5>2 DEF Turn
        <4>4. sock[c][1].n \in Int
          BY <4>1, FirstInSocket
        <4>5. left[c] \in Nat
          BY DEF TypeOK
        <4>6. /\ Len(sock'[c]) = Len(sock[c]) /\ sock'[c][1] = sock[c][1]
              /\ cpc' = cpc /\ left' = left
          BY <2>1, <3>5
        <4>7. ASSUME cpc[c] = "count"
              PROVE  sock'[c][1].part = 0
                     /\ Len(sock'[c]) + Unsent(c)' <= sock'[c][1].n + 1
          BY <3>2, <4>1, <4>4, <4>6, <4>7 DEF Expects
        <4>8. ASSUME cpc[c] = "records"
              PROVE  Len(sock'[c]) + Unsent(c)' <= left[c]
          BY <3>2, <4>1, <4>5, <4>6, <4>8 DEF Expects
        <4> QED BY <4>3, <4>6, <4>7, <4>8 DEF Expects
      <3>6. CASE sock'[c] = Append(sock[c], Reply)
        <4>1. /\ Len(sock[c]) \in Nat
              /\ Len(sock'[c]) = Len(sock[c]) + 1
              /\ \A i \in 1..Len(sock[c]) : sock'[c][i] = sock[c][i]
              /\ sock'[c][Len(sock[c]) + 1] = Reply
              /\ sock'[c] # <<>>
          BY <3>3, <3>6, AppendFacts
        <4>2. Turn(c)'
          <5>1. ~Unread(c)' /\ cpc[c] \notin {"stdin", "exited"}
            BY <2>2, <3>1 DEF Turn
          <5>2. Serving(c)' => next' # 0
            BY <2>1 DEF Serving
          <5> QED BY <2>1, <2>2, <4>1, <5>1, <5>2 DEF Turn
        <4>3. ASSUME cpc[c] = "count"
              PROVE  sock'[c][1].part = 0
                     /\ Len(sock'[c]) + Unsent(c)' <= sock'[c][1].n + 1
          <5>1. CASE sock[c] = <<>>
            <6>1. next = 0 /\ sock'[c][1] = Reply /\ Len(sock'[c]) = 1
              BY <3>1, <4>1, <4>3, <5>1 DEF Turn
            <6> QED BY <2>1, <3>1, <3>2, <3>3, <6>1
          <5>2. CASE sock[c] # <<>>
            <6>1. sock'[c][1] = sock[c][1] /\ sock[c][1] \in Datagram
              BY <3>3, <4>1, <5>2, TailFacts
            <6>2. sock[c][1].n \in Int
              BY <6>1 DEF Datagram
            <6> QED BY <3>2, <4>1, <4>3, <5>2, <6>1, <6>2 DEF Expects
          <5> QED BY <5>1, <5>2
        <4>4. ASSUME cpc[c] = "records"
              PROVE  Len(sock'[c]) + Unsent(c)' <= left[c]
          BY <3>2, <4>1, <4>4 DEF Expects, TypeOK
        <4> QED BY <2>1, <4>2, <4>3, <4>4 DEF Expects
      <3> QED BY <3>4, <3>5, <3>6
    <2> QED BY <2>3, <2>4
  <1>5. CASE SendFails
    <2>1. UNCHANGED <<inbox, cpc, sock, left>> /\ ~Serving(c)' /\ pc = "reply"
      BY <1>5 DEF SendFails, Serving
    <2>2. (Once(c)' <=> Once(c)) /\ (Unread(c)' <=> Unread(c))
      BY <2>1 DEF Once, Unread
    <2>3. Unsent(c)' = 0 /\ Unsent(c) \in Nat
      <3>1. results \in Nat /\ next \in Nat /\ next <= results
        BY <2>1 DEF TypeOK
      <3>2. results - next + 1 \in Nat
        BY <3>1
      <3> QED BY <2>1, <3>2 DEF Unsent
    <2>4. sock[c] # <<>> => sock[c][1].n \in Int
      BY FirstInSocket
    <2>5. Len(sock[c]) \in Nat /\ left[c] \in Nat
      BY DEF TypeOK
    <2>6. Turn(c)'
      BY <2>1, <2>2 DEF Turn
    <2> QED BY <2>1, <2>3, <2>4, <2>5, <2>6 DEF Expects
  <1>6. CASE BadDatagram
    BY <1>6 DEF BadDatagram, Turn, Expects, Once, Unread, Serving, Unsent
  <1> QED BY <1>1, <1>2, <1>3, <1>4, <1>5, <1>6 DEF ServerNext

(* A step of another client leaves what is c's alone, but for the queries   *)
(* that it adds to the server's socket.                                     *)
LEMMA TurnOfOther ==
  ASSUME TypeOK, TypeOK', NEW c \in Clients, Turn(c), Expects(c),
         NEW d \in Clients, d # c, ClientNext(d)
  PROVE  Turn(c)' /\ Expects(c)'
  <1> USE DEF server, clients
  <1>1. UNCHANGED <<cpc[c], sock[c], left[c], pc, task, results, next>>
    <2>1. CASE \E kind \in Kinds(d) : Ask(d, kind)
      BY <2>1 DEF Ask, TypeOK
    <2>2. CASE AskFails(d)
      BY <2>2 DEF AskFails, TypeOK
    <2>3. CASE ReadCount(d)
      BY <2>3 DEF ReadCount, Receive, Resize, TypeOK
    <2>4. CASE ReadRecord(d)
      BY <2>4 DEF ReadRecord, Receive, TypeOK
    <2>5. CASE PrintRecords(d)
      BY <2>5 DEF PrintRecords, TypeOK
    <2> QED BY <2>1, <2>2, <2>3, <2>4, <2>5 DEF ClientNext
  <1>2. (Once(c) => Once(c)') /\ (Unread(c)' <=> Unread(c))
    <2>1. CASE \E kind \in Kinds(d) : Ask(d, kind)
      <3>1. PICK kind \in Kinds(d) : Ask(d, kind)
        BY <2>1
      <3>2. [from |-> d, ask |-> ask'[d]] \in Query
        BY DEF TypeOK, Query
      <3> QED BY <3>1, <3>2, ArriveInbox DEF Ask
    <2>2. CASE ~\E kind \in Kinds(d) : Ask(d, kind)
      <3>1. inbox' = inbox
        BY <2>2 DEF ClientNext, AskFails, ReadCount, ReadRecord, PrintRecords
      <3> QED BY <3>1 DEF Once, Unread
    <2> QED BY <2>1, <2>2
  <1> QED BY <1>1, <1>2 DEF Turn, Expects, Serving, Unsent

LEMMA TurnOfSelf ==
  ASSUME TypeOK, TypeOK', NEW c \in Clients, Turn(c), Expects(c),
         ~chatty[c]', ClientNext(c)
  PROVE  Turn(c)' /\ Expects(c)'
  <1> USE DEF server, clients
  <1>1. ASSUME NEW kind \in Kinds(c), Ask(c, kind)
        PROVE  Turn(c)' /\ Expects(c)'
    <2>1. kind \in Awaited
      BY <1>1 DEF Ask, TypeOK
    <2>2. /\ cpc[c] = "stdin" /\ cpc'[c] = "count"
          /\ UNCHANGED <<pc, task, sock>>
      BY <1>1, <2>1 DEF Ask, TypeOK
    <2>3. sock'[c] = <<>> /\ ~Serving(c)' /\ ~Unread(c)
      BY <2>2 DEF Turn, Serving
    <2>4. [from |-> c, ask |-> ask'[c]] \in Query
      BY DEF TypeOK, Query
    <2>5. Once(c)'
      BY <1>1, <2>3, <2>4, ArriveInbox DEF Ask
    <2> QED BY <2>2, <2>3, <2>5 DEF Turn, Expects
  <1>2. CASE AskFails(c)
    <2>1. /\ cpc[c] = "stdin" /\ cpc'[c] = "exited" /\ sock'[c] = <<>>
          /\ UNCHANGED <<pc, task, inbox>>
      BY <1>2 DEF AskFails, TypeOK
    <2>2. ~Serving(c)' /\ ~Unread(c) /\ ~Unread(c)' /\ Once(c)'
      BY <2>1 DEF Turn, Serving, Unread, Once
    <2> QED BY <2>1, <2>2 DEF Turn, Expects
  <1>3. CASE ReadCount(c)
    <2>1. /\ cpc[c] = "count" /\ sock[c] # <<>>
          /\ sock'[c] = Tail(sock[c]) /\ UNCHANGED <<pc, task, inbox, results, next>>
      BY <1>3 DEF ReadCount, Receive, TypeOK
    <2>2. /\ sock[c][1].part = 0 /\ Len(sock[c]) + Unsent(c) <= sock[c][1].n + 1
          /\ sock[c][1] = Head(sock[c]) /\ sock[c][1] \in Datagram
          /\ Len(sock[c]) \in Nat
      BY <2>1, FirstInSocket DEF Expects
    <2>3. sock[c][1].n \in Nat
      BY <2>2 DEF Datagram
    <2>4. CountIn(Head(sock[c])) = {sock[c][1].n}
      BY <2>2 DEF CountIn
    <2>5. Resize(c, sock[c][1].n)
      BY <1>3, <2>4 DEF ReadCount
    <2>6. cpc'[c] = "records" /\ left'[c] = sock[c][1].n
      BY <2>3, <2>5 DEF Resize, TypeOK
    <2>7. Len(sock'[c]) = Len(sock[c]) - 1
      BY <2>1, TailFacts DEF TypeOK
    <2>8. ~Unread(c) /\ ~Unread(c)' /\ Once(c)' /\ (Serving(c)' <=> Serving(c))
      BY <2>1 DEF Turn, Unread, Once, Serving
    <2>9. Unsent(c)' = Unsent(c)
      BY <2>1, <2>8 DEF Unsent
    <2>10. Serving(c) => next # 0
      BY <2>1 DEF Turn
    <2>11. Turn(c)'
      BY <2>1, <2>6, <2>8, <2>10 DEF Turn
    <2>12. Unsent(c) \in Int
      BY DEF Unsent, TypeOK
    <2> QED BY <2>2, <2>3, <2>6, <2>7, <2>9, <2>11, <2>12 DEF Expects
  <1>4. CASE ReadRecord(c)
    <2>1. /\ cpc[c] = "records" /\ cpc' = cpc /\ sock[c] # <<>>
          /\ sock'[c] = Tail(sock[c]) /\ left'[c] = left[c] - 1
          /\ UNCHANGED <<pc, task, inbox, results, next>>
      BY <1>4 DEF ReadRecord, Receive, TypeOK
    <2>2. Len(sock'[c]) = Len(sock[c]) - 1 /\ Len(sock[c]) \in Nat
      BY <2>1, TailFacts DEF TypeOK
    <2>3. ~Unread(c) /\ ~Unread(c)' /\ Once(c)' /\ (Serving(c)' <=> Serving(c))
      BY <2>1 DEF Turn, Unread, Once, Serving
    <2>4. Unsent(c)' = Unsent(c) /\ Unsent(c) \in Int /\ left[c] \in Nat
      BY <2>1, <2>3 DEF Unsent, TypeOK
    <2>5. Turn(c)'
      BY <2>1, <2>3 DEF Turn
    <2>6. Len(sock[c]) + Unsent(c) <= left[c]
      BY <2>1 DEF Expects
    <2> QED BY <2>1, <2>2, <2>4, <2>5, <2>6 DEF Expects
  <1>5. CASE PrintRecords(c)
    <2>1. /\ cpc[c] = "records" /\ left[c] = 0 /\ cpc'[c] = "stdin"
          /\ UNCHANGED <<pc, task, inbox, results, next, sock>>
      BY <1>5 DEF PrintRecords, TypeOK
    <2>2. Len(sock[c]) + Unsent(c) <= 0 /\ Len(sock[c]) \in Nat
      BY <2>1 DEF Expects, TypeOK
    <2>3. Serving(c) => Unsent(c) \in Nat \ {0}
      <3> SUFFICES ASSUME Serving(c) PROVE Unsent(c) \in Nat \ {0}
        OBVIOUS
      <3>1. Unsent(c) = results - next + 1 /\ pc = "reply"
        BY DEF Unsent, Serving
      <3>2. results \in Nat /\ next \in Nat /\ next <= results
        BY <3>1 DEF TypeOK
      <3> QED BY <3>1, <3>2
    <2>4. ~Serving(c) => Unsent(c) = 0
      BY DEF Unsent
    <2>5. ~Serving(c) /\ Len(sock[c]) = 0
      BY <2>2, <2>3, <2>4
    <2>6. sock[c] = <<>>
      BY <2>5 DEF TypeOK
    <2>7. ~Unread(c)' /\ Once(c)' /\ ~Serving(c)'
      BY <2>1, <2>5 DEF Turn, Unread, Once, Serving
    <2> QED BY <2>1, <2>6, <2>7 DEF Turn, Expects
  <1> QED BY <1>1, <1>2, <1>3, <1>4, <1>5 DEF ClientNext

LEMMA ChattyStays ==
  ASSUME TypeOK, [Next]_vars, NEW c \in Clients, ~chatty'[c]
  PROVE  ~chatty[c]
  BY DEF TypeOK, Next, ServerNext, ClientNext, vars, server, clients, Wake,
         ReadQuery, ReadFails, SendReply, SendFails, BadDatagram, Ask, AskFails,
         ReadCount, ReadRecord, PrintRecords

LEMMA Turns == Spec => []TurnInv
  <1>1. TypeOK /\ TypeOK' /\ TurnInv /\ [Next]_vars => TurnInv'
    <2> SUFFICES ASSUME TypeOK, TypeOK', TurnInv, [Next]_vars,
                        NEW c \in Clients, ~chatty'[c]
                 PROVE  Turn(c)' /\ Expects(c)'
      BY DEF TurnInv
    <2>1. Turn(c) /\ Expects(c)
      BY ChattyStays DEF TurnInv
    <2>2. CASE ServerNext \/ BadDatagram
      BY <2>1, <2>2, TurnOfServer
    <2>3. ASSUME NEW d \in Clients, ClientNext(d)
          PROVE  Turn(c)' /\ Expects(c)'
      BY <2>1, <2>3, TurnOfOther, TurnOfSelf
    <2>4. CASE UNCHANGED vars
      BY <2>1, <2>4 DEF vars, server, clients, Turn, Expects, Once, Unread,
                        Serving, Unsent
    <2> QED BY <2>2, <2>3, <2>4 DEF Next
  <1> QED BY <1>1, TurnInit, Typing, PTL DEF Spec

-----------------------------------------------------------------------------
(* The client whose query was read last has none in the server's socket,    *)
(* until it sends one, and that one comes with an edge or is dropped.       *)
SomeRead ==
  AllReadReplies =>
    /\ pc = "reply" => ~Unread(task.from)
    /\ pc = "wait" /\ ~edge => \E c \in Clients : ~Unread(c)

(* As long as every client reads its replies, the server never sleeps with  *)
(* a query of each of them unread.                                          *)
THEOREM NeverStuck == Spec => []NotAllStuck
  <1>1. Init => SomeRead
    BY UdpAssumption DEF Init, SomeRead, Unread, UdpAssumption
  <1>2. TypeOK /\ TypeOK' /\ TurnInv /\ SomeRead /\ [Next]_vars => SomeRead'
    <2> SUFFICES ASSUME TypeOK, TypeOK', TurnInv, SomeRead, [Next]_vars,
                        AllReadReplies'
                 PROVE  /\ pc' = "reply" => ~Unread(task.from)'
                        /\ pc' = "wait" /\ ~edge' => \E c \in Clients : ~Unread(c)'
      BY DEF SomeRead
    <2>1. AllReadReplies
      BY ChattyStays DEF AllReadReplies
    <2>2. \A c \in Clients : Turn(c)
      BY <2>1 DEF AllReadReplies, TurnInv
    <2>3. task.from \in Clients /\ task'.from \in Clients
      BY DEF TypeOK, Query
    <2> USE DEF server, clients
    <2>4. CASE Wake
      BY <2>4 DEF Wake
    <2>5. CASE ReadQuery
      <3>1. PICK c \in Clients : c = task'.from
        BY <2>3
      <3>2. ~Unread(c)'
        BY <2>2, <2>5, <3>1, ReadInbox DEF Turn
      <3>3. ~Unread(task.from)'
        BY <3>1, <3>2 DEF Unread
      <3> QED BY <2>5, <3>3 DEF ReadQuery
    <2>6. CASE ReadFails
      BY <2>6, UdpAssumption DEF ReadFails, Unread, UdpAssumption
    <2>7. CASE SendReply
      BY <2>1, <2>3, <2>7 DEF SendReply, SomeRead, Unread
    <2>8. CASE SendFails
      BY <2>8 DEF SendFails
    <2>9. CASE BadDatagram
      BY <2>1, <2>9 DEF BadDatagram, SomeRead, Unread
    <2>10. ASSUME NEW c \in Clients, NEW kind \in Kinds(c), Ask(c, kind)
           PROVE  /\ pc' = "reply" => ~Unread(task.from)'
                  /\ pc' = "wait" /\ ~edge' => \E d \in Clients : ~Unread(d)'
      <3>1. [from |-> c, ask |-> ask'[c]] \in Query
        BY DEF TypeOK, Query
      <3>2. /\ UNCHANGED <<pc, task>> /\ cpc[c] = "stdin"
            /\ Arrive([from |-> c, ask |-> ask'[c]])
        BY <2>10 DEF Ask
      <3>3. \A d \in Clients : /\ c # d => (Unread(d)' <=> Unread(d))
                               /\ edge => edge'
                               /\ Unread(d)' => Unread(d) \/ edge'
        BY <3>1, <3>2, ArriveInbox
      <3>4. pc = "reply" => task.from # c
        BY <2>2, <3>2 DEF Turn, Serving
      <3>5. pc' = "reply" => ~Unread(task.from)'
        <4> SUFFICES ASSUME pc = "reply" PROVE ~Unread(task.from)'
          BY <3>2
        <4>1. PICK d \in Clients : d = task.from
          BY <2>3
        <4>2. ~Unread(d) /\ c # d /\ task' = task
          BY <2>1, <3>2, <3>4, <4>1 DEF SomeRead, Unread
        <4>3. ~Unread(d)'
          BY <3>3, <4>2
        <4> QED BY <4>1, <4>2, <4>3 DEF Unread
      <3>6. pc' = "wait" /\ ~edge' => \E d \in Clients : ~Unread(d)'
        BY <2>1, <3>2, <3>3 DEF SomeRead
      <3> QED BY <3>5, <3>6
    <2>11. ASSUME NEW c \in Clients,
                  AskFails(c) \/ ReadCount(c) \/ ReadRecord(c) \/ PrintRecords(c)
           PROVE  /\ pc' = "reply" => ~Unread(task.from)'
                  /\ pc' = "wait" /\ ~edge' => \E d \in Clients : ~Unread(d)'
      <3>1. UNCHANGED <<pc, edge, inbox, task>>
        BY <2>11 DEF AskFails, ReadCount, ReadRecord, PrintRecords
      <3> QED BY <2>1, <3>1 DEF SomeRead, Unread
    <2>12. CASE UNCHANGED vars
      BY <2>1, <2>12 DEF vars, SomeRead, Unread
    <2> QED
      BY <2>4, <2>5, <2>6, <2>7, <2>8, <2>9, <2>10, <2>11, <2>12
      DEF Next, ServerNext, ClientNext
  <1>3. SomeRead => NotAllStuck
    BY DEF SomeRead, NotAllStuck, Sleeps
  <1> QED BY <1>1, <1>2, <1>3, Typing, Turns, PTL DEF Spec

-----------------------------------------------------------------------------
(* What is under way to a client that reads all its replies is a part of    *)
(* the reply to its last query, in order, perhaps with gaps; a gap leaves   *)
(* it waiting, because the count counts the lost results too.               *)
Ordered(c) ==
  /\ \A i \in 1..Len(inbox) : inbox[i].from = c => inbox[i].ask = ask[c]
  /\ Serving(c) => task.ask = ask[c]
  /\ \A i \in 1..Len(sock[c]) :
       /\ sock[c][i].ask = ask[c] /\ sock[c][i].part <= sock[c][i].n
       /\ Serving(c) => sock[c][i].n = results /\ sock[c][i].part < next
  /\ \A i, j \in 1..Len(sock[c]) :
       /\ sock[c][i].n = sock[c][j].n
       /\ i < j => sock[c][i].part < sock[c][j].part
Last(c) == got[c][Len(got[c])]
Prefix(c) ==
  /\ Len(got[c]) + left[c] = Last(c).n + 1
  /\ Last(c).part <= Last(c).n
  /\ Serving(c) => Last(c).n = results /\ Last(c).part < next
  /\ \A i \in 1..Len(sock[c]) :
       sock[c][i].n = Last(c).n /\ Last(c).part < sock[c][i].part
  /\ \A i \in 1..Len(got[c]) :
       /\ got[c][i].ask = ask[c] /\ got[c][i].n = Last(c).n
       /\ i - 1 <= got[c][i].part
       /\ got[c][i].part + Len(got[c]) - i <= Last(c).part
Collected(c) ==
  IF cpc[c] = "records" THEN got[c] # <<>> /\ Prefix(c) ELSE got[c] = <<>>
OrderInv == \A c \in Clients : ~chatty[c] => Ordered(c) /\ Collected(c)

LEMMA OrderInit == Init => OrderInv
  <1> SUFFICES ASSUME Init, NEW c \in Clients
               PROVE  Ordered(c) /\ Collected(c)
    BY DEF OrderInv
  <1>1. /\ inbox = <<>> /\ sock[c] = <<>> /\ got[c] = <<>> /\ cpc[c] = "stdin"
        /\ pc = "wait" /\ Len(inbox) = 0 /\ Len(sock[c]) = 0
    BY DEF Init
  <1> QED BY <1>1 DEF Ordered, Collected, Serving

(* A step that leaves a client's query, socket and reading alone, while the *)
(* server is not answering it.                                              *)
LEMMA OrderFrame ==
  ASSUME NEW c \in Clients, Ordered(c), Collected(c), ~Serving(c)',
         UNCHANGED inbox, ask'[c] = ask[c], sock'[c] = sock[c], cpc'[c] = cpc[c],
         left'[c] = left[c], got'[c] = got[c]
  PROVE  Ordered(c)' /\ Collected(c)'
  <1>1. Ordered(c)'
    BY DEF Ordered
  <1>2. Prefix(c) => Prefix(c)'
    BY DEF Prefix, Last
  <1>3. Collected(c)'
    BY <1>2 DEF Collected
  <1> QED BY <1>1, <1>3

LEMMA OrderOfServer ==
  ASSUME TypeOK, TypeOK', NEW c \in Clients, Turn(c), Ordered(c), Collected(c),
         ServerNext \/ BadDatagram
  PROVE  Ordered(c)' /\ Collected(c)'
  <1> USE DEF server, clients
  <1>1. CASE Wake
    <2>1. UNCHANGED <<inbox, cpc, ask, sock, left, got>> /\ ~Serving(c)'
      BY <1>1 DEF Wake, Serving
    <2> QED BY <2>1, OrderFrame
  <1>2. CASE ReadQuery
    <2>1. /\ UNCHANGED <<cpc, ask, sock, left, got>> /\ ~Serving(c)
          /\ next' = 0 /\ pc' = "reply"
      BY <1>2 DEF ReadQuery, Serving
    <2>2. /\ Len(inbox) \in Nat \ {0} /\ Len(inbox') = Len(inbox) - 1
          /\ \A i \in 1..(Len(inbox) - 1) : inbox'[i] = inbox[i + 1]
          /\ task' = inbox[1]
      BY <1>2, TailFacts DEF TypeOK, ReadQuery
    <2>3. \A i \in 1..Len(inbox') :
            i + 1 \in 1..Len(inbox) /\ inbox'[i] = inbox[i + 1]
      BY <2>2
    <2>4. \A i \in 1..Len(inbox') : inbox'[i].from = c => inbox'[i].ask = ask[c]
      BY <2>3 DEF Ordered
    <2>5. 1 \in 1..Len(inbox)
      BY <2>2
    <2>6. Serving(c)' => task'.ask = ask[c]
      BY <2>2, <2>5 DEF Ordered, Serving
    <2>7. Serving(c)' => sock[c] = <<>> /\ cpc[c] = "count"
      BY <2>2, <2>5 DEF Turn, Unread, Serving
    <2>8. sock[c] = <<>> => Len(sock[c]) = 0
      OBVIOUS
    <2> QED BY <2>1, <2>4, <2>6, <2>7, <2>8 DEF Ordered, Collected, Prefix, Last
  <1>3. CASE ReadFails
    <2>1. UNCHANGED <<inbox, cpc, ask, sock, left, got>> /\ ~Serving(c)'
      BY <1>3 DEF ReadFails, Serving
    <2> QED BY <2>1, OrderFrame
  <1>4. CASE SendReply
    <2>1. /\ UNCHANGED <<inbox, cpc, ask, left, got, task>> /\ pc = "reply"
          /\ next <= results /\ results \in Nat /\ next \in Nat
          /\ next = results => pc' = "wait"
          /\ next # results => pc' = "reply" /\ next' = next + 1 /\ results' = results
      BY <1>4 DEF SendReply, TypeOK
    <2>2. CASE task.from # c
      <3>1. ~Serving(c) /\ ~Serving(c)'
        BY <2>1, <2>2 DEF Serving
      <3>2. sock'[c] = sock[c]
        BY <1>4, <2>2 DEF SendReply, Deliver, TypeOK, Query
      <3> QED BY <2>1, <3>1, <3>2, OrderFrame
    <2>3. CASE task.from = c
      <3>1. Serving(c) /\ (Serving(c)' => results' = results /\ next' = next + 1)
        BY <2>1, <2>3 DEF Serving
      <3>2. /\ sock[c] \in Seq(Datagram) /\ Reply \in Datagram
            /\ Reply.part = next /\ Reply.n = results /\ Reply.ask = ask[c]
        BY <2>1, <3>1, ReplyType DEF TypeOK, Reply, Ordered
      <3>3. \/ sock'[c] = sock[c]
            \/ sock'[c] = Append(sock[c], Reply)
        BY <1>4, <2>3, <3>2 DEF SendReply, Deliver, TypeOK
      <3>4. /\ \A i \in 1..Len(sock[c]) :
                 sock[c][i].part \in Int /\ sock[c][i].n \in Int
            /\ Len(sock[c]) \in Nat
        BY <3>2, InSocket
      <3>5. /\ sock'[c] \in Seq(Datagram)
            /\ Len(sock'[c]) \in {Len(sock[c]), Len(sock[c]) + 1}
            /\ \A i \in 1..Len(sock[c]) : sock'[c][i] = sock[c][i]
            /\ Len(sock'[c]) = Len(sock[c]) + 1 => sock'[c][Len(sock[c]) + 1] = Reply
        <4>1. CASE sock'[c] = sock[c]
          BY <3>2, <3>4, <4>1
        <4>2. CASE sock'[c] = Append(sock[c], Reply)
          BY <3>2, <4>2, AppendFacts
        <4> QED BY <3>3, <4>1, <4>2
      <3>6. \A i \in 1..Len(sock'[c]) :
              \/ i \in 1..Len(sock[c]) /\ sock'[c][i] = sock[c][i]
              \/ i = Len(sock[c]) + 1 /\ sock'[c][i] = Reply
        BY <3>4, <3>5
      <3>7. \A i \in 1..Len(sock'[c]) :
              /\ sock'[c][i].ask = ask[c] /\ sock'[c][i].n = results
              /\ sock'[c][i].part <= results /\ sock'[c][i].part < next + 1
        <4> SUFFICES ASSUME NEW i \in 1..Len(sock'[c])
                     PROVE  /\ sock'[c][i].ask = ask[c] /\ sock'[c][i].n = results
                            /\ sock'[c][i].part <= results
                            /\ sock'[c][i].part < next + 1
          OBVIOUS
        <4>1. CASE i \in 1..Len(sock[c]) /\ sock'[c][i] = sock[c][i]
          <5>1. /\ sock[c][i].ask = ask[c] /\ sock[c][i].n = results
                /\ sock[c][i].part < next /\ sock[c][i].part <= sock[c][i].n
            BY <3>1, <4>1 DEF Ordered
          <5>2. sock[c][i].part \in Int
            BY <3>4, <4>1
          <5> QED BY <2>1, <4>1, <5>1, <5>2
        <4>2. CASE sock'[c][i] = Reply
          BY <2>1, <3>2, <4>2
        <4> QED BY <3>6, <4>1, <4>2
      <3>8. \A i, j \in 1..Len(sock'[c]) :
              i < j => sock'[c][i].part < sock'[c][j].part
        <4> SUFFICES ASSUME NEW i \in 1..Len(sock'[c]), NEW j \in 1..Len(sock'[c]),
                            i < j
                     PROVE  sock'[c][i].part < sock'[c][j].part
          OBVIOUS
        <4>1. i \in 1..Len(sock[c]) /\ sock'[c][i] = sock[c][i]
          BY <3>4, <3>5, <3>6
        <4>2. CASE j \in 1..Len(sock[c])
          BY <3>5, <4>1, <4>2 DEF Ordered
        <4>3. CASE j = Len(sock[c]) + 1 /\ sock'[c][j] = Reply
          BY <3>1, <3>2, <4>1, <4>3 DEF Ordered
        <4> QED BY <3>6, <4>2, <4>3
      <3>9. Ordered(c)'
        BY <2>1, <3>1, <3>7, <3>8 DEF Ordered
      <3>10. ASSUME cpc[c] = "records"
             PROVE  Prefix(c)'
        <4>1. Prefix(c) /\ got[c] # <<>> /\ got' = got /\ left' = left /\ ask' = ask
          BY <2>1, <3>10 DEF Collected
        <4>2. Last(c)' = Last(c) /\ Last(c) \in Datagram
          BY <4>1, TailFacts DEF Last, TypeOK
        <4>3. Last(c).part \in Int /\ Last(c).part < next /\ Last(c).n = results
          BY <3>1, <4>1, <4>2 DEF Prefix, Datagram
        <4>4. \A i \in 1..Len(sock'[c]) :
                sock'[c][i].n = Last(c).n /\ Last(c).part < sock'[c][i].part
          BY <3>2, <3>6, <3>7, <4>1, <4>3 DEF Prefix
        <4>5. Serving(c)' => Last(c).n = results' /\ Last(c).part < next'
          BY <2>1, <3>1, <4>3
        <4> QED BY <4>1, <4>2, <4>4, <4>5 DEF Prefix
      <3> QED BY <2>1, <3>9, <3>10 DEF Collected
    <2> QED BY <2>2, <2>3
  <1>5. CASE SendFails
    BY <1>5 DEF SendFails, Ordered, Collected, Prefix, Last, Serving
  <1>6. CASE BadDatagram
    BY <1>6 DEF BadDatagram, Ordered, Collected, Prefix, Last, Serving
  <1> QED BY <1>1, <1>2, <1>3, <1>4, <1>5, <1>6 DEF ServerNext

LEMMA InGot ==
  ASSUME TypeOK, NEW c \in Clients, NEW i \in 1..Len(got[c])
  PROVE  /\ got[c][i] \in Datagram /\ Len(got[c]) \in Nat
         /\ got[c][i].part \in Int /\ got[c][i].n \in Int
         /\ got[c][i] = [ask |-> got[c][i].ask, n |-> got[c][i].n,
                         part |-> got[c][i].part]
  <1>1. got[c] \in Seq(Datagram)
    BY DEF TypeOK
  <1>2. got[c][i] \in Datagram
    BY <1>1
  <1> QED BY <1>1, <1>2 DEF Datagram

LEMMA LastInGot ==
  ASSUME TypeOK, NEW c \in Clients, got[c] # <<>>
  PROVE  /\ Len(got[c]) \in Nat \ {0} /\ Len(got[c]) \in 1..Len(got[c])
         /\ Last(c).part \in Int /\ Last(c).n \in Int
  <1>1. got[c] \in Seq(Datagram)
    BY DEF TypeOK
  <1>2. Len(got[c]) \in Nat \ {0}
    BY <1>1, TailFacts
  <1>3. Len(got[c]) \in 1..Len(got[c])
    BY <1>2
  <1> QED BY <1>2, <1>3, InGot DEF Last

(* A bound that grows by one with the length.                               *)
LEMMA Grows ==
  ASSUME NEW len \in Int, NEW p \in Int, NEW q \in Int, NEW r \in Int,
         NEW i \in Int, p + len - i <= q, q < r
  PROVE  p + (len + 1) - i <= r
  OBVIOUS

(* One recv: the head of the socket moves to the end of what was read.      *)
LEMMA Received ==
  ASSUME TypeOK, NEW c \in Clients, ~chatty[c], Receive(c)
  PROVE  /\ Len(sock[c]) \in Nat \ {0} /\ Len(sock'[c]) = Len(sock[c]) - 1
         /\ \A i \in 1..Len(sock'[c]) :
              i + 1 \in 1..Len(sock[c]) /\ sock'[c][i] = sock[c][i + 1]
         /\ Len(got[c]) \in Nat /\ Len(got'[c]) = Len(got[c]) + 1
         /\ got'[c] # <<>>
         /\ \A i \in 1..Len(got[c]) : got'[c][i] = got[c][i]
         /\ got'[c][Len(got[c]) + 1] = sock[c][1]
         /\ 1 \in 1..Len(sock[c])
  <1>1. /\ sock[c] \in Seq(Datagram) /\ got[c] \in Seq(Datagram)
        /\ sock[c] # <<>> /\ sock'[c] = Tail(sock[c])
        /\ got'[c] = Append(got[c], Head(sock[c]))
    BY DEF TypeOK, Receive
  <1>2. /\ Len(sock[c]) \in Nat \ {0} /\ Len(sock'[c]) = Len(sock[c]) - 1
        /\ \A i \in 1..(Len(sock[c]) - 1) : sock'[c][i] = sock[c][i + 1]
        /\ Head(sock[c]) = sock[c][1] /\ Head(sock[c]) \in Datagram
    BY <1>1, TailFacts
  <1>3. /\ Len(got'[c]) = Len(got[c]) + 1 /\ Len(got[c]) \in Nat
        /\ \A i \in 1..Len(got[c]) : got'[c][i] = got[c][i]
        /\ got'[c][Len(got[c]) + 1] = Head(sock[c]) /\ got'[c] # <<>>
    BY <1>1, <1>2, AppendFacts
  <1> QED BY <1>2, <1>3

(* What stays in the socket keeps its order.                                *)
LEMMA TailOrdered ==
  ASSUME TypeOK, NEW c \in Clients, ~chatty[c], Receive(c), Ordered(c),
         UNCHANGED <<server, ask>>
  PROVE  /\ Ordered(c)'
         /\ \A i \in 1..Len(sock'[c]) :
              /\ sock'[c][i].n = sock[c][1].n
              /\ sock[c][1].part < sock'[c][i].part
  <1>1. \A i \in 1..Len(sock'[c]) :
          i + 1 \in 1..Len(sock[c]) /\ sock'[c][i] = sock[c][i + 1]
    BY Received
  <1>2. \A i, j \in 1..Len(sock'[c]) : i < j => i + 1 < j + 1
    OBVIOUS
  <1>3. UNCHANGED <<inbox, pc, task, results, next, ask>>
    BY DEF server
  <1>4. Ordered(c)'
    <2>1. (Serving(c)' <=> Serving(c)) /\ next' = next /\ results' = results
      BY <1>3 DEF Serving
    <2>2. /\ \A i \in 1..Len(inbox') : inbox'[i].from = c => inbox'[i].ask = ask'[c]
          /\ Serving(c)' => task'.ask = ask'[c]
      BY <1>3, <2>1 DEF Ordered
    <2>3. \A i \in 1..Len(sock'[c]) :
            /\ sock'[c][i].ask = ask'[c] /\ sock'[c][i].part <= sock'[c][i].n
            /\ Serving(c)' => sock'[c][i].n = results' /\ sock'[c][i].part < next'
      BY <1>1, <1>3, <2>1 DEF Ordered
    <2>4. ASSUME NEW i \in 1..Len(sock'[c]), NEW j \in 1..Len(sock'[c])
          PROVE  /\ sock'[c][i].n = sock'[c][j].n
                 /\ i < j => sock'[c][i].part < sock'[c][j].part
      <3>1. /\ i + 1 \in 1..Len(sock[c]) /\ sock'[c][i] = sock[c][i + 1]
            /\ j + 1 \in 1..Len(sock[c]) /\ sock'[c][j] = sock[c][j + 1]
        BY <1>1
      <3>2. i < j => i + 1 < j + 1
        BY <1>2
      <3> QED BY <3>1, <3>2 DEF Ordered
    <2> QED BY <2>2, <2>3, <2>4 DEF Ordered
  <1>5. 1 \in 1..Len(sock[c])
    BY Received
  <1>6. ASSUME NEW i \in 1..Len(sock'[c])
        PROVE  /\ sock'[c][i].n = sock[c][1].n
               /\ sock[c][1].part < sock'[c][i].part
    <2>1. i + 1 \in 1..Len(sock[c]) /\ 1 < i + 1 /\ sock'[c][i] = sock[c][i + 1]
      BY <1>1
    <2> QED BY <1>5, <2>1 DEF Ordered
  <1> QED BY <1>4, <1>6

LEMMA OrderOfOther ==
  ASSUME TypeOK, TypeOK', NEW c \in Clients, Ordered(c), Collected(c),
         NEW d \in Clients, d # c, ClientNext(d)
  PROVE  Ordered(c)' /\ Collected(c)'
  <1> USE DEF server, clients
  <1>1. UNCHANGED <<cpc[c], ask[c], sock[c], left[c], got[c], pc, task, results, next>>
    <2>1. CASE \E kind \in Kinds(d) : Ask(d, kind)
      BY <2>1 DEF Ask, TypeOK
    <2>2. CASE AskFails(d)
      BY <2>2 DEF AskFails, TypeOK
    <2>3. CASE ReadCount(d)
      BY <2>3 DEF ReadCount, Receive, Resize, TypeOK
    <2>4. CASE ReadRecord(d)
      BY <2>4 DEF ReadRecord, Receive, TypeOK
    <2>5. CASE PrintRecords(d)
      BY <2>5 DEF PrintRecords, TypeOK
    <2> QED BY <2>1, <2>2, <2>3, <2>4, <2>5 DEF ClientNext
  <1>2. \A i \in 1..Len(inbox') : inbox'[i].from = c => inbox'[i].ask = ask[c]
    <2>1. CASE inbox' = inbox
      BY <2>1 DEF Ordered
    <2>2. CASE inbox' # inbox
      <3>1. PICK kind \in Kinds(d) : Ask(d, kind)
        BY <2>2 DEF ClientNext, AskFails, ReadCount, ReadRecord, PrintRecords
      <3>2. /\ [from |-> d, ask |-> ask'[d]] \in Query
            /\ inbox' = Append(inbox, [from |-> d, ask |-> ask'[d]])
        BY <2>2, <3>1 DEF Ask, Arrive, TypeOK, Query
      <3>3. \A i \in 1..Len(inbox') :
              \/ i \in 1..Len(inbox) /\ inbox'[i] = inbox[i]
              \/ inbox'[i] = [from |-> d, ask |-> ask'[d]]
        <4> DEFINE e == [from |-> d, ask |-> ask'[d]]
        <4>1. inbox \in Seq(Query) /\ e \in Query /\ inbox' = Append(inbox, e)
          BY <3>2 DEF TypeOK
        <4> HIDE DEF e
        <4>2. Len(inbox) \in Nat
          BY <4>1
        <4>3. /\ Len(inbox') = Len(inbox) + 1
              /\ \A i \in 1..Len(inbox) : inbox'[i] = inbox[i]
              /\ inbox'[Len(inbox) + 1] = e
          BY <4>1, AppendFacts
        <4> QED BY <4>2, <4>3 DEF e
      <3> QED BY <3>3 DEF Ordered
    <2> QED BY <2>1, <2>2
  <1> QED BY <1>1, <1>2 DEF Ordered, Collected, Prefix, Last, Serving

LEMMA OrderOfSelf ==
  ASSUME TypeOK, TypeOK', NEW c \in Clients, Turn(c), Expects(c),
         Ordered(c), Collected(c), ~chatty[c], ~chatty[c]', ClientNext(c)
  PROVE  Ordered(c)' /\ Collected(c)'
  <1>1. ASSUME NEW kind \in Kinds(c), Ask(c, kind)
        PROVE  Ordered(c)' /\ Collected(c)'
    <2>1. kind \in Awaited
      BY <1>1 DEF Ask, TypeOK
    <2>2. /\ cpc[c] = "stdin" /\ cpc'[c] = "count"
          /\ UNCHANGED <<pc, task, sock, got>>
          /\ Arrive([from |-> c, ask |-> ask'[c]])
      BY <1>1, <2>1 DEF Ask, TypeOK
    <2>3. sock'[c] = <<>> /\ Len(sock'[c]) = 0 /\ ~Serving(c)' /\ ~Unread(c)
      BY <2>2 DEF Turn, Serving
    <2>4. [from |-> c, ask |-> ask'[c]] \in Query
      BY DEF TypeOK, Query
    <2>5. \A i \in 1..Len(inbox') :
            \/ i \in 1..Len(inbox) /\ inbox'[i] = inbox[i]
            \/ inbox'[i] = [from |-> c, ask |-> ask'[c]]
      <3>1. CASE inbox' = Append(inbox, [from |-> c, ask |-> ask'[c]])
        <4>1. /\ Len(inbox') = Len(inbox) + 1 /\ Len(inbox) \in Nat
              /\ \A i \in 1..Len(inbox) : inbox'[i] = inbox[i]
              /\ inbox'[Len(inbox) + 1] = [from |-> c, ask |-> ask'[c]]
          BY <2>4, <3>1, AppendFacts DEF TypeOK
        <4> QED BY <4>1
      <3>2. CASE inbox' = inbox
        BY <3>2
      <3> QED BY <2>2, <3>1, <3>2 DEF Arrive
    <2>6. \A i \in 1..Len(inbox') : inbox'[i].from = c => inbox'[i].ask = ask'[c]
      BY <2>3, <2>5 DEF Unread
    <2>7. Ordered(c)'
      BY <2>3, <2>6 DEF Ordered
    <2> QED BY <2>2, <2>7 DEF Collected
  <1>2. CASE AskFails(c)
    <2>1. /\ cpc[c] = "stdin" /\ cpc'[c] = "exited" /\ sock'[c] = <<>>
          /\ UNCHANGED <<pc, task, inbox, ask, got>>
      BY <1>2 DEF AskFails, TypeOK, server
    <2>2. Len(sock'[c]) = 0 /\ ~Serving(c)'
      BY <2>1 DEF Turn, Serving
    <2> QED BY <2>1, <2>2 DEF Ordered, Collected
  <1>3. CASE ReadCount(c)
    <2>1. cpc[c] = "count" /\ Receive(c) /\ UNCHANGED <<server, ask>>
      BY <1>3 DEF ReadCount
    <2> DEFINE d == sock[c][1]
    <2>2. /\ d.part = 0 /\ d.n \in Nat /\ d \in Datagram /\ d = Head(sock[c])
      <3>1. sock[c] # <<>>
        BY <2>1 DEF Receive
      <3>2. sock[c][1].part = 0
        BY <2>1, <3>1 DEF Expects
      <3> QED BY <3>1, <3>2, FirstInSocket DEF Datagram
    <2>3. got[c] = <<>> /\ Len(got[c]) = 0
      BY <2>1 DEF Collected
    <2>4. Len(got'[c]) = 1 /\ got'[c][1] = d /\ got'[c] # <<>> /\ 1 \in 1..Len(sock[c])
      <3>1. /\ Len(got'[c]) = Len(got[c]) + 1 /\ got'[c] # <<>>
            /\ got'[c][Len(got[c]) + 1] = d /\ 1 \in 1..Len(sock[c])
        BY <2>1, Received
      <3>2. Len(got[c]) + 1 = 1
        BY <2>3
      <3> QED BY <3>1, <3>2
    <2>5. CountIn(Head(sock[c])) = {d.n}
      BY <2>2 DEF CountIn
    <2>6. Resize(c, d.n)
      BY <1>3, <2>5 DEF ReadCount
    <2>7. cpc'[c] = "records" /\ left'[c] = d.n
      BY <2>2, <2>6 DEF Resize, TypeOK
    <2>8. /\ Ordered(c)'
          /\ \A i \in 1..Len(sock'[c]) :
               sock'[c][i].n = d.n /\ d.part < sock'[c][i].part
      BY <2>1, TailOrdered
    <2>9. d.ask = ask[c] /\ (Serving(c) => d.n = results /\ d.part < next)
      BY <2>4 DEF Ordered
    <2>10. Last(c)' = d
      BY <2>4 DEF Last
    <2>11. /\ UNCHANGED <<pc, task, results, next>> /\ ask'[c] = ask[c]
           /\ (Serving(c)' <=> Serving(c))
      BY <2>1 DEF server, Serving
    <2> HIDE DEF d
    <2>12. Prefix(c)'
      <3>1. Len(got'[c]) + left'[c] = d.n + 1 /\ d.part <= d.n
        BY <2>2, <2>4, <2>7
      <3>2. \A i \in 1..Len(got'[c]) :
              /\ got'[c][i].ask = ask'[c] /\ got'[c][i].n = d.n
              /\ i - 1 <= got'[c][i].part
              /\ got'[c][i].part + Len(got'[c]) - i <= d.part
        BY <2>2, <2>4, <2>9, <2>11
      <3> QED BY <2>8, <2>9, <2>10, <2>11, <3>1, <3>2 DEF Prefix
    <2> QED BY <2>4, <2>7, <2>8, <2>12 DEF Collected
  <1>4. CASE ReadRecord(c)
    <2>1. /\ cpc[c] = "records" /\ cpc'[c] = "records" /\ Receive(c)
          /\ UNCHANGED <<server, ask>> /\ left'[c] = left[c] - 1 /\ left[c] \in Nat
      BY <1>4 DEF ReadRecord, TypeOK
    <2> DEFINE d == sock[c][1]
               last == Last(c)
    <2>2. got[c] # <<>> /\ Prefix(c)
      BY <2>1 DEF Collected
    <2>3. /\ Len(got'[c]) = Len(got[c]) + 1 /\ Len(got[c]) \in Nat \ {0}
          /\ got'[c][Len(got[c]) + 1] = d /\ got'[c] # <<>>
          /\ \A i \in 1..Len(got[c]) : got'[c][i] = got[c][i]
          /\ 1 \in 1..Len(sock[c])
      BY <2>1, <2>2, Received, LastInGot
    <2>4. /\ d.part \in Int /\ d.n \in Int /\ last.part \in Int /\ last.n \in Int
          /\ \A i \in 1..Len(got[c]) : got[c][i].part \in Int
      BY <2>2, <2>3, InSocket, InGot, LastInGot
    <2>5. /\ Ordered(c)'
          /\ \A i \in 1..Len(sock'[c]) :
               sock'[c][i].n = d.n /\ d.part < sock'[c][i].part
      BY <2>1, TailOrdered
    <2>6. /\ d.ask = ask[c] /\ d.part <= d.n
          /\ Serving(c) => d.n = results /\ d.part < next
      BY <2>3 DEF Ordered
    <2>7. d.n = last.n /\ last.part < d.part
      BY <2>2, <2>3 DEF Prefix
    <2>8. Last(c)' = d
      BY <2>3 DEF Last
    <2>9. /\ UNCHANGED <<pc, task, results, next>> /\ ask'[c] = ask[c]
          /\ (Serving(c)' <=> Serving(c))
      BY <2>1 DEF server, Serving
    <2>10. Prefix(c)'
      <3>1. Len(got[c]) + left[c] = last.n + 1
        BY <2>2 DEF Prefix
      <3>2. Len(got'[c]) + left'[c] = d.n + 1
        <4>1. Len(got[c]) \in Int /\ left[c] \in Int
          BY <2>1, <2>3
        <4>2. (Len(got[c]) + 1) + (left[c] - 1) = Len(got[c]) + left[c]
          BY <4>1
        <4> HIDE DEF d, last
        <4> QED BY <2>1, <2>3, <2>7, <3>1, <4>2
      <3>3. ASSUME NEW i \in 1..Len(got'[c])
            PROVE  /\ got'[c][i].ask = ask[c] /\ got'[c][i].n = d.n
                   /\ i - 1 <= got'[c][i].part
                   /\ got'[c][i].part + Len(got'[c]) - i <= d.part
        <4>1. CASE i \in 1..Len(got[c])
          <5>1. /\ got[c][i].ask = ask[c] /\ got[c][i].n = last.n
                /\ i - 1 <= got[c][i].part
                /\ got[c][i].part + Len(got[c]) - i <= last.part
            BY <2>2, <4>1 DEF Prefix
          <5>2. got'[c][i] = got[c][i] /\ got[c][i].part \in Int
            BY <2>3, <2>4, <4>1
          <5> HIDE DEF d, last
          <5>3. /\ got'[c][i].ask = ask[c] /\ got'[c][i].n = d.n
                /\ i - 1 <= got'[c][i].part
            BY <2>7, <5>1, <5>2
          <5>4. got[c][i].part + (Len(got[c]) + 1) - i <= d.part
            <6>1. /\ Len(got[c]) \in Int /\ i \in Int /\ d.part \in Int
                  /\ last.part \in Int /\ last.part < d.part
              BY <2>3, <2>4, <2>7
            <6> QED BY <5>1, <5>2, <6>1, Grows
          <5> QED BY <2>3, <5>2, <5>3, <5>4
        <4>2. CASE i = Len(got[c]) + 1
          <5>1. Len(got[c]) \in 1..Len(got[c])
            BY <2>3
          <5>2. Len(got[c]) - 1 <= last.part
            BY <2>2, <5>1 DEF Prefix, Last
          <5>3. got'[c][i] = d
            BY <2>3, <4>2
          <5> HIDE DEF d, last
          <5> QED BY <2>3, <2>4, <2>6, <2>7, <4>2, <5>2, <5>3
        <4> QED BY <2>3, <4>1, <4>2
      <3> HIDE DEF d, last
      <3> QED BY <2>5, <2>6, <2>8, <2>9, <3>2, <3>3 DEF Prefix
    <2> QED BY <2>1, <2>3, <2>5, <2>10 DEF Collected
  <1>5. CASE PrintRecords(c)
    <2>1. /\ cpc'[c] = "stdin" /\ got'[c] = <<>>
          /\ UNCHANGED <<pc, task, inbox, results, next, sock, ask>>
      BY <1>5 DEF PrintRecords, TypeOK, server
    <2> QED BY <2>1 DEF Ordered, Collected, Serving
  <1> QED BY <1>1, <1>2, <1>3, <1>4, <1>5 DEF ClientNext

LEMMA Orders == Spec => []OrderInv
  <1>1. TypeOK /\ TypeOK' /\ TurnInv /\ OrderInv /\ [Next]_vars => OrderInv'
    <2> SUFFICES ASSUME TypeOK, TypeOK', TurnInv, OrderInv, [Next]_vars,
                        NEW c \in Clients, ~chatty'[c]
                 PROVE  Ordered(c)' /\ Collected(c)'
      BY DEF OrderInv
    <2>1. ~chatty[c]
      BY ChattyStays
    <2>2. Turn(c) /\ Expects(c) /\ Ordered(c) /\ Collected(c)
      BY <2>1 DEF TurnInv, OrderInv
    <2>3. CASE ServerNext \/ BadDatagram
      BY <2>2, <2>3, OrderOfServer
    <2>4. ASSUME NEW d \in Clients, ClientNext(d)
          PROVE  Ordered(c)' /\ Collected(c)'
      BY <2>1, <2>2, <2>4, OrderOfOther, OrderOfSelf
    <2>5. CASE UNCHANGED vars
      BY <2>2, <2>5 DEF vars, server, clients, Ordered, Collected, Prefix, Last,
                        Serving
    <2> QED BY <2>3, <2>4, <2>5 DEF Next
  <1> QED BY <1>1, OrderInit, Typing, Turns, PTL DEF Spec

(* What is printed by a client that reads all its replies is the whole      *)
(* reply to its last query, even if the kernel drops queries and results.   *)
THEOREM RepliesAreWhole == Spec => []RepliesWhole
  <1>1. TypeOK /\ OrderInv => RepliesWhole
    <2> SUFFICES ASSUME TypeOK, OrderInv, NEW c \in Clients,
                        ~chatty[c], cpc[c] = "records", left[c] = 0
                 PROVE  WholeReply(c)
      BY DEF RepliesWhole
    <2>1. got[c] # <<>> /\ Prefix(c)
      BY DEF OrderInv, Collected
    <2>2. Len(got[c]) \in Nat \ {0} /\ 1 \in 1..Len(got[c])
      BY <2>1, LastInGot
    <2>3. /\ Last(c).part \in Int /\ Last(c).n \in Int
          /\ Len(got[c]) = Last(c).n + 1 /\ Last(c).part <= Last(c).n
      BY <2>1, LastInGot DEF Prefix
    <2>4. got[c][1].n = Last(c).n
      BY <2>1, <2>2 DEF Prefix
    <2>5. ASSUME NEW i \in 1..Len(got[c])
          PROVE  got[c][i] = [ask |-> ask[c], n |-> Last(c).n, part |-> i - 1]
      <3>1. /\ got[c][i].ask = ask[c] /\ got[c][i].n = Last(c).n
            /\ i - 1 <= got[c][i].part
            /\ got[c][i].part + Len(got[c]) - i <= Last(c).part
        BY <2>1 DEF Prefix
      <3>2. got[c][i].part \in Int
        BY InGot
      <3>3. got[c][i].part = i - 1
        <4> DEFINE p == got[c][i].part
                   len == Len(got[c])
                   q == Last(c).part
                   n == Last(c).n
        <4>1. /\ p \in Int /\ len \in Int /\ q \in Int /\ n \in Int /\ i \in Int
              /\ len = n + 1 /\ q <= n /\ i - 1 <= p /\ p + len - i <= q
          BY <2>2, <2>3, <3>1, <3>2
        <4> HIDE DEF p, len, q, n
        <4>2. p = i - 1
          BY <4>1
        <4> QED BY <4>2 DEF p
      <3> QED BY <3>1, <3>3, InGot
    <2> QED BY <2>3, <2>4, <2>5 DEF WholeReply
  <1> QED BY <1>1, Typing, Orders, PTL
=============================================================================
