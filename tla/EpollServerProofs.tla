------------------------- MODULE EpollServerProofs -------------------------
(***************************************************************************)
(* Proofs about EpollServer for every set of connections, workers and      *)
(* descriptors and for every size of a query, a reply and a buffer.  For   *)
(* any client: the types, that no event of a batch is stale, that no       *)
(* EPOLLOUT event comes without a buffer, that no edge of a readable       *)
(* descriptor is lost, that no query is answered twice, and that no        *)
(* connection is sent the remainder of another.  For polite clients (see   *)
(* Polite): that replies reach their client whole, that no edge of a       *)
(* writable descriptor is lost, that no connection is closed, and that the *)
(* server implements QueryService's safety.                                *)
(***************************************************************************)
EXTENDS EpollServer, SequenceTheorems, FiniteSetTheorems, TLAPS

(* What the loop relies on between two system calls: a batch has one event  *)
(* per descriptor, is used up before the results are sent, and no longer    *)
(* holds the event that is being handled; the remainder of a reply is       *)
(* stored before EPOLLOUT is asked for.                                     *)
BatchInv ==
  /\ \A e, g \in batch : e.fd = g.fd => e = g
  /\ \A e \in batch : e.ev # {}
  /\ pc \notin {"events", "accept", "read", "write", "disarm", "stopped"}
       => batch = {}
  /\ pc \in {"read", "write", "disarm"} =>
       cur \in Fds /\ \A e \in batch : e.fd # cur

ResultInv ==
  /\ pc \in {"count", "body", "arm"} => result \in Items
  /\ pc = "arm" => write_buffers[result.fd] # <<>>

ControlInv == BatchInv /\ ResultInv /\ NoStaleEvents /\ WriteBufferFound

IInv == TypeOK /\ ControlInv

-----------------------------------------------------------------------------
(* The sequences of units.                                                  *)

LEMMA UnitsType ==
  ASSUME NEW q, NEW from \in Nat, NEW to \in Nat, from <= to + 1, NEW S,
         \A k \in from..to : [q |-> q, k |-> k] \in S
  PROVE  Units(q, from, to) \in Seq(S) /\ Len(Units(q, from, to)) = to + 1 - from
  BY DEF Units

LEMMA DropType ==
  ASSUME NEW S, NEW s \in Seq(S), NEW k \in 0..Len(s)
  PROVE  Drop(s, k) \in Seq(S) /\ Len(Drop(s, k)) = Len(s) - k
  BY SubSeqProperties DEF Drop

LEMMA PrefixType ==
  ASSUME NEW S, NEW s \in Seq(S), NEW k \in 0..Len(s)
  PROVE  SubSeq(s, 1, k) \in Seq(S) /\ Len(SubSeq(s, 1, k)) = k
  BY SubSeqProperties

LEMMA LesserType ==
  ASSUME NEW a \in Nat, NEW b \in Nat
  PROVE  Lesser(a, b) \in 0..b /\ Lesser(a, b) <= a
  BY DEF Lesser

LEMMA ReplyTypes ==
  ASSUME NEW q \in Queries
  PROVE  Header(q) \in Seq(ReplyUnit) /\ Body(q) \in Seq(ReplyUnit)
  <1> USE ConstantsAssumption DEF ReplyUnit, FrameUnits
  <1>1. Header(q) \in Seq(ReplyUnit)
    <2>1. \A k \in 1..HeaderUnits : [q |-> q, k |-> k] \in ReplyUnit
      OBVIOUS
    <2>2. HeaderUnits \in Nat /\ 1 <= HeaderUnits + 1
      OBVIOUS
    <2> QED BY <2>1, <2>2, UnitsType DEF Header
  <1>2. Body(q) \in Seq(ReplyUnit)
    <2>1. \A k \in (HeaderUnits + 1)..(HeaderUnits + BodyUnits) :
            [q |-> q, k |-> k] \in ReplyUnit
      OBVIOUS
    <2>2. /\ HeaderUnits + 1 \in Nat /\ HeaderUnits + BodyUnits \in Nat
          /\ HeaderUnits + 1 <= HeaderUnits + BodyUnits + 1
      OBVIOUS
    <2> QED BY <2>1, <2>2, UnitsType DEF Body
  <1> QED BY <1>1, <1>2

LEMMA QueryType ==
  ASSUME NEW c \in Conns, NEW n \in 1..QueriesPerConn
  PROVE  Units(QueryId(c, n), 1, QueryUnits) \in Seq(Unit(c))
  <1>1. \A k \in 1..QueryUnits : [q |-> QueryId(c, n), k |-> k] \in Unit(c)
    BY DEF Unit
  <1> QED BY <1>1, UnitsType, ConstantsAssumption

(* Whatever part of a connection's stream is read, it decodes to a query.   *)
LEMMA DecodeType ==
  ASSUME NEW c \in Conns, NEW s \in Seq(Unit(c))
  PROVE  Decode(s) \in Queries
  <1>1. CASE Len(s) = QueryUnits
    <2>1. s[1] \in Unit(c)
      BY <1>1, ConstantsAssumption
    <2>2. s[1].q \in Queries
      BY <2>1 DEF Unit, Queries
    <2> QED BY <2>2 DEF Decode, Queries
  <1>2. CASE Len(s) # QueryUnits
    BY <1>2 DEF Decode, Queries
  <1> QED BY <1>1, <1>2

LEMMA ListenerFacts == Listener \notin Fds
  BY ConstantsAssumption DEF Listener

-----------------------------------------------------------------------------
(* The types of the connections.                                            *)

LEMMA SpaceType ==
  ASSUME NetTypeOK, NEW c \in Conns
  PROVE  Space(c) \in 0..SendCap
  BY ConstantsAssumption DEF NetTypeOK, Space

LEMMA LeftType ==
  ASSUME NetTypeOK, NEW c \in Conns, NEW s \in Seq(ReplyUnit)
  PROVE  Left(c, s) \in Seq(ReplyUnit)
  <1>1. Space(c) \in Nat /\ Len(s) \in Nat
    BY SpaceType, ConstantsAssumption
  <1>2. Lesser(Space(c), Len(s)) \in 0..Len(s)
    BY <1>1, LesserType
  <1> QED BY <1>2, DropType DEF Left

LEMMA PutNet ==
  ASSUME NetTypeOK, NEW c \in Conns, NEW s \in Seq(ReplyUnit), Put(c, s),
         UNCHANGED <<status, backlog, sent, flight, inb, got>>
  PROVE  NetTypeOK'
  <1> DEFINE k == Lesser(Space(c), Len(s))
             t == SubSeq(s, 1, k)
  <1>1. Space(c) \in 0..SendCap /\ Space(c) \in Nat /\ Len(s) \in Nat
    BY SpaceType, ConstantsAssumption
  <1>2. k \in 0..Len(s) /\ k <= Space(c)
    BY <1>1, LesserType
  <1>3. t \in Seq(ReplyUnit) /\ Len(t) = k
    BY <1>2, PrefixType
  <1> HIDE DEF k
  <1>4. wire[c] \in Seq(ReplyUnit)
    BY DEF NetTypeOK
  <1>5. wire[c] \o t \in Seq(ReplyUnit) /\ Len(wire[c] \o t) = Len(wire[c]) + k
    BY <1>3, <1>4, ConcatProperties
  <1>6. wire' = [wire EXCEPT ![c] = wire[c] \o t]
    BY DEF Put, k
  <1> HIDE DEF t
  <1>7. wire' \in [Conns -> Seq(ReplyUnit)]
    BY <1>5, <1>6 DEF NetTypeOK
  <1>8. \A d \in Conns : got'[d] <= Len(wire'[d])
                         /\ Len(wire'[d]) <= got'[d] + SendCap
    <2> TAKE d \in Conns
    <2>1. CASE d = c
      <3>1. wire'[d] = wire[c] \o t
        BY <1>6, <2>1 DEF NetTypeOK
      <3>2. got[c] \in Nat /\ Len(wire[c]) \in Nat /\ k \in Nat
        BY <1>2, <1>4 DEF NetTypeOK
      <3>3. got[c] <= Len(wire[c]) /\ k <= SendCap - (Len(wire[c]) - got[c])
        BY <1>2 DEF NetTypeOK, Space
      <3> QED BY <1>5, <2>1, <3>1, <3>2, <3>3, ConstantsAssumption
    <2>2. CASE d # c
      BY <1>6, <2>2 DEF NetTypeOK
    <2> QED BY <2>1, <2>2
  <1> QED BY <1>7, <1>8 DEF NetTypeOK

LEMMA CloseNet ==
  ASSUME NetTypeOK, LoopTypeOK, NEW f \in Fds, Close(f)
  PROVE  NetTypeOK'
  <1> DEFINE c == sock[f]
  <1>1. \A d : <<>> \in Seq(Unit(d))
    OBVIOUS
  <1>2. flight' = [flight EXCEPT ![c] = <<>>] /\ inb' = [inb EXCEPT ![c] = <<>>]
    BY DEF Close
  <1>3. DOMAIN flight' = Conns /\ \A d \in Conns : flight'[d] \in Seq(Unit(d))
    BY <1>1, <1>2 DEF NetTypeOK
  <1>4. DOMAIN inb' = Conns /\ \A d \in Conns : inb'[d] \in Seq(Unit(d))
    BY <1>1, <1>2 DEF NetTypeOK
  <1>5. status' \in [Conns -> ConnStatus]
    BY DEF Close, NetTypeOK, ConnStatus
  <1> QED BY <1>3, <1>4, <1>5 DEF Close, NetTypeOK

LEMMA NetFrame == ASSUME NetTypeOK, UNCHANGED net PROVE NetTypeOK'
  BY DEF NetTypeOK, net

LEMMA EnvironmentNet ==
  ASSUME NetTypeOK, NEW c \in Conns,
         \/ Connect(c) \/ ClientSend(c) \/ Deliver(c)
         \/ ClientRecv(c) \/ HangUp(c) \/ PeerReset(c)
  PROVE  NetTypeOK'
  <1> USE ConstantsAssumption
  <1>1. CASE Connect(c)
    BY <1>1, AppendProperties DEF Connect, NetTypeOK, ConnStatus
  <1>2. CASE ClientSend(c)
    <2> DEFINE u == Units(QueryId(c, sent[c] + 1), 1, QueryUnits)
    <2>1. sent[c] + 1 \in 1..QueriesPerConn
      BY <1>2 DEF ClientSend, NetTypeOK
    <2>2. flight[c] \in Seq(Unit(c)) /\ u \in Seq(Unit(c))
      BY <2>1, QueryType DEF NetTypeOK
    <2>3. flight[c] \o u \in Seq(Unit(c))
      BY <2>2, ConcatProperties
    <2>4. flight' = [flight EXCEPT ![c] = flight[c] \o u]
      BY <1>2 DEF ClientSend
    <2> HIDE DEF u
    <2>5. DOMAIN flight' = Conns /\ \A d \in Conns : flight'[d] \in Seq(Unit(d))
      BY <2>3, <2>4 DEF NetTypeOK
    <2>6. sent' \in [Conns -> 0..QueriesPerConn]
      BY <1>2, <2>1 DEF ClientSend, NetTypeOK
    <2> QED BY <1>2, <2>5, <2>6 DEF ClientSend, NetTypeOK
  <1>3. CASE Deliver(c)
    <2>1. PICK k \in 1..Len(flight[c]) :
            /\ inb' = [inb EXCEPT ![c] = @ \o SubSeq(flight[c], 1, k)]
            /\ flight' = [flight EXCEPT ![c] = Drop(@, k)]
      BY <1>3 DEF Deliver
    <2>2. flight[c] \in Seq(Unit(c)) /\ inb[c] \in Seq(Unit(c))
      BY DEF NetTypeOK
    <2>3. k \in 0..Len(flight[c])
      BY <2>2
    <2>4. Drop(flight[c], k) \in Seq(Unit(c))
      BY <2>2, <2>3, DropType
    <2>5. SubSeq(flight[c], 1, k) \in Seq(Unit(c))
      BY <2>2, <2>3, PrefixType
    <2>6. inb[c] \o SubSeq(flight[c], 1, k) \in Seq(Unit(c))
      BY <2>2, <2>5, ConcatProperties
    <2>7. DOMAIN flight' = Conns /\ \A d \in Conns : flight'[d] \in Seq(Unit(d))
      BY <2>1, <2>4 DEF NetTypeOK
    <2>8. DOMAIN inb' = Conns /\ \A d \in Conns : inb'[d] \in Seq(Unit(d))
      BY <2>1, <2>6 DEF NetTypeOK
    <2> QED BY <1>3, <2>7, <2>8 DEF Deliver, NetTypeOK
  <1>4. CASE ClientRecv(c)
    BY <1>4 DEF ClientRecv, NetTypeOK
  <1>5. CASE HangUp(c)
    <2>1. /\ status' \in [Conns -> ConnStatus]
          /\ flight' = [flight EXCEPT ![c] = <<>>] \/ flight' = flight
      BY <1>5 DEF HangUp, NetTypeOK, ConnStatus
    <2>2. <<>> \in Seq(Unit(c))
      OBVIOUS
    <2>3. DOMAIN flight' = Conns /\ \A d \in Conns : flight'[d] \in Seq(Unit(d))
      BY <2>1, <2>2 DEF NetTypeOK
    <2> QED BY <1>5, <2>1, <2>3 DEF HangUp, NetTypeOK
  <1>6. CASE PeerReset(c)
    <2>1. /\ status' \in [Conns -> ConnStatus]
          /\ flight' = [flight EXCEPT ![c] = <<>>]
      BY <1>6 DEF PeerReset, NetTypeOK, ConnStatus
    <2>2. <<>> \in Seq(Unit(c))
      OBVIOUS
    <2>3. DOMAIN flight' = Conns /\ \A d \in Conns : flight'[d] \in Seq(Unit(d))
      BY <2>1, <2>2 DEF NetTypeOK
    <2> QED BY <1>6, <2>1, <2>3 DEF PeerReset, NetTypeOK
  <1> QED BY <1>1, <1>2, <1>3, <1>4, <1>5, <1>6

LEMMA ReadQueryNet ==
  ASSUME NetTypeOK, NEW c \in Conns, c = sock[cur], ReadQuery
  PROVE  NetTypeOK' /\ \E q \in Queries :
           work_queue' = Append(work_queue, [fd |-> cur, q |-> q])
  <1> DEFINE k == Lesser(QueryUnits, Len(inb[c]))
             s == SubSeq(inb[c], 1, k)
  <1>1. inb[c] \in Seq(Unit(c))
    BY DEF NetTypeOK
  <1>2. k \in 0..Len(inb[c])
    <2>1. QueryUnits \in Nat /\ Len(inb[c]) \in Nat
      BY <1>1, ConstantsAssumption
    <2> QED BY <2>1, LesserType
  <1>3. /\ inb' = [inb EXCEPT ![c] = Drop(inb[c], k)]
        /\ work_queue' = Append(work_queue, [fd |-> cur, q |-> Decode(s)])
    BY DEF ReadQuery
  <1> HIDE DEF k
  <1>4. Drop(inb[c], k) \in Seq(Unit(c)) /\ s \in Seq(Unit(c))
    BY <1>1, <1>2, DropType, PrefixType
  <1> HIDE DEF s
  <1>5. Decode(s) \in Queries
    BY <1>4, DecodeType
  <1>6. NetTypeOK'
    BY <1>3, <1>4 DEF ReadQuery, NetTypeOK
  <1> QED BY <1>3, <1>5, <1>6

(* The connection behind the descriptor the loop serves.                    *)
LEMMA ServedConn ==
  ASSUME IInv
  PROVE  /\ pc \in {"read", "write", "disarm"} => cur \in Fds /\ sock[cur] \in Conns
         /\ pc \in {"count", "body", "arm"} =>
              result \in Items /\ result.fd \in Fds /\ result.q \in Queries
         /\ pc \in {"body", "arm"} => sock[result.fd] \in Conns
         /\ \A f \in Fds : write_buffers[f] \in Seq(ReplyUnit)
         /\ pc \in {"count", "body"} /\ sock[result.fd] # NoConn =>
              sock[result.fd] \in Conns
  <1> USE DEF IInv, ControlInv, TypeOK
  <1>1. pc \in {"read", "write", "disarm"} => cur \in Fds /\ sock[cur] \in Conns
    BY DEF BatchInv, NoStaleEvents, LoopTypeOK
  <1>2. pc \in {"count", "body", "arm"} =>
          result \in Items /\ result.fd \in Fds /\ result.q \in Queries
    BY DEF ResultInv, Items
  <1>3. \A f \in Fds : write_buffers[f] \in Seq(ReplyUnit)
    BY DEF LoopTypeOK
  <1> QED BY <1>1, <1>2, <1>3 DEF NoStaleEvents, LoopTypeOK

LEMMA NextNet == ASSUME IInv, [Next]_vars PROVE NetTypeOK'
  <1>1. NetTypeOK /\ LoopTypeOK
    BY DEF IInv, TypeOK
  <1>2. CASE UNCHANGED net
    BY <1>1, <1>2, NetFrame
  <1>3. CASE Environment
    BY <1>1, <1>3, EnvironmentNet DEF Environment
  <1>4. CASE Accept
    <2>1. Tail(backlog) \in Seq(Conns)
      BY <1>1, <1>4, HeadTailProperties DEF Accept, NetTypeOK
    <2> QED BY <1>1, <1>4, <2>1 DEF Accept, NetTypeOK
  <1>5. CASE ReadQuery
    BY <1>1, <1>5, ServedConn, ReadQueryNet DEF ReadQuery
  <1>6. CASE ReadClose \/ WriteClose
    <2>1. cur \in Fds /\ Close(cur)
      BY <1>6, ServedConn DEF ReadClose, WriteClose
    <2> QED BY <1>1, <2>1, CloseNet
  <1>7. CASE ResultClose
    <2>1. result.fd \in Fds /\ Close(result.fd)
      BY <1>7, ServedConn DEF ResultClose
    <2> QED BY <1>1, <2>1, CloseNet
  <1>8. CASE SendCount
    <2>1. sock[result.fd] \in Conns /\ Header(result.q) \in Seq(ReplyUnit)
      BY <1>8, ServedConn, ReplyTypes DEF SendCount
    <2>2. Put(sock[result.fd], Header(result.q))
      BY <1>8 DEF SendCount
    <2>3. UNCHANGED <<status, backlog, sent, flight, inb, got>>
      BY <1>8 DEF SendCount
    <2> QED BY <1>1, <2>1, <2>2, <2>3, PutNet
  <1>9. CASE SendBody \/ SendPartOfBody
    <2>1. sock[result.fd] \in Conns /\ Body(result.q) \in Seq(ReplyUnit)
      BY <1>9, ServedConn, ReplyTypes DEF SendBody, SendPartOfBody
    <2>2. Put(sock[result.fd], Body(result.q))
      BY <1>9 DEF SendBody, SendPartOfBody
    <2>3. UNCHANGED <<status, backlog, sent, flight, inb, got>>
      BY <1>9 DEF SendBody, SendPartOfBody
    <2> QED BY <1>1, <2>1, <2>2, <2>3, PutNet
  <1>10. CASE WriteRest
    <2>1. sock[cur] \in Conns /\ write_buffers[cur] \in Seq(ReplyUnit)
      BY <1>10, ServedConn DEF WriteRest
    <2>2. UNCHANGED wire \/ Put(sock[cur], write_buffers[cur])
      BY <1>10 DEF WriteRest
    <2>3. UNCHANGED <<status, backlog, sent, flight, inb, got>>
      BY <1>10 DEF WriteRest
    <2>4. CASE UNCHANGED wire
      BY <1>1, <2>3, <2>4, NetFrame DEF net
    <2>5. CASE Put(sock[cur], write_buffers[cur])
      BY <1>1, <2>1, <2>3, <2>5, PutNet
    <2> QED BY <2>2, <2>4, <2>5
  <1>11. CASE \/ EpollWait \/ Dispatch \/ AcceptAgain \/ AcceptThrows
              \/ ReadAgain \/ ResultsDone \/ TryPop \/ ResultDropped
              \/ ResultKills \/ Arm \/ WriteKills \/ Disarm
    BY <1>2, <1>11 DEF EpollWait, Dispatch, AcceptAgain, AcceptThrows,
         ReadAgain, ResultsDone, TryPop, ResultDropped, ResultKills, Arm,
         WriteKills, Disarm, Killed
  <1>12. CASE \E w \in Workers : Worker(w)
    BY <1>2, <1>12 DEF Worker, WorkerPop, WorkerPush
  <1> QED BY <1>2, <1>3, <1>4, <1>5, <1>6, <1>7, <1>8, <1>9, <1>10, <1>11,
             <1>12 DEF Next, RunLoop, vars

-----------------------------------------------------------------------------
(* The types of the descriptors and of the loop.                            *)

LEMMA PendingType ==
  ASSUME LoopTypeOK
  PROVE  /\ Pending \subseteq [fd : Fds \cup {Listener},
                               conn : Conns \cup {NoConn},
                               ev : SUBSET {"in", "out"}]
         /\ \A e \in Pending : e.ev # {}
         /\ \A e \in Pending : e.fd # Listener =>
              /\ e.fd \in Fds /\ sock[e.fd] = e.conn /\ e.conn # NoConn
              /\ "out" \in e.ev => interest[e.fd] = "inout_et"
              /\ e.ev = Events(e.fd)
         /\ \A e \in Pending : e.fd = Listener => e.ev = {"in"}
         /\ \A e, g \in Pending : e.fd = g.fd => e = g
  <1>1. \A f \in Fds : Events(f) \in SUBSET {"in", "out"}
    BY DEF Events
  <1>2. \A f \in Fds : "out" \in Events(f) => interest[f] = "inout_et"
    BY DEF Events
  <1>3. \A e \in Pending :
          \/ /\ e.fd \in Fds /\ sock[e.fd] # NoConn /\ Events(e.fd) # {}
             /\ e = [fd |-> e.fd, conn |-> sock[e.fd], ev |-> Events(e.fd)]
          \/ e = [fd |-> Listener, conn |-> NoConn, ev |-> {"in"}]
    BY DEF Pending
  <1>4. \A f \in Fds : sock[f] \in Conns \cup {NoConn}
    BY DEF LoopTypeOK
  <1> HIDE DEF Pending, Events
  <1>5. \A e \in Pending :
          e \in [fd : Fds \cup {Listener}, conn : Conns \cup {NoConn},
                 ev : SUBSET {"in", "out"}]
    BY <1>1, <1>3, <1>4
  <1>6. \A e \in Pending : e.ev # {}
    BY <1>3
  <1>7. \A e \in Pending : e.fd # Listener =>
          /\ e.fd \in Fds /\ sock[e.fd] = e.conn /\ e.conn # NoConn
          /\ "out" \in e.ev => interest[e.fd] = "inout_et"
          /\ e.ev = Events(e.fd)
    BY <1>2, <1>3
  <1>8. \A e \in Pending : e.fd = Listener => e.ev = {"in"}
    BY <1>3, ListenerFacts
  <1>9. \A e, g \in Pending : e.fd = g.fd => e = g
    BY <1>3, ListenerFacts
  <1> QED BY <1>5, <1>6, <1>7, <1>8, <1>9

LEMMA LoopFrame ==
  ASSUME LoopTypeOK, UNCHANGED <<sock, interest, batch, write_buffers>>,
         ready' \subseteq Fds, pc' \in Steps, cur' \in Fds \cup {Listener}
  PROVE  LoopTypeOK'
  BY DEF LoopTypeOK

LEMMA CloseLoop ==
  ASSUME LoopTypeOK, NEW f \in Fds, Close(f), UNCHANGED batch,
         pc' \in Steps, cur' \in Fds \cup {Listener},
         write_buffers' \in [Fds -> Seq(ReplyUnit)]
  PROVE  LoopTypeOK'
  BY DEF LoopTypeOK, Close, Interests

LEMMA ModifyLoop ==
  ASSUME LoopTypeOK, NEW f \in Fds, NEW i \in Interests, Modify(f, i),
         UNCHANGED <<batch, write_buffers>>,
         pc' \in Steps, cur' \in Fds \cup {Listener}
  PROVE  LoopTypeOK'
  BY DEF LoopTypeOK, Modify

LEMMA NextLoop == ASSUME IInv, [Next]_vars PROVE LoopTypeOK'
  <1> USE DEF Steps
  <1>1. NetTypeOK /\ LoopTypeOK
    BY DEF IInv, TypeOK
  <1>2. ready \subseteq Fds /\ pc \in Steps /\ cur \in Fds \cup {Listener}
    BY <1>1 DEF LoopTypeOK
  <1>3. CASE Environment
    <2>1. PICK c \in Conns : \/ Connect(c) \/ ClientSend(c) \/ Deliver(c)
                             \/ ClientRecv(c) \/ HangUp(c) \/ PeerReset(c)
      BY <1>3 DEF Environment
    <2>2. ready' \subseteq Fds
      BY <1>2, <2>1 DEF Connect, ClientSend, Deliver, ClientRecv, HangUp,
           PeerReset, Edge, EdgeFds, FdsOf, epoll
    <2>3. UNCHANGED <<sock, interest, loop, write_buffers>>
      BY <2>1 DEF Connect, ClientSend, Deliver, ClientRecv, HangUp, PeerReset, epoll
    <2> QED BY <1>1, <1>2, <2>2, <2>3, LoopFrame DEF loop
  <1>4. CASE EpollWait
    <2>1. PICK b \in SUBSET Pending : batch' = b /\ pc' = AfterEvents(b)
      BY <1>4 DEF EpollWait
    <2>2. batch' \subseteq [fd : Fds \cup {Listener}, conn : Conns \cup {NoConn},
                            ev : SUBSET {"in", "out"}]
      BY <1>1, <2>1, PendingType
    <2>3. ready' \subseteq Fds /\ pc' \in Steps
      BY <1>2, <1>4, <2>1 DEF EpollWait, AfterEvents
    <2> QED BY <1>1, <1>4, <2>2, <2>3 DEF EpollWait, LoopTypeOK
  <1>5. CASE Dispatch
    <2>1. PICK e \in batch : /\ batch' = batch \ {e} /\ cur' = e.fd
                             /\ pc' \in {"accept", "read", "write"}
      BY <1>5 DEF Dispatch
    <2>2. cur' \in Fds \cup {Listener}
      BY <1>1, <2>1 DEF LoopTypeOK
    <2> QED BY <1>1, <1>5, <2>1, <2>2 DEF Dispatch, LoopTypeOK, epoll
  <1>6. CASE Accept
    <2>1. PICK f \in Fds : /\ sock' = [sock EXCEPT ![f] = Head(backlog)]
                           /\ interest' = [interest EXCEPT ![f] = "in"]
      BY <1>6 DEF Accept, FreeFds
    <2>2. Head(backlog) \in Conns
      BY <1>1, <1>6, HeadTailProperties DEF Accept, NetTypeOK
    <2> QED BY <1>1, <1>6, <2>1, <2>2 DEF Accept, LoopTypeOK, Interests, loop
  <1>7. CASE ReadClose \/ WriteClose
    <2>1. cur \in Fds /\ Close(cur)
      BY <1>7, ServedConn DEF ReadClose, WriteClose
    <2>2. <<>> \in Seq(ReplyUnit)
      OBVIOUS
    <2>3. /\ write_buffers' \in [Fds -> Seq(ReplyUnit)]
          /\ UNCHANGED batch /\ EventDone
      BY <1>1, <1>7, <2>2 DEF ReadClose, WriteClose, LoopTypeOK
    <2> QED BY <1>1, <2>1, <2>3, CloseLoop DEF EventDone, AfterEvents
  <1>8. CASE ResultClose
    <2>1. result.fd \in Fds /\ Close(result.fd)
      BY <1>8, ServedConn DEF ResultClose
    <2>2. /\ write_buffers' \in [Fds -> Seq(ReplyUnit)]
          /\ UNCHANGED <<batch, cur>> /\ ResultDone
      BY <1>1, <1>8 DEF ResultClose, LoopTypeOK
    <2> QED BY <1>1, <1>2, <2>1, <2>2, CloseLoop DEF ResultDone
  <1>9. CASE SendPartOfBody
    <2> DEFINE c == sock[result.fd]
               rest == Left(c, Body(result.q))
    <2>1. result.fd \in Fds /\ c \in Conns /\ Body(result.q) \in Seq(ReplyUnit)
      BY <1>9, ServedConn, ReplyTypes DEF SendPartOfBody
    <2>2. rest \in Seq(ReplyUnit)
      BY <1>1, <2>1, LeftType
    <2>3. write_buffers' = [write_buffers EXCEPT ![result.fd] = rest]
      BY <1>9 DEF SendPartOfBody
    <2> HIDE DEF rest
    <2>4. write_buffers' \in [Fds -> Seq(ReplyUnit)]
      BY <1>1, <2>2, <2>3 DEF LoopTypeOK
    <2> QED BY <1>1, <1>9, <2>4 DEF SendPartOfBody, LoopTypeOK, epoll
  <1>10. CASE WriteRest
    <2> DEFINE rest == Left(sock[cur], write_buffers[cur])
    <2>1. /\ cur \in Fds /\ sock[cur] \in Conns
          /\ write_buffers[cur] \in Seq(ReplyUnit)
      BY <1>10, ServedConn DEF WriteRest
    <2>2. rest \in Seq(ReplyUnit)
      BY <1>1, <2>1, LeftType
    <2>3. \/ UNCHANGED write_buffers
          \/ write_buffers' = [write_buffers EXCEPT ![cur] = rest]
      BY <1>10 DEF WriteRest
    <2> HIDE DEF rest
    <2>4. write_buffers' \in [Fds -> Seq(ReplyUnit)]
      BY <1>1, <2>2, <2>3 DEF LoopTypeOK
    <2>5. pc' \in Steps /\ cur' \in Fds \cup {Listener}
      BY <1>2, <1>10 DEF WriteRest, EventDone, AfterEvents
    <2> QED BY <1>1, <1>10, <2>4, <2>5 DEF WriteRest, LoopTypeOK, epoll
  <1>11. CASE Arm
    <2>1. result.fd \in Fds /\ Modify(result.fd, "inout_et")
      BY <1>11, ServedConn DEF Arm
    <2> QED BY <1>1, <1>2, <1>11, <2>1, ModifyLoop DEF Arm, ResultDone, Interests
  <1>12. CASE Disarm
    <2>1. cur \in Fds /\ Modify(cur, "in_et")
      BY <1>12, ServedConn DEF Disarm
    <2>2. pc' \in Steps /\ cur' \in Fds \cup {Listener}
      BY <1>12 DEF Disarm, EventDone, AfterEvents
    <2> QED BY <1>1, <1>12, <2>1, <2>2, ModifyLoop DEF Disarm, Interests
  <1>13. CASE AcceptAgain \/ ReadAgain \/ AcceptThrows \/ ReadQuery
    BY <1>1, <1>2, <1>13, LoopFrame DEF AcceptAgain, ReadAgain, AcceptThrows,
         ReadQuery, EventDone, AfterEvents, epoll, loop
  <1>14. CASE \/ ResultsDone \/ TryPop \/ ResultDropped \/ ResultKills
              \/ SendCount \/ SendBody \/ WriteKills
    BY <1>1, <1>2, <1>14, LoopFrame DEF ResultsDone, TryPop, ResultDropped,
         ResultKills, SendCount, SendBody, WriteKills, ResultDone, Killed, epoll
  <1>15. CASE \E w \in Workers : Worker(w)
    BY <1>1, <1>2, <1>15, LoopFrame DEF Worker, WorkerPop, WorkerPush, epoll, loop
  <1>16. CASE UNCHANGED vars
    BY <1>1, <1>2, <1>16, LoopFrame DEF vars, epoll, loop
  <1> QED BY <1>3, <1>4, <1>5, <1>6, <1>7, <1>8, <1>9, <1>10, <1>11, <1>12,
             <1>13, <1>14, <1>15, <1>16 DEF Next, RunLoop

-----------------------------------------------------------------------------
(* The types of the queues.                                                 *)

LEMMA QueuesFrame ==
  ASSUME QueuesTypeOK, UNCHANGED queues,
         UNCHANGED result \/ result' = NoItem
  PROVE  QueuesTypeOK'
  BY DEF QueuesTypeOK, queues

LEMMA NextQueues == ASSUME IInv, [Next]_vars PROVE QueuesTypeOK'
  <1>1. NetTypeOK /\ QueuesTypeOK
    BY DEF IInv, TypeOK
  <1>2. CASE UNCHANGED queues /\ (UNCHANGED result \/ result' = NoItem)
    BY <1>1, <1>2, QueuesFrame
  <1>3. CASE ReadQuery
    <2>1. cur \in Fds /\ sock[cur] \in Conns
      BY <1>3, ServedConn DEF ReadQuery
    <2>2. PICK q \in Queries : work_queue' = Append(work_queue, [fd |-> cur, q |-> q])
      BY <1>1, <1>3, <2>1, ReadQueryNet
    <2>3. [fd |-> cur, q |-> q] \in Items
      BY <2>1 DEF Items
    <2>4. work_queue' \in Seq(Items)
      BY <1>1, <2>2, <2>3, AppendProperties DEF QueuesTypeOK
    <2> QED BY <1>1, <1>3, <2>4 DEF ReadQuery, QueuesTypeOK, loop
  <1>4. CASE TryPop
    <2>1. Head(results_queue) \in Items /\ Tail(results_queue) \in Seq(Items)
      BY <1>1, <1>4, HeadTailProperties DEF TryPop, QueuesTypeOK
    <2> QED BY <1>1, <1>4, <2>1 DEF TryPop, QueuesTypeOK
  <1>5. ASSUME NEW w \in Workers, WorkerPop(w) PROVE QueuesTypeOK'
    <2>1. Head(work_queue) \in Items /\ Tail(work_queue) \in Seq(Items)
      BY <1>1, <1>5, HeadTailProperties DEF WorkerPop, QueuesTypeOK
    <2> QED BY <1>1, <1>5, <2>1 DEF WorkerPop, QueuesTypeOK, loop
  <1>6. ASSUME NEW w \in Workers, WorkerPush(w) PROVE QueuesTypeOK'
    <2>1. busy[w] \in Items
      BY <1>1, <1>6 DEF WorkerPush, QueuesTypeOK
    <2>2. results_queue' \in Seq(Items)
      BY <1>1, <1>6, <2>1, AppendProperties DEF WorkerPush, QueuesTypeOK
    <2> QED BY <1>1, <1>6, <2>2 DEF WorkerPush, QueuesTypeOK, loop
  <1>7. CASE Environment
    BY <1>2, <1>7 DEF Environment, Connect, ClientSend, Deliver, ClientRecv,
         HangUp, PeerReset, loop
  <1>8. CASE \/ EpollWait \/ Dispatch \/ Accept \/ AcceptAgain \/ AcceptThrows
             \/ ReadAgain \/ ReadClose \/ ResultsDone \/ ResultDropped
             \/ ResultClose \/ ResultKills
    BY <1>2, <1>8 DEF EpollWait, Dispatch, Accept, AcceptAgain, AcceptThrows,
         ReadAgain, ReadClose, ResultsDone, ResultDropped, ResultClose,
         ResultKills, ResultDone, Killed, loop
  <1>9. CASE \/ SendCount \/ SendBody \/ SendPartOfBody \/ Arm \/ WriteRest
             \/ WriteClose \/ WriteKills \/ Disarm
    BY <1>2, <1>9 DEF SendCount, SendBody, SendPartOfBody, Arm, WriteRest,
         WriteClose, WriteKills, Disarm, ResultDone, Killed
  <1>10. CASE UNCHANGED vars
    BY <1>2, <1>10 DEF vars, loop
  <1> QED BY <1>3, <1>4, <1>5, <1>6, <1>7, <1>8, <1>9, <1>10
          DEF Next, RunLoop, Worker

-----------------------------------------------------------------------------
(* The control.                                                             *)

LEMMA ControlFrame ==
  ASSUME ControlInv, UNCHANGED <<sock, interest, loop, write_buffers>>
  PROVE  ControlInv'
  BY DEF ControlInv, BatchInv, ResultInv, NoStaleEvents, WriteBufferFound, loop

(* An event that was handled without closing anything.                      *)
LEMMA EventDoneControl ==
  ASSUME ControlInv, EventDone, UNCHANGED <<sock, batch, result, write_buffers>>,
         \A f \in Fds : interest'[f] = "inout_et" => write_buffers[f] # <<>>
  PROVE  ControlInv'
  BY DEF ControlInv, BatchInv, ResultInv, NoStaleEvents, WriteBufferFound,
         EventDone, AfterEvents

(* The handler of a descriptor closes it and erases its buffer: no other    *)
(* event of the batch is about it.                                          *)
LEMMA EventCloseControl ==
  ASSUME IInv, pc \in {"read", "write"}, Close(cur), EventDone,
         write_buffers' = [write_buffers EXCEPT ![cur] = <<>>],
         UNCHANGED <<batch, result>>
  PROVE  ControlInv'
  <1>1. cur \in Fds /\ \A e \in batch : e.fd # cur
    BY DEF IInv, ControlInv, BatchInv
  <1>2. LoopTypeOK
    BY DEF IInv, TypeOK
  <1>3. \A e \in batch : e.fd \in Fds \cup {Listener} /\ e.ev \subseteq {"in", "out"}
    BY <1>2 DEF LoopTypeOK
  <1>4. \A f \in Fds : f # cur =>
          /\ sock'[f] = sock[f] /\ interest'[f] = interest[f]
          /\ write_buffers'[f] = write_buffers[f]
    BY <1>2 DEF Close, LoopTypeOK
  <1>5. interest'[cur] = "in"
    BY <1>1, <1>2 DEF Close, LoopTypeOK
  <1>6. pc' \in {"results", "events"} /\ (pc' = "results" => batch = {})
    BY DEF EventDone, AfterEvents
  <1>7. BatchInv'
    BY <1>6 DEF IInv, ControlInv, BatchInv
  <1>8. NoStaleEvents'
    BY <1>1, <1>3, <1>4, <1>6 DEF IInv, ControlInv, NoStaleEvents
  <1>9. WriteBufferFound'
    <2>1. \A f \in Fds : interest'[f] = "inout_et" => write_buffers'[f] # <<>>
      BY <1>4, <1>5 DEF IInv, ControlInv, WriteBufferFound
    <2>2. \A e \in batch' : "out" \in e.ev => write_buffers'[e.fd] # <<>>
      <3> TAKE e \in batch'
      <3>1. e \in batch /\ e.fd # cur
        BY <1>1
      <3>2. write_buffers'[e.fd] = write_buffers[e.fd]
        BY <1>2, <3>1 DEF LoopTypeOK
      <3> QED BY <3>1, <3>2 DEF IInv, ControlInv, WriteBufferFound
    <2> QED BY <1>6, <2>1, <2>2 DEF WriteBufferFound
  <1> QED BY <1>6, <1>7, <1>8, <1>9 DEF ControlInv, ResultInv

(* Steps of process_results: no event is left and none comes.               *)
LEMMA ResultsControl ==
  ASSUME ControlInv, batch = {}, UNCHANGED <<sock, interest, batch, cur>>,
         pc' \notin {"read", "write", "disarm"}, pc # "disarm",
         pc' \in {"count", "body", "arm"} => result' \in Items,
         pc' \in {"body", "arm"} => sock[result'.fd] # NoConn,
         pc' = "arm" => write_buffers'[result'.fd] # <<>>,
         \A f \in Fds : write_buffers[f] # <<>> => write_buffers'[f] # <<>>
  PROVE  ControlInv'
  BY DEF ControlInv, BatchInv, ResultInv, NoStaleEvents, WriteBufferFound

LEMMA NextControl == ASSUME IInv, [Next]_vars PROVE ControlInv'
  <1>1. ControlInv /\ LoopTypeOK /\ QueuesTypeOK /\ NetTypeOK
    BY DEF IInv, TypeOK
  <1>2. CASE \/ ReadQuery \/ UNCHANGED vars \/ Environment
             \/ \E w \in Workers : Worker(w)
    BY <1>1, <1>2, ControlFrame DEF Environment, Connect, ClientSend, Deliver,
         ClientRecv, HangUp, PeerReset, Worker, WorkerPop, WorkerPush,
         ReadQuery, vars, epoll
  <1>3. CASE EpollWait
    <2>1. PICK b \in SUBSET Pending : batch' = b /\ pc' = AfterEvents(b)
      BY <1>3 DEF EpollWait
    <2>2. pc = "wait" /\ UNCHANGED <<sock, interest, cur, result, write_buffers>>
      BY <1>3 DEF EpollWait
    <2>3. pc' \in {"results", "events"} /\ (pc' = "results" => batch' = {})
      BY <2>1 DEF AfterEvents
    <2>4. BatchInv'
      BY <1>1, <2>1, <2>3, PendingType DEF BatchInv
    <2>5. NoStaleEvents'
      BY <1>1, <2>1, <2>2, <2>3, PendingType DEF NoStaleEvents
    <2>6. \A f \in Fds : interest[f] = "inout_et" => write_buffers[f] # <<>>
      BY <1>1, <2>2 DEF ControlInv, WriteBufferFound
    <2>7. \A e \in batch' : "out" \in e.ev => write_buffers[e.fd] # <<>>
      BY <1>1, <2>1, <2>6, PendingType
    <2> QED BY <2>2, <2>3, <2>4, <2>5, <2>6, <2>7
            DEF ControlInv, ResultInv, WriteBufferFound
  <1>4. CASE Dispatch
    <2>1. PICK e \in batch :
            /\ batch' = batch \ {e}
            /\ cur' = e.fd
            /\ pc' = IF e.fd = Listener THEN "accept"
                     ELSE IF "in" \in e.ev THEN "read" ELSE "write"
      BY <1>4 DEF Dispatch
    <2>2. pc = "events" /\ UNCHANGED <<sock, interest, result, write_buffers>>
      BY <1>4 DEF Dispatch, epoll
    <2>3. e.ev # {} /\ e.ev \subseteq {"in", "out"} /\ e.fd \in Fds \cup {Listener}
      BY <1>1 DEF ControlInv, BatchInv, LoopTypeOK
    <2>4. \A g \in batch' : g \in batch /\ g.fd # cur'
      BY <1>1, <2>1 DEF ControlInv, BatchInv
    <2>5. BatchInv'
      BY <1>1, <2>1, <2>3, <2>4 DEF ControlInv, BatchInv
    <2>6. NoStaleEvents'
      BY <1>1, <2>1, <2>2, <2>4 DEF ControlInv, NoStaleEvents
    <2>7. pc' = "write" => write_buffers[cur'] # <<>>
      BY <1>1, <2>1, <2>3 DEF ControlInv, WriteBufferFound
    <2>8. WriteBufferFound'
      BY <1>1, <2>1, <2>2, <2>4, <2>7 DEF ControlInv, WriteBufferFound
    <2> QED BY <2>1, <2>5, <2>6, <2>8 DEF ControlInv, ResultInv
  <1>5. CASE Accept
    <2>1. PICK f \in Fds : /\ sock[f] = NoConn
                           /\ sock' = [sock EXCEPT ![f] = Head(backlog)]
                           /\ interest' = [interest EXCEPT ![f] = "in"]
      BY <1>5 DEF Accept, FreeFds
    <2>2. pc = "accept" /\ UNCHANGED <<pc, batch, cur, result, write_buffers>>
      BY <1>5 DEF Accept, loop
    <2>3. \A e \in batch : e.fd # f
      BY <1>1, <2>1, ListenerFacts DEF ControlInv, NoStaleEvents
    <2>4. \A g \in Fds : g # f => sock'[g] = sock[g]
      BY <1>1, <2>1 DEF LoopTypeOK
    <2>5. \A e \in batch : e.fd # Listener => e.fd \in Fds
      BY <1>1 DEF LoopTypeOK
    <2>6. NoStaleEvents'
      BY <1>1, <2>2, <2>3, <2>4, <2>5 DEF ControlInv, NoStaleEvents
    <2>7. \A g \in Fds : interest'[g] = "inout_et" => interest[g] = "inout_et"
      BY <1>1, <2>1 DEF LoopTypeOK
    <2>8. WriteBufferFound'
      BY <1>1, <2>2, <2>7 DEF ControlInv, WriteBufferFound
    <2> QED BY <1>1, <2>2, <2>6, <2>8 DEF ControlInv, BatchInv, ResultInv
  <1>6. CASE AcceptAgain \/ ReadAgain
    <2>1. pc # "disarm" /\ EventDone
          /\ UNCHANGED <<sock, interest, batch, result, write_buffers>>
      BY <1>6 DEF AcceptAgain, ReadAgain, epoll
    <2>2. \A f \in Fds : interest'[f] = "inout_et" => write_buffers[f] # <<>>
      BY <1>1, <2>1 DEF ControlInv, WriteBufferFound
    <2> QED BY <1>1, <2>1, <2>2, EventDoneControl
  <1>7. CASE AcceptThrows \/ ResultKills \/ WriteKills
    <2>1. /\ pc \notin {"disarm"} /\ pc' = "stopped"
          /\ UNCHANGED <<sock, interest, batch, cur, result, write_buffers>>
      BY <1>7 DEF AcceptThrows, ResultKills, WriteKills, Killed, epoll
    <2> QED BY <1>1, <2>1 DEF ControlInv, BatchInv, ResultInv, NoStaleEvents,
              WriteBufferFound
  <1>8. CASE ReadClose \/ WriteClose
    <2>1. /\ pc \in {"read", "write"} /\ Close(cur) /\ EventDone
          /\ write_buffers' = [write_buffers EXCEPT ![cur] = <<>>]
          /\ UNCHANGED <<batch, result>>
      BY <1>8 DEF ReadClose, WriteClose
    <2> QED BY <2>1, EventCloseControl
  <1>9. CASE ResultsDone \/ ResultDropped \/ SendBody
    <2>1. /\ pc \in {"results", "count", "body"} /\ pc' \in {"wait", "results"}
          /\ UNCHANGED <<sock, interest, batch, cur, write_buffers>>
      BY <1>9 DEF ResultsDone, ResultDropped, SendBody, ResultDone, epoll
    <2>2. batch = {}
      BY <1>1, <2>1 DEF ControlInv, BatchInv
    <2> QED BY <1>1, <2>1, <2>2, ResultsControl
  <1>10. CASE TryPop
    <2>1. Head(results_queue) \in Items
      BY <1>1, <1>10, HeadTailProperties DEF TryPop, QueuesTypeOK
    <2>2. batch = {} /\ pc = "results"
      BY <1>1, <1>10 DEF ControlInv, BatchInv, TryPop
    <2> QED BY <1>1, <1>10, <2>1, <2>2, ResultsControl DEF TryPop, epoll
  <1>11. CASE SendCount
    <2>1. batch = {} /\ pc = "count"
      BY <1>1, <1>11 DEF ControlInv, BatchInv, SendCount
    <2>2. result \in Items
      BY <1>1, <2>1 DEF ControlInv, ResultInv
    <2> QED BY <1>1, <1>11, <2>1, <2>2, ResultsControl DEF SendCount, epoll
  <1>12. CASE SendPartOfBody
    <2> DEFINE rest == Left(sock[result.fd], Body(result.q))
    <2>1. batch = {} /\ pc = "body" /\ pc' = "arm"
      BY <1>1, <1>12 DEF ControlInv, BatchInv, SendPartOfBody
    <2>2. result \in Items /\ result.fd \in Fds
      BY <2>1, ServedConn
    <2>3. /\ rest # <<>> /\ write_buffers' = [write_buffers EXCEPT ![result.fd] = rest]
          /\ UNCHANGED <<sock, interest, batch, cur, result>>
          /\ sock[result.fd] # NoConn
      BY <1>12 DEF SendPartOfBody, epoll
    <2> HIDE DEF rest
    <2>4. write_buffers'[result.fd] # <<>>
      BY <1>1, <2>2, <2>3 DEF LoopTypeOK
    <2>5. \A f \in Fds : write_buffers[f] # <<>> => write_buffers'[f] # <<>>
      BY <1>1, <2>2, <2>3 DEF LoopTypeOK
    <2> QED BY <1>1, <2>1, <2>2, <2>3, <2>4, <2>5, ResultsControl
  <1>13. CASE ResultClose
    <2>1. /\ pc \in {"count", "body"} /\ pc' = "results" /\ Close(result.fd)
          /\ UNCHANGED <<batch, cur, write_buffers>>
      BY <1>13 DEF ResultClose, ResultDone
    <2>2. batch = {}
      BY <1>1, <2>1 DEF ControlInv, BatchInv
    <2>3. \A f \in Fds : interest'[f] = "inout_et" => interest[f] = "inout_et"
      BY <1>1, <2>1 DEF Close, LoopTypeOK
    <2> QED BY <1>1, <2>1, <2>2, <2>3
            DEF ControlInv, BatchInv, ResultInv, NoStaleEvents, WriteBufferFound
  <1>14. CASE Arm
    <2>1. /\ pc = "arm" /\ pc' = "results" /\ Modify(result.fd, "inout_et")
          /\ UNCHANGED <<batch, cur, write_buffers>>
      BY <1>14 DEF Arm, ResultDone
    <2>2. batch = {} /\ write_buffers[result.fd] # <<>>
      BY <1>1, <2>1 DEF ControlInv, BatchInv, ResultInv
    <2>3. \A f \in Fds : interest'[f] = "inout_et" =>
            interest[f] = "inout_et" \/ f = result.fd
      BY <1>1, <2>1 DEF Modify, LoopTypeOK
    <2> QED BY <1>1, <2>1, <2>2, <2>3
            DEF ControlInv, BatchInv, ResultInv, NoStaleEvents, WriteBufferFound
  <1>15. CASE WriteRest
    <2> DEFINE rest == Left(sock[cur], write_buffers[cur])
    <2>1. pc = "write" /\ write_buffers[cur] # <<>>
          /\ UNCHANGED <<sock, interest, batch, result>>
      BY <1>1, <1>15 DEF ControlInv, WriteBufferFound, WriteRest, epoll
    <2>2. cur \in Fds /\ \A e \in batch : e.fd # cur
      BY <1>1, <2>1 DEF ControlInv, BatchInv
    <2>3. /\ write_buffers' = [write_buffers EXCEPT ![cur] = rest]
          /\ IF rest = <<>> THEN pc' = "disarm" /\ UNCHANGED cur ELSE EventDone
      BY <1>15, <2>1 DEF WriteRest
    <2> HIDE DEF rest
    <2>4. \A f \in Fds : write_buffers'[f] = IF f = cur THEN rest ELSE write_buffers[f]
      BY <1>1, <2>3 DEF LoopTypeOK
    <2>5. \A e \in batch : "out" \in e.ev => write_buffers'[e.fd] # <<>>
      <3> SUFFICES ASSUME NEW e \in batch, "out" \in e.ev
                   PROVE  write_buffers'[e.fd] # <<>>
        OBVIOUS
      <3>1. write_buffers[e.fd] # <<>> /\ e.fd # cur
        BY <1>1, <2>2 DEF ControlInv, WriteBufferFound
      <3>2. write_buffers'[e.fd] = write_buffers[e.fd]
        BY <1>1, <2>3, <3>1 DEF LoopTypeOK
      <3> QED BY <3>1, <3>2
    <2>6. CASE rest = <<>>
      <3>1. pc' = "disarm" /\ UNCHANGED cur
        BY <2>3, <2>6
      <3>2. BatchInv' /\ ResultInv' /\ NoStaleEvents'
        BY <1>1, <2>1, <2>2, <3>1 DEF ControlInv, BatchInv, ResultInv, NoStaleEvents
      <3>3. WriteBufferFound'
        BY <1>1, <2>1, <2>4, <2>5, <3>1 DEF ControlInv, WriteBufferFound
      <3> QED BY <3>2, <3>3 DEF ControlInv
    <2>7. CASE rest # <<>>
      <3>1. pc' \in {"results", "events"} /\ (pc' = "results" => batch = {})
        BY <2>3, <2>7 DEF EventDone, AfterEvents
      <3>2. BatchInv' /\ ResultInv' /\ NoStaleEvents'
        BY <1>1, <2>1, <2>2, <3>1 DEF ControlInv, BatchInv, ResultInv, NoStaleEvents
      <3>3. WriteBufferFound'
        BY <1>1, <2>1, <2>4, <2>5, <2>7, <3>1 DEF ControlInv, WriteBufferFound
      <3> QED BY <3>2, <3>3 DEF ControlInv
    <2> QED BY <2>6, <2>7
  <1>16. CASE Disarm
    <2>1. /\ pc = "disarm" /\ Modify(cur, "in_et") /\ EventDone
          /\ UNCHANGED <<sock, batch, result, write_buffers>>
      BY <1>16 DEF Disarm, Modify
    <2>2. \A f \in Fds : interest'[f] = "inout_et" => f # cur /\ interest[f] = "inout_et"
      BY <1>1, <2>1 DEF Modify, LoopTypeOK
    <2>3. \A f \in Fds : interest'[f] = "inout_et" => write_buffers[f] # <<>>
      BY <1>1, <2>2 DEF ControlInv, WriteBufferFound
    <2> QED BY <1>1, <2>1, <2>3, EventDoneControl
  <1> QED BY <1>2, <1>3, <1>4, <1>5, <1>6, <1>7, <1>8, <1>9, <1>10, <1>11,
             <1>12, <1>13, <1>14, <1>15, <1>16 DEF Next, RunLoop

-----------------------------------------------------------------------------
(* Edges: what makes a descriptor readable also puts it on the ready list,  *)
(* and the loop takes it from there to a recv() that finds nothing.         *)

(* A step that neither makes anything readable nor drops an edge or event.  *)
LEMMA EdgeKept ==
  ASSUME NoLostReadEdge, UNCHANGED <<status, flight, inb, sock, interest, batch>>,
         ready \subseteq ready',
         pc \in {"read", "stopped"} => UNCHANGED <<pc, cur>>
  PROVE  NoLostReadEdge'
  BY DEF NoLostReadEdge, Readable

LEMMA EdgeOfClose ==
  ASSUME NoLostReadEdge, NetTypeOK, LoopTypeOK, NEW g \in Fds, Close(g),
         UNCHANGED batch, pc # "stopped", pc = "read" => cur = g
  PROVE  NoLostReadEdge'
  <1> DEFINE c == sock[g]
  <1>1. \A f \in Fds : sock'[f] # NoConn => f # g /\ sock'[f] = sock[f]
    BY DEF Close, LoopTypeOK
  <1>2. \A f \in Fds : f # g => interest'[f] = interest[f]
    BY DEF Close, LoopTypeOK
  <1>3. \A d \in Conns : d # c =>
          status'[d] = status[d] /\ flight'[d] = flight[d] /\ inb'[d] = inb[d]
    BY DEF Close, NetTypeOK
  <1>4. c \in Conns => status'[c] = "closed" /\ inb'[c] = <<>>
    BY DEF Close, NetTypeOK
  <1>5. \A d \in Conns : Readable(d)' => Readable(d)
    BY <1>3, <1>4 DEF Readable
  <1>6. \A f \in Fds : sock'[f] # NoConn => sock'[f] \in Conns
    BY <1>1 DEF LoopTypeOK
  <1> SUFFICES ASSUME NEW f \in Fds, sock'[f] # NoConn, interest'[f] # "in",
                      Readable(sock[f])'
               PROVE  \/ f \in ready'
                      \/ \E e \in batch' : e.fd = f /\ "in" \in e.ev
    BY DEF NoLostReadEdge
  <1>7. f # g /\ sock'[f] = sock[f] /\ interest'[f] = interest[f]
    BY <1>1, <1>2
  <1>8. Readable(sock[f])
    BY <1>5, <1>6, <1>7 DEF Readable
  <1>9. f \in ready \/ \E e \in batch : e.fd = f /\ "in" \in e.ev
    BY <1>7, <1>8 DEF NoLostReadEdge
  <1> QED BY <1>7, <1>9 DEF Close

LEMMA EdgeOfModify ==
  ASSUME NoLostReadEdge, LoopTypeOK, NEW g \in Fds, NEW i, Modify(g, i),
         UNCHANGED <<status, flight, inb, batch>>, pc \notin {"read", "stopped"}
  PROVE  NoLostReadEdge'
  <1>1. UNCHANGED sock /\ ready \subseteq ready'
        /\ (Readable(sock[g]) => g \in ready')
    BY DEF Modify
  <1>2. \A f \in Fds : f # g => interest'[f] = interest[f]
    BY DEF Modify, LoopTypeOK
  <1> QED BY <1>1, <1>2 DEF NoLostReadEdge, Readable

LEMMA EdgeOfEnvironment ==
  ASSUME NoLostReadEdge, NetTypeOK, LoopTypeOK, NEW c \in Conns,
         \/ Connect(c) \/ ClientSend(c) \/ Deliver(c)
         \/ ClientRecv(c) \/ HangUp(c) \/ PeerReset(c)
  PROVE  NoLostReadEdge'
  <1>0. \A f \in Fds : sock[f] # NoConn => sock[f] \in Conns
    BY DEF LoopTypeOK
  <1>1. CASE Connect(c) \/ ClientSend(c) \/ ClientRecv(c)
    <2>1. /\ UNCHANGED <<inb, sock, interest, batch, pc, cur>>
          /\ ready \subseteq ready'
      BY <1>1 DEF Connect, ClientSend, ClientRecv, epoll, loop
    <2>2. \A d \in Conns : Readable(d)' => Readable(d)
      <3>1. \A d \in Conns : status'[d] \in {"fin", "reset", "broken"} =>
              status'[d] = status[d] /\ (status[d] = "fin" => flight'[d] = flight[d])
        BY <1>1 DEF Connect, ClientSend, ClientRecv, NetTypeOK
      <3> QED BY <2>1, <3>1 DEF Readable
    <2> QED BY <1>0, <2>1, <2>2 DEF NoLostReadEdge, Readable
  <1>2. CASE Deliver(c) \/ HangUp(c) \/ PeerReset(c)
    <2>1. /\ UNCHANGED <<sock, interest, batch, pc, cur>>
          /\ ready' = ready \cup EdgeFds(c)
      BY <1>2 DEF Deliver, HangUp, PeerReset, Edge, loop
    <2>2. \A d \in Conns : d # c =>
            status'[d] = status[d] /\ flight'[d] = flight[d] /\ inb'[d] = inb[d]
      BY <1>2 DEF Deliver, HangUp, PeerReset, NetTypeOK
    <2>3. \A f \in Fds : sock[f] = c /\ interest[f] # "in" => f \in ready'
      BY <2>1 DEF EdgeFds, FdsOf
    <2> QED BY <1>0, <2>1, <2>2, <2>3 DEF NoLostReadEdge, Readable
  <1> QED BY <1>1, <1>2

LEMMA NextReadEdge == ASSUME IInv, NoLostReadEdge, [Next]_vars PROVE NoLostReadEdge'
  <1>1. ControlInv /\ LoopTypeOK /\ NetTypeOK
    BY DEF IInv, TypeOK
  <1>2. CASE Environment
    BY <1>1, <1>2, EdgeOfEnvironment DEF Environment
  <1>3. CASE EpollWait
    <2>1. PICK b \in SUBSET Pending :
            /\ batch' = b
            /\ ready' = {f \in ready : Events(f) # {} /\ ~ \E e \in b : e.fd = f}
      BY <1>3 DEF EpollWait
    <2>2. pc = "wait" /\ batch = {} /\ UNCHANGED <<status, flight, inb, sock, interest>>
      BY <1>1, <1>3 DEF EpollWait, net, ControlInv, BatchInv
    <2> SUFFICES ASSUME NEW f \in Fds, sock[f] # NoConn, interest[f] # "in",
                        Readable(sock[f])
                 PROVE  f \in ready' \/ \E e \in batch' : e.fd = f /\ "in" \in e.ev
      BY <2>2 DEF NoLostReadEdge, Readable
    <2>3. f \in ready /\ "in" \in Events(f)
      BY <2>2 DEF NoLostReadEdge, Events
    <2>4. \A e \in b : e.fd = f => "in" \in e.ev
      BY <1>1, <2>3, PendingType, ListenerFacts
    <2> QED BY <2>1, <2>3, <2>4
  <1>4. CASE Dispatch
    <2>1. PICK e \in batch :
            /\ batch' = batch \ {e} /\ cur' = e.fd
            /\ pc' = IF e.fd = Listener THEN "accept"
                     ELSE IF "in" \in e.ev THEN "read" ELSE "write"
      BY <1>4 DEF Dispatch
    <2>2. pc = "events" /\ UNCHANGED <<status, flight, inb, sock, interest, ready>>
      BY <1>4 DEF Dispatch, net, epoll
    <2> QED BY <2>1, <2>2, ListenerFacts DEF NoLostReadEdge, Readable
  <1>5. CASE Accept
    <2>1. PICK g \in Fds : /\ sock' = [sock EXCEPT ![g] = Head(backlog)]
                           /\ interest' = [interest EXCEPT ![g] = "in"]
      BY <1>5 DEF Accept, FreeFds
    <2>2. \A f \in Fds : interest'[f] # "in" =>
            sock'[f] = sock[f] /\ interest'[f] = interest[f]
      BY <1>1, <2>1 DEF LoopTypeOK
    <2> QED BY <1>5, <2>2 DEF Accept, NoLostReadEdge, Readable, loop
  <1>6. CASE ReadQuery
    <2>1. pc = "read" /\ UNCHANGED <<status, flight, sock, interest, ready, loop>>
      BY <1>6 DEF ReadQuery, epoll
    <2>2. \A d \in Conns : d # sock[cur] => inb'[d] = inb[d]
      BY <1>1, <1>6 DEF ReadQuery, NetTypeOK
    <2>3. \A f \in Fds : sock[f] # NoConn => sock[f] \in Conns
      BY <1>1 DEF LoopTypeOK
    <2>4. inb[sock[cur]] # <<>>
      BY <1>6 DEF ReadQuery
    <2> QED BY <2>1, <2>2, <2>3, <2>4 DEF NoLostReadEdge, Readable, loop
  <1>7. CASE ReadAgain
    <2>1. /\ pc = "read" /\ ~Readable(sock[cur])
          /\ UNCHANGED <<status, flight, inb, sock, interest, ready, batch>>
      BY <1>7 DEF ReadAgain, net, epoll
    <2> QED BY <2>1 DEF NoLostReadEdge, Readable
  <1>8. CASE ReadClose \/ WriteClose
    <2>1. cur \in Fds /\ Close(cur) /\ UNCHANGED batch /\ pc # "stopped"
      BY <1>8, ServedConn DEF ReadClose, WriteClose
    <2> QED BY <1>1, <2>1, EdgeOfClose
  <1>9. CASE ResultClose
    <2>1. /\ result.fd \in Fds /\ Close(result.fd) /\ UNCHANGED batch
          /\ pc \notin {"read", "stopped"}
      BY <1>9, ServedConn DEF ResultClose
    <2> QED BY <1>1, <2>1, EdgeOfClose
  <1>10. CASE Arm
    <2>1. /\ result.fd \in Fds /\ Modify(result.fd, "inout_et") /\ pc = "arm"
          /\ UNCHANGED <<status, flight, inb, batch>>
      BY <1>10, ServedConn DEF Arm, net
    <2> QED BY <1>1, <2>1, EdgeOfModify
  <1>11. CASE Disarm
    <2>1. /\ cur \in Fds /\ Modify(cur, "in_et") /\ pc = "disarm"
          /\ UNCHANGED <<status, flight, inb, batch>>
      BY <1>11, ServedConn DEF Disarm, net
    <2> QED BY <1>1, <2>1, EdgeOfModify
  <1>12. CASE \/ AcceptAgain \/ AcceptThrows \/ ResultsDone \/ TryPop
              \/ ResultDropped \/ ResultKills \/ SendCount \/ SendBody
              \/ SendPartOfBody \/ WriteRest \/ WriteKills
    <2>1. /\ pc \notin {"read", "stopped"}
          /\ UNCHANGED <<status, flight, inb, sock, interest, ready, batch>>
      BY <1>12 DEF AcceptAgain, AcceptThrows, ResultsDone, TryPop, ResultDropped,
           ResultKills, SendCount, SendBody, SendPartOfBody, WriteRest,
           WriteKills, Killed, net, epoll
    <2> QED BY <2>1, EdgeKept
  <1>13. CASE UNCHANGED vars \/ \E w \in Workers : Worker(w)
    <2>1. UNCHANGED <<net, epoll, loop>>
      BY <1>13 DEF Worker, WorkerPop, WorkerPush, vars
    <2> QED BY <2>1, EdgeKept DEF net, epoll, loop
  <1> QED BY <1>2, <1>3, <1>4, <1>5, <1>6, <1>7, <1>8, <1>9, <1>10, <1>11,
             <1>12, <1>13 DEF Next, RunLoop

-----------------------------------------------------------------------------
LEMMA InitIInv == Init => IInv
  <1> SUFFICES ASSUME Init PROVE IInv
    OBVIOUS
  <1> USE ConstantsAssumption DEF Init
  <1>1. NetTypeOK
    <2>1. \A c \in Conns : <<>> \in Seq(Unit(c)) /\ <<>> \in Seq(ReplyUnit)
      OBVIOUS
    <2> QED BY <2>1 DEF NetTypeOK, ConnStatus
  <1>2. LoopTypeOK
    <2>1. <<>> \in Seq(ReplyUnit)
      OBVIOUS
    <2> QED BY <2>1 DEF LoopTypeOK, Interests, Steps
  <1>3. QueuesTypeOK
    BY DEF QueuesTypeOK
  <1>4. ControlInv
    BY DEF ControlInv, BatchInv, ResultInv, NoStaleEvents, WriteBufferFound
  <1> QED BY <1>1, <1>2, <1>3, <1>4 DEF IInv, TypeOK

(* The inductive invariant holds in every behaviour.                        *)
LEMMA Invariant == Spec => []IInv
  <1>1. IInv /\ [Next]_vars => IInv'
    BY NextNet, NextLoop, NextQueues, NextControl DEF IInv, TypeOK
  <1> QED BY InitIInv, <1>1, PTL DEF Spec

(* Whatever clients do, every variable of the server (server.cc, TS-queue.h *)
(* as FIFO queues) keeps its type, and no more is in the kernel's buffer of *)
(* a connection than it holds.                                              *)
THEOREM TypeCorrect == Spec => []TypeOK
  <1>1. IInv => TypeOK
    BY DEF IInv
  <1> QED BY Invariant, <1>1, PTL

(* The loop of run() (server.cc:94-135) never handles an event of a         *)
(* descriptor that was closed, or closed and reopened for another client,   *)
(* after epoll_wait reported it.                                            *)
THEOREM EventsAreFresh == Spec => []NoStaleEvents
  <1>1. IInv => NoStaleEvents
    BY DEF IInv, ControlInv
  <1> QED BY Invariant, <1>1, PTL

(* handle_write (server.cc:258-289) always finds the buffer of the          *)
(* descriptor: its "Should not happen" return is unreachable.               *)
THEOREM BufferIsFound == Spec => []WriteBufferFound
  <1>1. IInv => WriteBufferFound
    BY DEF IInv, ControlInv
  <1> QED BY Invariant, <1>1, PTL

(* Data and ends of stream on an edge-triggered descriptor are never left   *)
(* behind: handle_read (server.cc:167-195) reads until EAGAIN, and each     *)
(* epoll_ctl of send_result and handle_write polls the descriptor again.    *)
THEOREM NoReadEdgeIsLost == Spec => []NoLostReadEdge
  <1>1. Init => NoLostReadEdge
    BY DEF Init, NoLostReadEdge
  <1>2. IInv /\ NoLostReadEdge /\ [Next]_vars => NoLostReadEdge'
    BY NextReadEdge
  <1> QED BY Invariant, <1>1, <1>2, PTL DEF Spec

-----------------------------------------------------------------------------
(* AtMostOnce.  Where a query is: at which places of a sequence, of items   *)
(* or of units.                                                             *)
Asked == Queries \ {Torn}
First(q) == [q |-> q, k |-> 1]

Has(s, x) == \E i \in 1..Len(s) : s[i] = x
One(s, x) == \A i, j \in 1..Len(s) : s[i] = x /\ s[j] = x => i = j
HasItem(s, q) == \E i \in 1..Len(s) : s[i].q = q
OneItem(s, q) == \A i, j \in 1..Len(s) : s[i].q = q /\ s[j].q = q => i = j

LEMMA HasConcat ==
  ASSUME NEW S, NEW s \in Seq(S), NEW t \in Seq(S), NEW x
  PROVE  /\ Has(s \o t, x) => Has(s, x) \/ Has(t, x)
         /\ One(s, x) /\ One(t, x) /\ ~(Has(s, x) /\ Has(t, x)) => One(s \o t, x)
  <1>1. /\ Len(s \o t) = Len(s) + Len(t) /\ Len(s) \in Nat /\ Len(t) \in Nat
        /\ \A i \in 1..Len(s) : (s \o t)[i] = s[i]
        /\ \A i \in (Len(s) + 1)..(Len(s) + Len(t)) :
             (s \o t)[i] = t[i - Len(s)] /\ i - Len(s) \in 1..Len(t)
    BY ConcatProperties
  <1>2. \A i \in 1..Len(s \o t) :
          i \in 1..Len(s) \/ i \in (Len(s) + 1)..(Len(s) + Len(t))
    BY <1>1
  <1>3. Has(s \o t, x) => Has(s, x) \/ Has(t, x)
    BY <1>1, <1>2 DEF Has
  <1>4. ASSUME One(s, x), One(t, x), ~(Has(s, x) /\ Has(t, x)),
               NEW i \in 1..Len(s \o t), NEW j \in 1..Len(s \o t),
               (s \o t)[i] = x, (s \o t)[j] = x
        PROVE  i = j
    <2>1. CASE i \in 1..Len(s) /\ j \in 1..Len(s)
      BY <1>1, <1>4, <2>1 DEF One
    <2>2. CASE /\ i \in (Len(s) + 1)..(Len(s) + Len(t))
               /\ j \in (Len(s) + 1)..(Len(s) + Len(t))
      <3>1. i - Len(s) = j - Len(s)
        BY <1>1, <1>4, <2>2 DEF One
      <3> QED BY <1>1, <2>2, <3>1
    <2>3. CASE \/ i \in 1..Len(s) /\ j \in (Len(s) + 1)..(Len(s) + Len(t))
               \/ j \in 1..Len(s) /\ i \in (Len(s) + 1)..(Len(s) + Len(t))
      <3>1. Has(s, x) /\ Has(t, x)
        BY <1>1, <1>4, <2>3 DEF Has
      <3> QED BY <1>4, <3>1
    <2> QED BY <1>2, <2>1, <2>2, <2>3
  <1> QED BY <1>3, <1>4 DEF One

(* A sequence cut in two.                                                   *)
LEMMA HasCut ==
  ASSUME NEW S, NEW s \in Seq(S), NEW k \in 0..Len(s), NEW x
  PROVE  /\ Has(SubSeq(s, 1, k), x) => Has(s, x)
         /\ Has(Drop(s, k), x) => Has(s, x)
         /\ One(s, x) =>
              /\ One(SubSeq(s, 1, k), x) /\ One(Drop(s, k), x)
              /\ ~(Has(SubSeq(s, 1, k), x) /\ Has(Drop(s, k), x))
  <1>1. Len(s) \in Nat /\ k \in Nat /\ k <= Len(s)
    OBVIOUS
  <1>2. /\ Len(SubSeq(s, 1, k)) = k
        /\ \A i \in 1..k : SubSeq(s, 1, k)[i] = s[i]
    BY <1>1, SubSeqProperties
  <1>3. /\ Len(Drop(s, k)) = Len(s) - k
        /\ \A i \in 1..(Len(s) - k) : Drop(s, k)[i] = s[k + i]
    BY <1>1, SubSeqProperties DEF Drop
  <1>4. \A i \in 1..k : i \in 1..Len(s)
    BY <1>1
  <1>5. \A i \in 1..(Len(s) - k) : k + i \in 1..Len(s)
    BY <1>1
  <1>6. Has(SubSeq(s, 1, k), x) => \E i \in 1..k : s[i] = x
    BY <1>2 DEF Has
  <1>7. Has(Drop(s, k), x) => \E i \in 1..(Len(s) - k) : s[k + i] = x
    BY <1>3 DEF Has
  <1>8. ASSUME One(s, x) PROVE One(SubSeq(s, 1, k), x)
    BY <1>2, <1>4, <1>8 DEF One
  <1>9. ASSUME One(s, x) PROVE One(Drop(s, k), x)
    <2> SUFFICES ASSUME NEW i \in 1..(Len(s) - k), NEW j \in 1..(Len(s) - k),
                        s[k + i] = x, s[k + j] = x
                 PROVE  i = j
      BY <1>3 DEF One
    <2>1. k + i = k + j
      BY <1>5, <1>9 DEF One
    <2> QED BY <1>1, <2>1
  <1>10. ASSUME One(s, x), NEW i \in 1..k, NEW j \in 1..(Len(s) - k),
                s[i] = x, s[k + j] = x
         PROVE  FALSE
    <2>1. i = k + j
      BY <1>4, <1>5, <1>10 DEF One
    <2> QED BY <1>1, <2>1
  <1> QED BY <1>4, <1>5, <1>6, <1>7, <1>8, <1>9, <1>10 DEF Has

LEMMA ItemAppend ==
  ASSUME NEW s \in Seq(Items), NEW e \in Items, NEW q
  PROVE  /\ HasItem(Append(s, e), q) => HasItem(s, q) \/ e.q = q
         /\ OneItem(s, q) /\ (e.q = q => ~HasItem(s, q)) => OneItem(Append(s, e), q)
  <1>1. /\ Len(Append(s, e)) = Len(s) + 1 /\ Len(s) \in Nat
        /\ \A i \in 1..Len(s) : Append(s, e)[i] = s[i]
        /\ Append(s, e)[Len(s) + 1] = e
    BY AppendProperties
  <1>2. \A i \in 1..Len(Append(s, e)) : i \in 1..Len(s) \/ i = Len(s) + 1
    BY <1>1
  <1> QED BY <1>1, <1>2 DEF HasItem, OneItem

LEMMA ItemTail ==
  ASSUME NEW s \in Seq(Items), s # <<>>, NEW q
  PROVE  /\ Head(s) \in Items
         /\ HasItem(Tail(s), q) => HasItem(s, q)
         /\ Head(s).q = q => HasItem(s, q)
         /\ OneItem(s, q) => OneItem(Tail(s), q)
         /\ OneItem(s, q) /\ Head(s).q = q => ~HasItem(Tail(s), q)
  <1>1. /\ Len(s) \in Nat \ {0} /\ Head(s) = s[1] /\ Head(s) \in Items
        /\ Len(Tail(s)) = Len(s) - 1
        /\ \A i \in 1..(Len(s) - 1) : Tail(s)[i] = s[i + 1]
    BY HeadTailProperties
  <1>2. \A i \in 1..(Len(s) - 1) : i + 1 \in 1..Len(s) /\ i + 1 # 1
    BY <1>1
  <1>3. 1 \in 1..Len(s)
    BY <1>1
  <1>4. ASSUME OneItem(s, q), NEW i \in 1..(Len(s) - 1), NEW j \in 1..(Len(s) - 1),
               s[i + 1].q = q, s[j + 1].q = q
        PROVE  i = j
    <2>1. i + 1 = j + 1
      BY <1>2, <1>4 DEF OneItem
    <2> QED BY <1>1, <2>1
  <1>5. OneItem(s, q) => OneItem(Tail(s), q)
    BY <1>1, <1>4 DEF OneItem
  <1>6. OneItem(s, q) /\ Head(s).q = q => ~HasItem(Tail(s), q)
    BY <1>1, <1>2, <1>3 DEF OneItem, HasItem
  <1> QED BY <1>1, <1>2, <1>3, <1>5, <1>6 DEF HasItem

-----------------------------------------------------------------------------
(* The places, and that a query is in one of them, once.                    *)
InStream(q) == Has(inb[q.conn], First(q)) \/ Has(flight[q.conn], First(q))
InWork(q) == HasItem(work_queue, q)
Computed(q) == \E w \in Workers : busy[w] # Idle /\ busy[w].q = q
InResults(q) == HasItem(results_queue, q)
Sending(q) == pc = "count" /\ result.q = q
OnWire(q) == \E c \in Conns : Has(wire[c], First(q))

StreamOne(q) ==
  /\ One(inb[q.conn], First(q)) /\ One(flight[q.conn], First(q))
  /\ ~(Has(inb[q.conn], First(q)) /\ Has(flight[q.conn], First(q)))
ComputedOne(q) ==
  \A v, w \in Workers :
    busy[v] # Idle /\ busy[v].q = q /\ busy[w] # Idle /\ busy[w].q = q => v = w
WireOne(q) ==
  /\ \A c \in Conns : One(wire[c], First(q))
  /\ \A c, d \in Conns : Has(wire[c], First(q)) /\ Has(wire[d], First(q)) => c = d

Taken(q) == InWork(q) \/ Computed(q) \/ InResults(q) \/ Sending(q) \/ OnWire(q)
Apart(q) ==
  /\ InStream(q) => ~Taken(q)
  /\ InWork(q) => ~(Computed(q) \/ InResults(q) \/ Sending(q) \/ OnWire(q))
  /\ Computed(q) => ~(InResults(q) \/ Sending(q) \/ OnWire(q))
  /\ InResults(q) => ~(Sending(q) \/ OnWire(q))
  /\ Sending(q) => ~OnWire(q)
Once(q) ==
  /\ StreamOne(q) /\ OneItem(work_queue, q) /\ ComputedOne(q)
  /\ OneItem(results_queue, q) /\ WireOne(q)
  /\ Apart(q)
  /\ InStream(q) \/ Taken(q) => q.n <= sent[q.conn]

(* What is left of a reply no longer holds its first unit.                  *)
RestInv == \A f \in Fds : \A i \in 1..Len(write_buffers[f]) :
             write_buffers[f][i].k # 1
OnceInv == RestInv /\ \A q \in Asked : Once(q)

LEMMA UnitsAt ==
  ASSUME NEW q, NEW from \in Nat, NEW to \in Nat, from <= to + 1,
         NEW i \in 1..Len(Units(q, from, to))
  PROVE  Units(q, from, to)[i].q = q /\ Units(q, from, to)[i].k = from + (i - 1)
  <1>1. to + 1 - from \in Nat
    OBVIOUS
  <1>2. Len(Units(q, from, to)) = to + 1 - from
    BY <1>1 DEF Units
  <1>3. Units(q, from, to)[i] = [q |-> q, k |-> from + i - 1]
    BY <1>1, <1>2 DEF Units
  <1>4. from + i - 1 = from + (i - 1)
    BY <1>1, <1>2
  <1> QED BY <1>3, <1>4

LEMMA AskedType ==
  ASSUME NEW q \in Asked
  PROVE  /\ q.conn \in Conns /\ q.n \in 1..QueriesPerConn
         /\ q = QueryId(q.conn, q.n)
  BY DEF Asked, Queries, QueryId

LEMMA CardinalityOfOne ==
  ASSUME NEW S, \A x, y \in S : x = y
  PROVE  Cardinality(S) \in 0..1 /\ (S = {} => Cardinality(S) = 0)
  <1>1. CASE S = {}
    BY <1>1, FS_EmptySet
  <1>2. CASE S # {}
    <2>1. PICK x \in S : TRUE
      BY <1>2
    <2>2. S = {x}
      BY <2>1
    <2> QED BY <1>2, <2>2, FS_Singleton
  <1> QED BY <1>1, <1>2

LEMMA OnceCounts ==
  ASSUME NEW q, Once(q)
  PROVE  Copies(q) <= 1
  <1> DEFINE A == {i \in 1..Len(work_queue) : work_queue[i].q = q}
             B == {w \in Workers : busy[w] # Idle /\ busy[w].q = q}
             C == {i \in 1..Len(results_queue) : results_queue[i].q = q}
             D == IF pc = "count" /\ result.q = q THEN 1 ELSE 0
             E == UNION {{<<c, i>> : i \in {j \in 1..Len(wire[c]) :
                             wire[c][j] = [q |-> q, k |-> 1]}} : c \in Conns}
  <1>1. \A x, y \in A : x = y
    BY DEF Once, OneItem
  <1>2. \A x, y \in B : x = y
    BY DEF Once, ComputedOne
  <1>3. \A x, y \in C : x = y
    BY DEF Once, OneItem
  <1>4. \A x \in E : \E c \in Conns : \E i \in 1..Len(wire[c]) :
          x = <<c, i>> /\ wire[c][i] = First(q)
    BY DEF First
  <1>5. \A x, y \in E : x = y
    <2> SUFFICES ASSUME NEW x \in E, NEW y \in E PROVE x = y
      OBVIOUS
    <2>1. PICK c \in Conns : \E i \in 1..Len(wire[c]) :
            x = <<c, i>> /\ wire[c][i] = First(q)
      BY <1>4
    <2>2. PICK d \in Conns : \E j \in 1..Len(wire[d]) :
            y = <<d, j>> /\ wire[d][j] = First(q)
      BY <1>4
    <2>3. c = d
      BY <2>1, <2>2 DEF Once, WireOne, Has
    <2> QED BY <2>1, <2>2, <2>3 DEF Once, WireOne, One
  <1>6. /\ ~InWork(q) => A = {}
        /\ ~InResults(q) => C = {}
    BY DEF InWork, Computed, InResults, HasItem
  <1>7. ~Computed(q) => B = {}
    BY DEF Computed
  <1>8. ~OnWire(q) => E = {}
    BY <1>4 DEF OnWire, Has
  <1>9. D \in 0..1 /\ (~Sending(q) => D = 0)
    BY DEF Sending
  <1>10. /\ Cardinality(A) \in 0..1 /\ Cardinality(B) \in 0..1
         /\ Cardinality(C) \in 0..1 /\ Cardinality(E) \in 0..1
         /\ ~InWork(q) => Cardinality(A) = 0
         /\ ~Computed(q) => Cardinality(B) = 0
         /\ ~InResults(q) => Cardinality(C) = 0
         /\ ~OnWire(q) => Cardinality(E) = 0
    BY <1>1, <1>2, <1>3, <1>5, <1>6, <1>7, <1>8, CardinalityOfOne
  <1>11. Copies(q) = Cardinality(A) + Cardinality(B) + Cardinality(C) + D
                       + Cardinality(E)
    BY DEF Copies
  <1> HIDE DEF A, B, C, D, E
  <1>12. Apart(q)
    BY DEF Once
  <1> QED BY <1>9, <1>10, <1>11, <1>12 DEF Apart

-----------------------------------------------------------------------------
(* Steps.  What a step may do to the places of a query it does not move.    *)
LEMMA OnceKept ==
  ASSUME NEW q \in Asked, Once(q), UNCHANGED queues,
         StreamOne(q)', InStream(q)' => InStream(q),
         WireOne(q)', OnWire(q)' => OnWire(q), Sending(q)' => Sending(q),
         sent'[q.conn] = sent[q.conn]
  PROVE  Once(q)'
  <1>1. /\ OneItem(work_queue, q)' /\ ComputedOne(q)' /\ OneItem(results_queue, q)'
        /\ InWork(q)' = InWork(q) /\ Computed(q)' = Computed(q)
        /\ InResults(q)' = InResults(q)
    BY DEF Once, queues, OneItem, ComputedOne, InWork, HasItem, Computed, InResults
  <1>2. Taken(q)' => Taken(q)
    BY <1>1 DEF Taken
  <1>3. Apart(q)'
    BY <1>1, <1>2 DEF Once, Apart
  <1> QED BY <1>1, <1>2, <1>3 DEF Once

LEMMA StreamKept ==
  ASSUME NEW q \in Asked, StreamOne(q),
         inb'[q.conn] = inb[q.conn] \/ inb'[q.conn] = <<>>,
         flight'[q.conn] = flight[q.conn] \/ flight'[q.conn] = <<>>
  PROVE  StreamOne(q)' /\ (InStream(q)' => InStream(q))
  <1>1. ~Has(<<>>, First(q)) /\ One(<<>>, First(q))
    BY DEF Has, One
  <1>2. /\ One(inb'[q.conn], First(q)) /\ One(flight'[q.conn], First(q))
        /\ Has(inb'[q.conn], First(q)) => Has(inb[q.conn], First(q))
        /\ Has(flight'[q.conn], First(q)) => Has(flight[q.conn], First(q))
    BY <1>1 DEF StreamOne
  <1> QED BY <1>2 DEF StreamOne, InStream

LEMMA WireKept ==
  ASSUME NEW q \in Asked, WireOne(q), UNCHANGED wire
  PROVE  WireOne(q)' /\ (OnWire(q)' => OnWire(q))
  BY DEF WireOne, OnWire

(* Units that are not the first of a reply join the stream of c.            *)
LEMMA WireRest ==
  ASSUME NetTypeOK, NEW q \in Asked, WireOne(q), NEW c \in Conns,
         NEW s \in Seq(ReplyUnit), \A i \in 1..Len(s) : s[i].k # 1, Put(c, s)
  PROVE  WireOne(q)' /\ (OnWire(q)' => OnWire(q))
  <1> DEFINE k == Lesser(Space(c), Len(s))
             t == SubSeq(s, 1, k)
  <1>1. k \in 0..Len(s) /\ Len(s) \in Nat
    <2>1. Space(c) \in Nat /\ Len(s) \in Nat
      BY SpaceType, ConstantsAssumption
    <2> QED BY <2>1, LesserType
  <1>2. t \in Seq(ReplyUnit) /\ wire[c] \in Seq(ReplyUnit)
    BY <1>1, PrefixType DEF NetTypeOK
  <1>3. ~Has(s, First(q)) /\ One(s, First(q))
    BY DEF Has, One, First
  <1>4. ~Has(t, First(q)) /\ One(t, First(q))
    BY <1>1, <1>3, HasCut
  <1>5. wire' = [wire EXCEPT ![c] = wire[c] \o t]
    BY DEF Put
  <1> HIDE DEF t
  <1>6. /\ Has(wire[c] \o t, First(q)) => Has(wire[c], First(q))
        /\ One(wire[c] \o t, First(q))
    BY <1>2, <1>4, HasConcat DEF WireOne
  <1>7. \A d \in Conns : /\ One(wire'[d], First(q))
                         /\ Has(wire'[d], First(q)) => Has(wire[d], First(q))
    BY <1>5, <1>6 DEF NetTypeOK, WireOne
  <1> QED BY <1>7 DEF WireOne, OnWire

LEMMA OnceParts ==
  ASSUME NEW q, Once(q)
  PROVE  StreamOne(q) /\ WireOne(q)
  BY DEF Once

(* A step that moves no query: connections may be closed.                   *)
LEMMA OnceFrame ==
  ASSUME NetTypeOK, NEW q \in Asked, Once(q), UNCHANGED <<queues, wire, sent>>,
         UNCHANGED inb \/ \E c : inb' = [inb EXCEPT ![c] = <<>>],
         UNCHANGED flight \/ \E c : flight' = [flight EXCEPT ![c] = <<>>],
         pc' # "count" \/ UNCHANGED <<pc, result>>
  PROVE  Once(q)'
  <1>1. q.conn \in Conns
    BY AskedType
  <1>2. /\ inb'[q.conn] = inb[q.conn] \/ inb'[q.conn] = <<>>
        /\ flight'[q.conn] = flight[q.conn] \/ flight'[q.conn] = <<>>
    BY <1>1 DEF NetTypeOK
  <1>3. StreamOne(q)' /\ (InStream(q)' => InStream(q))
    BY <1>2, OnceParts, StreamKept
  <1>4. WireOne(q)' /\ (OnWire(q)' => OnWire(q))
    BY OnceParts, WireKept
  <1>5. Sending(q)' => Sending(q)
    BY DEF Sending
  <1> QED BY <1>3, <1>4, <1>5, OnceKept

LEMMA OnceDeliver ==
  ASSUME NetTypeOK, NEW q \in Asked, Once(q), NEW c \in Conns, Deliver(c)
  PROVE  Once(q)'
  <1>1. PICK k \in 1..Len(flight[c]) :
          /\ inb' = [inb EXCEPT ![c] = inb[c] \o SubSeq(flight[c], 1, k)]
          /\ flight' = [flight EXCEPT ![c] = Drop(flight[c], k)]
    BY DEF Deliver
  <1>2. UNCHANGED <<queues, wire, sent, pc, result>>
    BY DEF Deliver, loop
  <1>3. q.conn \in Conns /\ StreamOne(q) /\ WireOne(q)
    BY AskedType, OnceParts
  <1>4. StreamOne(q)' /\ (InStream(q)' => InStream(q))
    <2>1. CASE q.conn # c
      <3>1. inb'[q.conn] = inb[q.conn] /\ flight'[q.conn] = flight[q.conn]
        BY <1>1, <1>3, <2>1 DEF NetTypeOK
      <3> QED BY <1>3, <3>1, StreamKept
    <2>2. CASE q.conn = c
      <3> DEFINE p == SubSeq(flight[c], 1, k)
                 r == Drop(flight[c], k)
      <3>1. flight[c] \in Seq(Unit(c)) /\ inb[c] \in Seq(Unit(c))
        BY DEF NetTypeOK
      <3>2. k \in 0..Len(flight[c])
        BY <3>1
      <3>3. p \in Seq(Unit(c))
        BY <3>1, <3>2, PrefixType
      <3>4. inb'[c] = inb[c] \o p /\ flight'[c] = r
        BY <1>1 DEF NetTypeOK
      <3>5. /\ One(inb[c], First(q)) /\ One(flight[c], First(q))
            /\ ~(Has(inb[c], First(q)) /\ Has(flight[c], First(q)))
        BY <1>3, <2>2 DEF StreamOne
      <3>6. /\ Has(p, First(q)) => Has(flight[c], First(q))
            /\ Has(r, First(q)) => Has(flight[c], First(q))
            /\ One(p, First(q)) /\ One(r, First(q))
            /\ ~(Has(p, First(q)) /\ Has(r, First(q)))
        BY <3>1, <3>2, <3>5, HasCut
      <3> HIDE DEF p, r
      <3>7. /\ Has(inb[c] \o p, First(q)) => Has(inb[c], First(q)) \/ Has(p, First(q))
            /\ One(inb[c] \o p, First(q))
        BY <3>1, <3>3, <3>5, <3>6, HasConcat
      <3> QED BY <2>2, <3>4, <3>5, <3>6, <3>7 DEF StreamOne, InStream
    <2> QED BY <2>1, <2>2
  <1>5. WireOne(q)' /\ (OnWire(q)' => OnWire(q))
    BY <1>2, <1>3, WireKept
  <1>6. Sending(q)' => Sending(q)
    BY <1>2 DEF Sending
  <1> QED BY <1>2, <1>4, <1>5, <1>6, OnceKept
(* The steps that move a query, each from one place to the next.            *)
LEMMA OnceClientSend ==
  ASSUME NetTypeOK, NEW q \in Asked, Once(q), NEW c \in Conns, ClientSend(c)
  PROVE  Once(q)'
  <1> DEFINE n == sent[c] + 1
             u == Units(QueryId(c, n), 1, QueryUnits)
  <1>1. /\ flight' = [flight EXCEPT ![c] = flight[c] \o u]
        /\ sent' = [sent EXCEPT ![c] = n]
        /\ UNCHANGED <<inb, wire, queues, pc, result>>
    BY DEF ClientSend, loop
  <1>2. /\ n \in 1..QueriesPerConn /\ sent[c] \in Nat
        /\ flight[c] \in Seq(Unit(c))
    BY ConstantsAssumption DEF ClientSend, NetTypeOK
  <1>3. u \in Seq(Unit(c))
    BY <1>2, QueryType
  <1>4. \A i \in 1..Len(u) : u[i].q = QueryId(c, n) /\ u[i].k = 1 + (i - 1)
    BY UnitsAt, ConstantsAssumption
  <1>5. /\ One(u, First(q))
        /\ Has(u, First(q)) => q = QueryId(c, n)
    <2>1. Len(u) \in Nat
      BY <1>3
    <2>2. \A i \in 1..Len(u) : u[i] = First(q) => q = QueryId(c, n) /\ 1 + (i - 1) = 1
      BY <1>4 DEF First
    <2> HIDE DEF u
    <2>3. \A i \in 1..Len(u) : 1 + (i - 1) = i
      BY <2>1
    <2> QED BY <2>2, <2>3 DEF One, Has
  <1>6. /\ q.conn \in Conns /\ q = QueryId(q.conn, q.n) /\ q.n \in Nat
        /\ StreamOne(q) /\ WireOne(q)
    BY AskedType, OnceParts, ConstantsAssumption
  <1>7. q = QueryId(c, n) => q.conn = c /\ q.n = n
    BY DEF QueryId
  <1> HIDE DEF n, u
  <1>8. q = QueryId(c, n) => ~InStream(q) /\ ~Taken(q)
    <2>1. ASSUME q = QueryId(c, n) PROVE q.conn = c /\ ~(q.n <= sent[c])
      BY <1>2, <1>7, <2>1 DEF n
    <2> QED BY <2>1 DEF Once
  <1>9. StreamOne(q)' /\ (InStream(q)' => InStream(q) \/ q = QueryId(c, n))
    <2>1. CASE q.conn # c
      <3>1. inb'[q.conn] = inb[q.conn] /\ flight'[q.conn] = flight[q.conn]
        BY <1>1, <1>6, <2>1 DEF NetTypeOK
      <3> QED BY <1>6, <3>1, StreamKept
    <2>2. CASE q.conn = c
      <3>1. inb'[c] = inb[c] /\ flight'[c] = flight[c] \o u
        BY <1>1 DEF NetTypeOK
      <3>2. /\ One(inb[c], First(q)) /\ One(flight[c], First(q))
            /\ ~(Has(inb[c], First(q)) /\ Has(flight[c], First(q)))
        BY <1>6, <2>2 DEF StreamOne
      <3>3. Has(u, First(q)) => ~Has(inb[c], First(q)) /\ ~Has(flight[c], First(q))
        BY <1>5, <1>8, <2>2 DEF InStream
      <3>4. /\ Has(flight[c] \o u, First(q)) => Has(flight[c], First(q)) \/ Has(u, First(q))
            /\ One(flight[c] \o u, First(q))
        BY <1>2, <1>3, <1>5, <3>2, <3>3, HasConcat
      <3> QED BY <1>5, <2>2, <3>1, <3>2, <3>3, <3>4 DEF StreamOne, InStream
    <2> QED BY <2>1, <2>2
  <1>10. WireOne(q)' /\ (OnWire(q)' => OnWire(q))
    BY <1>1, <1>6, WireKept
  <1>11. CASE q # QueryId(c, n)
    <2>1. sent[q.conn] <= sent'[q.conn]
      BY <1>1, <1>2, <1>6 DEF NetTypeOK, n
    <2>2. Sending(q)' => Sending(q)
      BY <1>1 DEF Sending
    <2>3. /\ OneItem(work_queue, q)' /\ ComputedOne(q)' /\ OneItem(results_queue, q)'
          /\ InWork(q)' = InWork(q) /\ Computed(q)' = Computed(q)
          /\ InResults(q)' = InResults(q)
      BY <1>1 DEF Once, queues, OneItem, ComputedOne, InWork, HasItem, Computed, InResults
    <2>4. sent[q.conn] \in Nat /\ sent'[q.conn] \in Nat
      BY <1>1, <1>2, <1>6, ConstantsAssumption DEF NetTypeOK
    <2>5. InStream(q)' \/ Taken(q)' => q.n <= sent'[q.conn]
      <3>1. InStream(q)' \/ Taken(q)' => InStream(q) \/ Taken(q)
        BY <1>9, <1>10, <1>11, <2>2, <2>3 DEF Taken
      <3>2. InStream(q)' \/ Taken(q)' => q.n <= sent[q.conn]
        BY <3>1 DEF Once
      <3> QED BY <1>6, <2>1, <2>4, <3>2
    <2>6. Apart(q)'
      BY <1>9, <1>10, <1>11, <2>2, <2>3 DEF Once, Apart, Taken
    <2> QED BY <1>9, <1>10, <2>3, <2>5, <2>6 DEF Once
  <1>12. CASE q = QueryId(c, n)
    <2>1. ~Taken(q)' /\ ComputedOne(q)' /\ OneItem(work_queue, q)' /\ OneItem(results_queue, q)'
      BY <1>1, <1>8, <1>12 DEF Once, queues, OneItem, ComputedOne, Taken, InWork,
           HasItem, Computed, InResults, Sending, OnWire
    <2>2. q.n <= sent'[q.conn]
      BY <1>1, <1>2, <1>6, <1>7, <1>12 DEF NetTypeOK
    <2> QED BY <1>9, <1>10, <2>1, <2>2 DEF Once, Apart, Taken
  <1> QED BY <1>11, <1>12
(* What a sequence of a connection's units decodes to is asked in it.       *)
LEMMA DecodeAsked ==
  ASSUME NEW c \in Conns, NEW s \in Seq(Unit(c)), NEW q \in Asked, Decode(s) = q
  PROVE  q.conn = c /\ Has(s, First(q))
  <1>1. q # Torn
    BY DEF Asked
  <1>2. /\ Len(s) = QueryUnits /\ s[1].q = q
        /\ \A k \in 1..QueryUnits : s[k] = [q |-> s[1].q, k |-> k]
    BY <1>1 DEF Decode
  <1>3. 1 \in 1..Len(s)
    BY <1>2, ConstantsAssumption
  <1>4. s[1] = First(q) /\ s[1] \in Unit(c)
    BY <1>2, <1>3 DEF First
  <1>5. s[1].q.conn = c
    BY <1>4 DEF Unit, QueryId
  <1> QED BY <1>2, <1>3, <1>4, <1>5 DEF Has

LEMMA OnceReadQuery ==
  ASSUME IInv, NEW q \in Asked, Once(q), ReadQuery
  PROVE  Once(q)'
  <1> DEFINE c == sock[cur]
             k == Lesser(QueryUnits, Len(inb[c]))
             s == SubSeq(inb[c], 1, k)
             e == [fd |-> cur, q |-> Decode(s)]
  <1>1. NetTypeOK /\ QueuesTypeOK /\ c \in Conns /\ cur \in Fds
    BY ServedConn DEF IInv, TypeOK, ReadQuery
  <1>2. inb[c] \in Seq(Unit(c))
    BY <1>1 DEF NetTypeOK
  <1>3. k \in 0..Len(inb[c])
    <2>1. QueryUnits \in Nat /\ Len(inb[c]) \in Nat
      BY <1>2, ConstantsAssumption
    <2> QED BY <2>1, LesserType
  <1>4. /\ inb' = [inb EXCEPT ![c] = Drop(inb[c], k)]
        /\ work_queue' = Append(work_queue, e)
        /\ UNCHANGED <<flight, wire, sent, results_queue, busy, pc, result>>
    BY DEF ReadQuery, loop
  <1>5. s \in Seq(Unit(c)) /\ Drop(inb[c], k) \in Seq(Unit(c))
    BY <1>2, <1>3, PrefixType, DropType
  <1>6. StreamOne(q) /\ WireOne(q) /\ q.conn \in Conns
    BY OnceParts, AskedType
  <1>7. e.q = q => q.conn = c /\ Has(s, First(q))
    BY <1>1, <1>5, DecodeAsked
  <1>8. e \in Items /\ work_queue \in Seq(Items)
    BY <1>1, <1>5, DecodeType DEF Items, QueuesTypeOK
  <1> HIDE DEF k
  <1>9. /\ StreamOne(q)' /\ (InStream(q)' => InStream(q))
        /\ e.q = q => InStream(q) /\ ~InStream(q)'
    <2>1. CASE q.conn # c
      <3>1. inb'[q.conn] = inb[q.conn] /\ flight'[q.conn] = flight[q.conn]
        BY <1>4, <1>6, <2>1 DEF NetTypeOK
      <3>2. e.q # q
        BY <1>7, <2>1
      <3> QED BY <1>6, <3>1, <3>2, StreamKept
    <2>2. CASE q.conn = c
      <3> DEFINE r == Drop(inb[c], k)
      <3>1. inb'[c] = r /\ flight'[c] = flight[c]
        BY <1>1, <1>4 DEF NetTypeOK
      <3>2. /\ One(inb[c], First(q)) /\ One(flight[c], First(q))
            /\ ~(Has(inb[c], First(q)) /\ Has(flight[c], First(q)))
        BY <1>6, <2>2 DEF StreamOne
      <3>3. /\ Has(s, First(q)) => Has(inb[c], First(q))
            /\ Has(r, First(q)) => Has(inb[c], First(q))
            /\ One(r, First(q))
            /\ ~(Has(s, First(q)) /\ Has(r, First(q)))
        BY <1>2, <1>3, <3>2, HasCut
      <3> HIDE DEF r, s, e
      <3> QED BY <1>7, <2>2, <3>1, <3>2, <3>3 DEF StreamOne, InStream
    <2> QED BY <2>1, <2>2
  <1> HIDE DEF s, e
  <1>10. /\ InWork(q)' => InWork(q) \/ e.q = q
         /\ (e.q = q => ~InWork(q)) => OneItem(work_queue, q)'
    <2>1. /\ HasItem(Append(work_queue, e), q) => HasItem(work_queue, q) \/ e.q = q
          /\ OneItem(work_queue, q) /\ (e.q = q => ~HasItem(work_queue, q))
               => OneItem(Append(work_queue, e), q)
      BY <1>8, ItemAppend
    <2>2. /\ InWork(q)' = HasItem(Append(work_queue, e), q)
          /\ OneItem(work_queue, q)' = OneItem(Append(work_queue, e), q)
          /\ InWork(q) = HasItem(work_queue, q) /\ OneItem(work_queue, q)
      BY <1>4 DEF InWork, HasItem, OneItem, Once
    <2> QED BY <2>1, <2>2
  <1>11. /\ ComputedOne(q)' /\ OneItem(results_queue, q)'
         /\ Computed(q)' = Computed(q) /\ InResults(q)' = InResults(q)
         /\ Sending(q)' = Sending(q)
    BY <1>4 DEF Once, ComputedOne, OneItem, HasItem, Computed, InResults, Sending
  <1>12. WireOne(q)' /\ OnWire(q)' = OnWire(q)
    BY <1>4, <1>6 DEF WireOne, OnWire
  <1>13. Apart(q)'
    BY <1>9, <1>10, <1>11, <1>12 DEF Once, Apart, Taken
  <1>14. InStream(q)' \/ Taken(q)' => q.n <= sent'[q.conn]
    BY <1>4, <1>9, <1>10, <1>11, <1>12 DEF Once, Taken
  <1>15. OneItem(work_queue, q)'
    BY <1>9, <1>10 DEF Once, Apart, Taken
  <1> QED BY <1>9, <1>11, <1>12, <1>13, <1>14, <1>15 DEF Once

(* A step past the stream: the query leaves each place it is in or stays.   *)
LEMMA OnceMoved ==
  ASSUME NEW q \in Asked, Once(q), UNCHANGED <<inb, flight, sent>>,
         OneItem(work_queue, q)', ComputedOne(q)', OneItem(results_queue, q)',
         WireOne(q)', Taken(q)' => Taken(q),
         InWork(q)' => InWork(q),
         Computed(q)' => Computed(q) \/ (InWork(q) /\ ~InWork(q)'),
         InResults(q)' => InResults(q) \/ (Computed(q) /\ ~Computed(q)'),
         Sending(q)' => Sending(q) \/ (InResults(q) /\ ~InResults(q)'),
         OnWire(q)' => OnWire(q) \/ (Sending(q) /\ ~Sending(q)')
  PROVE  Once(q)'
  <1>1. StreamOne(q)' /\ InStream(q)' = InStream(q)
    BY DEF Once, StreamOne, InStream
  <1>2. Apart(q)'
    BY <1>1 DEF Once, Apart, Taken
  <1> QED BY <1>1, <1>2 DEF Once
LEMMA OnceWorkerPop ==
  ASSUME IInv, NEW q \in Asked, Once(q), NEW w \in Workers, WorkerPop(w)
  PROVE  Once(q)'
  <1> DEFINE e == Head(work_queue)
  <1>1. /\ busy' = [busy EXCEPT ![w] = e] /\ work_queue' = Tail(work_queue)
        /\ work_queue # <<>>
        /\ UNCHANGED <<inb, flight, sent, wire, results_queue, pc, result>>
    BY DEF WorkerPop, net, loop
  <1>2. work_queue \in Seq(Items) /\ busy \in [Workers -> Items \cup {Idle}]
    BY DEF IInv, TypeOK, QueuesTypeOK
  <1>3. /\ InWork(q)' => InWork(q)
        /\ e.q = q => InWork(q) /\ ~InWork(q)'
        /\ OneItem(work_queue, q)'
    <2>1. OneItem(work_queue, q)
      BY DEF Once
    <2>2. /\ HasItem(Tail(work_queue), q) => HasItem(work_queue, q)
          /\ e.q = q => HasItem(work_queue, q) /\ ~HasItem(Tail(work_queue), q)
          /\ OneItem(Tail(work_queue), q)
      BY <1>1, <1>2, <2>1, ItemTail
    <2>3. /\ InWork(q)' = HasItem(Tail(work_queue), q)
          /\ OneItem(work_queue, q)' = OneItem(Tail(work_queue), q)
      BY <1>1 DEF InWork, HasItem, OneItem
    <2> QED BY <2>2, <2>3 DEF InWork
  <1> HIDE DEF e
  <1>4. Computed(q)' => Computed(q) \/ e.q = q
    BY <1>1, <1>2 DEF Computed
  <1>5. ComputedOne(q)'
    <2>1. \A v \in Workers : busy'[v] # Idle /\ busy'[v].q = q =>
            (v = w /\ e.q = q) \/ (v # w /\ busy[v] # Idle /\ busy[v].q = q)
      BY <1>1, <1>2
    <2>2. e.q = q => ~Computed(q)
      BY <1>3 DEF Once, Apart
    <2> QED BY <2>1, <2>2 DEF Once, ComputedOne, Computed
  <1>6. /\ OneItem(results_queue, q)' /\ InResults(q)' = InResults(q)
        /\ WireOne(q)' /\ OnWire(q)' = OnWire(q) /\ Sending(q)' = Sending(q)
    BY <1>1 DEF Once, OneItem, HasItem, InResults, WireOne, OnWire, Sending
  <1>7. Taken(q)' => Taken(q)
    BY <1>3, <1>4, <1>6 DEF Taken
  <1> QED BY <1>1, <1>3, <1>4, <1>5, <1>6, <1>7, OnceMoved

LEMMA OnceWorkerPush ==
  ASSUME IInv, NEW q \in Asked, Once(q), NEW w \in Workers, WorkerPush(w)
  PROVE  Once(q)'
  <1> DEFINE e == busy[w]
  <1>1. /\ busy' = [busy EXCEPT ![w] = Idle]
        /\ results_queue' = Append(results_queue, e) /\ e # Idle
        /\ UNCHANGED <<inb, flight, sent, wire, work_queue, pc, result>>
    BY DEF WorkerPush, net, loop
  <1>2. results_queue \in Seq(Items) /\ busy \in [Workers -> Items \cup {Idle}]
    BY DEF IInv, TypeOK, QueuesTypeOK
  <1>3. e \in Items
    BY <1>1, <1>2
  <1>4. /\ Computed(q)' => Computed(q)
        /\ e.q = q => Computed(q) /\ ~Computed(q)'
        /\ ComputedOne(q)'
    <2>1. \A v \in Workers : busy'[v] # Idle /\ busy'[v].q = q =>
            v # w /\ busy[v] # Idle /\ busy[v].q = q
      BY <1>1, <1>2
    <2>2. e.q = q => Computed(q)
      BY <1>1 DEF Computed
    <2>3. ComputedOne(q)
      BY DEF Once
    <2>4. e.q = q => \A v \in Workers : busy[v] # Idle /\ busy[v].q = q => v = w
      BY <1>1, <2>3 DEF ComputedOne
    <2> QED BY <2>1, <2>2, <2>3, <2>4 DEF ComputedOne, Computed
  <1> HIDE DEF e
  <1>5. /\ InResults(q)' => InResults(q) \/ e.q = q
        /\ OneItem(results_queue, q)'
    <2>1. OneItem(results_queue, q) /\ (e.q = q => ~HasItem(results_queue, q))
      BY <1>4 DEF Once, Apart, InResults
    <2>2. /\ HasItem(Append(results_queue, e), q) => HasItem(results_queue, q) \/ e.q = q
          /\ OneItem(Append(results_queue, e), q)
      BY <1>2, <1>3, <2>1, ItemAppend
    <2>3. /\ InResults(q)' = HasItem(Append(results_queue, e), q)
          /\ OneItem(results_queue, q)' = OneItem(Append(results_queue, e), q)
      BY <1>1 DEF InResults, HasItem, OneItem
    <2> QED BY <2>2, <2>3 DEF InResults
  <1>6. /\ OneItem(work_queue, q)' /\ InWork(q)' = InWork(q)
        /\ WireOne(q)' /\ OnWire(q)' = OnWire(q) /\ Sending(q)' = Sending(q)
    BY <1>1 DEF Once, OneItem, HasItem, InWork, WireOne, OnWire, Sending
  <1>7. Taken(q)' => Taken(q)
    BY <1>4, <1>5, <1>6 DEF Taken
  <1> QED BY <1>1, <1>4, <1>5, <1>6, <1>7, OnceMoved

LEMMA OnceTryPop ==
  ASSUME IInv, NEW q \in Asked, Once(q), TryPop
  PROVE  Once(q)'
  <1> DEFINE e == Head(results_queue)
  <1>1. /\ result' = e /\ results_queue' = Tail(results_queue)
        /\ results_queue # <<>> /\ pc = "results"
        /\ UNCHANGED <<inb, flight, sent, wire, work_queue, busy>>
    BY DEF TryPop, net
  <1>2. results_queue \in Seq(Items)
    BY DEF IInv, TypeOK, QueuesTypeOK
  <1>3. /\ InResults(q)' => InResults(q)
        /\ e.q = q => InResults(q) /\ ~InResults(q)'
        /\ OneItem(results_queue, q)'
    <2>1. OneItem(results_queue, q)
      BY DEF Once
    <2>2. /\ HasItem(Tail(results_queue), q) => HasItem(results_queue, q)
          /\ e.q = q => HasItem(results_queue, q) /\ ~HasItem(Tail(results_queue), q)
          /\ OneItem(Tail(results_queue), q)
      BY <1>1, <1>2, <2>1, ItemTail
    <2>3. /\ InResults(q)' = HasItem(Tail(results_queue), q)
          /\ OneItem(results_queue, q)' = OneItem(Tail(results_queue), q)
      BY <1>1 DEF InResults, HasItem, OneItem
    <2> QED BY <2>2, <2>3 DEF InResults
  <1>4. Sending(q)' => e.q = q
    BY <1>1 DEF Sending
  <1> HIDE DEF e
  <1>5. /\ OneItem(work_queue, q)' /\ InWork(q)' = InWork(q)
        /\ ComputedOne(q)' /\ Computed(q)' = Computed(q)
        /\ WireOne(q)' /\ OnWire(q)' = OnWire(q)
    BY <1>1 DEF Once, OneItem, HasItem, InWork, ComputedOne, Computed, WireOne, OnWire
  <1>6. Taken(q)' => Taken(q)
    BY <1>3, <1>4, <1>5 DEF Taken
  <1> QED BY <1>1, <1>3, <1>4, <1>5, <1>6, OnceMoved

LEMMA OnceSendCount ==
  ASSUME IInv, NEW q \in Asked, Once(q), SendCount
  PROVE  Once(q)'
  <1> DEFINE c == sock[result.fd]
             s == Header(result.q)
             k == Lesser(Space(c), Len(s))
             t == SubSeq(s, 1, k)
  <1>1. /\ pc = "count" /\ pc' = "body" /\ wire' = [wire EXCEPT ![c] = wire[c] \o t]
        /\ UNCHANGED <<inb, flight, sent, work_queue, busy, results_queue, result>>
    BY DEF SendCount, Put, queues
  <1>2. NetTypeOK /\ c \in Conns /\ result.q \in Queries
    BY ServedConn DEF SendCount, IInv, TypeOK
  <1>3. s \in Seq(ReplyUnit) /\ wire[c] \in Seq(ReplyUnit)
    BY <1>2, ReplyTypes DEF NetTypeOK
  <1>4. k \in 0..Len(s)
    <2>1. Space(c) \in Nat /\ Len(s) \in Nat
      BY <1>2, <1>3, SpaceType, ConstantsAssumption
    <2> QED BY <2>1, LesserType
  <1>5. t \in Seq(ReplyUnit)
    BY <1>3, <1>4, PrefixType
  <1>6. /\ Has(s, First(q)) => result.q = q
        /\ One(s, First(q))
    <2>1. \A i \in 1..Len(s) : s[i].q = result.q /\ s[i].k = 1 + (i - 1)
      BY UnitsAt, ConstantsAssumption DEF Header
    <2>2. Len(s) \in Nat
      BY <1>3
    <2> HIDE DEF s
    <2>3. \A i \in 1..Len(s) : s[i] = First(q) => result.q = q /\ 1 + (i - 1) = 1
      BY <2>1 DEF First
    <2>4. \A i \in 1..Len(s) : 1 + (i - 1) = i
      BY <2>2
    <2> QED BY <2>3, <2>4 DEF Has, One
  <1> HIDE DEF k, s
  <1>7. One(t, First(q)) /\ (Has(t, First(q)) => result.q = q)
    BY <1>3, <1>4, <1>6, HasCut
  <1> HIDE DEF t
  <1>8. Sending(q) = (result.q = q) /\ ~Sending(q)'
    BY <1>1 DEF Sending
  <1>9. result.q = q => \A d \in Conns : ~Has(wire[d], First(q))
    BY <1>8 DEF Once, Apart, OnWire
  <1>10. /\ Has(wire[c] \o t, First(q)) => Has(wire[c], First(q)) \/ result.q = q
         /\ One(wire[c] \o t, First(q))
    <2>1. One(wire[c], First(q))
      BY <1>2 DEF Once, WireOne
    <2>2. ~(Has(wire[c], First(q)) /\ Has(t, First(q)))
      BY <1>2, <1>7, <1>9
    <2> QED BY <1>3, <1>5, <1>7, <2>1, <2>2, HasConcat
  <1>11. \A d \in Conns :
           wire'[d] = IF d = c THEN wire[c] \o t ELSE wire[d]
    BY <1>1, <1>2 DEF NetTypeOK
  <1>12. WireOne(q)' /\ (OnWire(q)' => OnWire(q) \/ result.q = q)
    <2>1. \A d \in Conns : One(wire'[d], First(q))
      BY <1>10, <1>11 DEF Once, WireOne
    <2>2. \A d \in Conns : Has(wire'[d], First(q)) =>
            Has(wire[d], First(q)) \/ (d = c /\ result.q = q)
      BY <1>10, <1>11
    <2> QED BY <1>9, <2>1, <2>2 DEF Once, WireOne, OnWire
  <1>13. /\ OneItem(work_queue, q)' /\ InWork(q)' = InWork(q)
         /\ ComputedOne(q)' /\ Computed(q)' = Computed(q)
         /\ OneItem(results_queue, q)' /\ InResults(q)' = InResults(q)
    BY <1>1 DEF Once, OneItem, HasItem, InWork, ComputedOne, Computed, InResults
  <1>14. Taken(q)' => Taken(q)
    BY <1>8, <1>12, <1>13 DEF Taken
  <1> QED BY <1>1, <1>8, <1>12, <1>13, <1>14, OnceMoved
-----------------------------------------------------------------------------
(* The remainders.                                                          *)
LEMMA BodyIsRest ==
  ASSUME NEW q \in Queries, NEW i \in 1..Len(Body(q))
  PROVE  Body(q)[i].k # 1
  <1>1. Body(q) \in Seq(ReplyUnit)
    BY ReplyTypes
  <1>2. Body(q)[i].k = HeaderUnits + 1 + (i - 1)
    BY UnitsAt, ConstantsAssumption DEF Body, FrameUnits
  <1>3. i \in Nat \ {0} /\ HeaderUnits \in Nat \ {0}
    BY <1>1, ConstantsAssumption
  <1> HIDE DEF Body
  <1> QED BY <1>2, <1>3

LEMMA LeftIsRest ==
  ASSUME NetTypeOK, NEW c \in Conns, NEW s \in Seq(ReplyUnit),
         \A i \in 1..Len(s) : s[i].k # 1
  PROVE  \A i \in 1..Len(Left(c, s)) : Left(c, s)[i].k # 1
  <1> DEFINE k == Lesser(Space(c), Len(s))
  <1>1. k \in 0..Len(s)
    <2>1. Space(c) \in Nat /\ Len(s) \in Nat
      BY SpaceType, ConstantsAssumption
    <2> QED BY <2>1, LesserType
  <1>2. Left(c, s) = SubSeq(s, k + 1, Len(s))
    BY DEF Left, Drop
  <1> HIDE DEF k
  <1>3. Len(s) \in Nat /\ k \in Nat
    BY <1>1
  <1>4. /\ Len(Left(c, s)) = Len(s) - k
        /\ \A i \in 1..(Len(s) - k) : Left(c, s)[i] = s[k + i]
    BY <1>1, <1>2, <1>3, SubSeqProperties
  <1>5. \A i \in 1..(Len(s) - k) : k + i \in 1..Len(s)
    BY <1>3
  <1> QED BY <1>4, <1>5

LEMMA RestFrame ==
  ASSUME RestInv, LoopTypeOK, NEW f \in Fds, NEW s,
         write_buffers' = [write_buffers EXCEPT ![f] = s],
         \A i \in 1..Len(s) : s[i].k # 1
  PROVE  RestInv'
  <1>1. \A g \in Fds : write_buffers'[g] = IF g = f THEN s ELSE write_buffers[g]
    BY DEF LoopTypeOK
  <1> QED BY <1>1 DEF RestInv

LEMMA NextRest == ASSUME IInv, RestInv, [Next]_vars PROVE RestInv'
  <1>1. NetTypeOK /\ LoopTypeOK
    BY DEF IInv, TypeOK
  <1>2. CASE UNCHANGED write_buffers
    BY <1>2 DEF RestInv
  <1>3. CASE ReadClose \/ WriteClose
    <2>1. cur \in Fds /\ write_buffers' = [write_buffers EXCEPT ![cur] = <<>>]
      BY <1>3, ServedConn DEF ReadClose, WriteClose
    <2>2. \A g \in Fds : write_buffers'[g] = write_buffers[g] \/ write_buffers'[g] = <<>>
      BY <1>1, <2>1 DEF LoopTypeOK
    <2> QED BY <2>2 DEF RestInv
  <1>4. CASE SendPartOfBody
    <2>1. /\ result.fd \in Fds /\ sock[result.fd] \in Conns /\ result.q \in Queries
          /\ write_buffers' = [write_buffers EXCEPT
                                 ![result.fd] = Left(sock[result.fd], Body(result.q))]
      BY <1>4, ServedConn DEF SendPartOfBody
    <2> DEFINE s == Body(result.q)
               r == Left(sock[result.fd], s)
    <2>2. s \in Seq(ReplyUnit) /\ \A i \in 1..Len(s) : s[i].k # 1
      BY <2>1, ReplyTypes, BodyIsRest
    <2> HIDE DEF s
    <2>3. \A i \in 1..Len(r) : r[i].k # 1
      BY <1>1, <2>1, <2>2, LeftIsRest
    <2>4. write_buffers' = [write_buffers EXCEPT ![result.fd] = r]
      BY <2>1 DEF s
    <2> HIDE DEF r
    <2> QED BY <1>1, <2>1, <2>3, <2>4, RestFrame
  <1>5. CASE WriteRest
    <2>1. /\ cur \in Fds /\ sock[cur] \in Conns
          /\ write_buffers[cur] \in Seq(ReplyUnit)
          /\ \A i \in 1..Len(write_buffers[cur]) : write_buffers[cur][i].k # 1
      BY <1>5, ServedConn DEF WriteRest, RestInv
    <2>2. \/ UNCHANGED write_buffers
          \/ write_buffers' = [write_buffers EXCEPT
                                 ![cur] = Left(sock[cur], write_buffers[cur])]
      BY <1>5 DEF WriteRest
    <2> QED BY <1>1, <1>2, <2>1, <2>2, LeftIsRest, RestFrame
  <1>6. CASE \/ Environment \/ UNCHANGED vars \/ \E w \in Workers : Worker(w)
    BY <1>2, <1>6 DEF Environment, Connect, ClientSend, Deliver, ClientRecv,
         HangUp, PeerReset, Worker, WorkerPop, WorkerPush, vars
  <1>7. CASE \/ EpollWait \/ Dispatch \/ Accept \/ AcceptAgain \/ AcceptThrows
             \/ ReadQuery \/ ReadAgain \/ ResultsDone \/ TryPop \/ ResultDropped
             \/ ResultClose \/ ResultKills \/ SendCount \/ SendBody \/ Arm
             \/ WriteKills \/ Disarm
    BY <1>2, <1>7 DEF EpollWait, Dispatch, Accept, AcceptAgain, AcceptThrows,
         ReadQuery, ReadAgain, ResultsDone, TryPop, ResultDropped, ResultClose,
         ResultKills, SendCount, SendBody, Arm, WriteKills, Disarm, Killed
  <1> QED BY <1>3, <1>4, <1>5, <1>6, <1>7 DEF Next, RunLoop

(* A step that sends what is left of a reply.                               *)
LEMMA OnceSendRest ==
  ASSUME NetTypeOK, NEW q \in Asked, Once(q), NEW c \in Conns,
         NEW s \in Seq(ReplyUnit), \A i \in 1..Len(s) : s[i].k # 1,
         Put(c, s), UNCHANGED <<queues, inb, flight, sent>>, pc' # "count"
  PROVE  Once(q)'
  <1>1. StreamOne(q) /\ WireOne(q)
    BY OnceParts
  <1>2. WireOne(q)' /\ (OnWire(q)' => OnWire(q))
    BY <1>1, WireRest
  <1>3. StreamOne(q)' /\ (InStream(q)' => InStream(q))
    BY <1>1, StreamKept
  <1>4. ~Sending(q)'
    BY DEF Sending
  <1> QED BY <1>2, <1>3, <1>4, OnceKept

LEMMA NextOnce ==
  ASSUME IInv, RestInv, NEW q \in Asked, Once(q), [Next]_vars
  PROVE  Once(q)'
  <1>1. NetTypeOK /\ LoopTypeOK
    BY DEF IInv, TypeOK
  <1>2. CASE \E c \in Conns : Connect(c) \/ ClientRecv(c) \/ HangUp(c) \/ PeerReset(c)
    <2>1. /\ UNCHANGED <<queues, wire, sent, inb, pc, result>>
          /\ UNCHANGED flight \/ \E c : flight' = [flight EXCEPT ![c] = <<>>]
      BY <1>2 DEF Connect, ClientRecv, HangUp, PeerReset, loop
    <2> QED BY <1>1, <2>1, OnceFrame
  <1>3. CASE \E c \in Conns : ClientSend(c) \/ Deliver(c)
    BY <1>1, <1>3, OnceClientSend, OnceDeliver
  <1>4. CASE \/ EpollWait \/ Dispatch \/ Accept \/ AcceptAgain \/ AcceptThrows
             \/ ReadAgain \/ ResultsDone \/ ResultDropped \/ ResultKills
             \/ Arm \/ WriteKills \/ Disarm
    <2>1. UNCHANGED <<queues, wire, sent, inb, flight>>
      BY <1>4 DEF EpollWait, Dispatch, Accept, AcceptAgain, AcceptThrows,
           ReadAgain, ResultsDone, ResultDropped, ResultKills, Arm, WriteKills,
           Disarm, Killed, net
    <2>2. pc' # "count"
      BY <1>4 DEF EpollWait, Dispatch, Accept, AcceptAgain, AcceptThrows,
           ReadAgain, ResultsDone, ResultDropped, ResultKills, Arm, WriteKills,
           Disarm, Killed, ResultDone, EventDone, AfterEvents, loop
    <2> QED BY <1>1, <2>1, <2>2, OnceFrame
  <1>5. CASE ReadClose \/ WriteClose \/ ResultClose
    <2>1. PICK f : Close(f)
      BY <1>5 DEF ReadClose, WriteClose, ResultClose
    <2>2. /\ inb' = [inb EXCEPT ![sock[f]] = <<>>]
          /\ flight' = [flight EXCEPT ![sock[f]] = <<>>]
          /\ UNCHANGED <<wire, sent>>
      BY <2>1 DEF Close
    <2>3. UNCHANGED queues /\ pc' # "count"
      BY <1>5 DEF ReadClose, WriteClose, ResultClose, ResultDone, EventDone, AfterEvents
    <2> QED BY <1>1, <2>2, <2>3, OnceFrame
  <1>6. CASE ReadQuery
    BY <1>6, OnceReadQuery
  <1>7. CASE TryPop
    BY <1>7, OnceTryPop
  <1>8. CASE SendCount
    BY <1>8, OnceSendCount
  <1>9. CASE SendBody \/ SendPartOfBody
    <2>1. sock[result.fd] \in Conns /\ result.q \in Queries
      BY <1>9, ServedConn DEF SendBody, SendPartOfBody
    <2>2. Body(result.q) \in Seq(ReplyUnit)
      BY <2>1, ReplyTypes
    <2>3. /\ Put(sock[result.fd], Body(result.q)) /\ pc' # "count"
          /\ UNCHANGED <<queues, inb, flight, sent>>
      BY <1>9 DEF SendBody, SendPartOfBody, ResultDone
    <2> QED BY <1>1, <2>1, <2>2, <2>3, BodyIsRest, OnceSendRest
  <1>10. CASE WriteRest
    <2>1. /\ sock[cur] \in Conns /\ write_buffers[cur] \in Seq(ReplyUnit)
          /\ \A i \in 1..Len(write_buffers[cur]) : write_buffers[cur][i].k # 1
      BY <1>10, ServedConn DEF WriteRest, RestInv
    <2>2. UNCHANGED <<queues, inb, flight, sent>> /\ pc' # "count"
      BY <1>10 DEF WriteRest, EventDone, AfterEvents
    <2>3. UNCHANGED wire \/ Put(sock[cur], write_buffers[cur])
      BY <1>10 DEF WriteRest
    <2>4. CASE UNCHANGED wire
      BY <1>1, <2>2, <2>4, OnceFrame
    <2>5. CASE Put(sock[cur], write_buffers[cur])
      BY <1>1, <2>1, <2>2, <2>5, OnceSendRest
    <2> QED BY <2>3, <2>4, <2>5
  <1>11. CASE \E w \in Workers : Worker(w)
    BY <1>11, OnceWorkerPop, OnceWorkerPush DEF Worker
  <1>12. CASE UNCHANGED vars
    <2>1. UNCHANGED <<queues, wire, sent, inb, flight, pc, result>>
      BY <1>12 DEF vars, net, loop
    <2> QED BY <1>1, <2>1, OnceFrame
  <1> QED BY <1>2, <1>3, <1>4, <1>5, <1>6, <1>7, <1>8, <1>9, <1>10, <1>11,
             <1>12 DEF Next, RunLoop, Environment

LEMMA InitOnce == Init => OnceInv
  <1> SUFFICES ASSUME Init PROVE OnceInv
    OBVIOUS
  <1>1. RestInv
    BY DEF Init, RestInv
  <1>2. \A q \in Asked : Once(q)
    <2> TAKE q \in Asked
    <2>1. q.conn \in Conns
      BY AskedType
    <2>2. ~InStream(q) /\ StreamOne(q)
      BY <2>1 DEF Init, InStream, StreamOne, Has, One
    <2>3. ~InWork(q) /\ OneItem(work_queue, q) /\ ~InResults(q) /\ OneItem(results_queue, q)
      BY DEF Init, InWork, InResults, HasItem, OneItem
    <2>4. ~Computed(q) /\ ComputedOne(q) /\ ~Sending(q)
      BY DEF Init, Computed, ComputedOne, Sending
    <2>5. ~OnWire(q) /\ WireOne(q)
      BY DEF Init, OnWire, WireOne, Has, One
    <2> QED BY <2>2, <2>3, <2>4, <2>5 DEF Once, Apart, Taken
  <1> QED BY <1>1, <1>2 DEF OnceInv

(* Whatever clients do and however the threads interleave, a query is       *)
(* nowhere twice between handle_read (server.cc:167-195), the workers       *)
(* (server.cc:14-64) and send_result (server.cc:211-256).                   *)
THEOREM AnswersAtMostOnce == Spec => []AtMostOnce
  <1>1. IInv /\ OnceInv /\ [Next]_vars => OnceInv'
    BY NextRest, NextOnce DEF OnceInv
  <1>2. OnceInv => AtMostOnce
    BY OnceCounts DEF OnceInv, AtMostOnce, Asked
  <1> QED BY Invariant, InitOnce, <1>1, <1>2, PTL DEF Spec

-----------------------------------------------------------------------------
(* What is left to send: whole runs of one reply, each going on with what   *)
(* its connection has been sent, which the next connection with the same    *)
(* descriptor has not.                                                      *)
IsRun(s) ==
  \A i \in 1..(Len(s) - 1) : s[i + 1].q = s[i].q /\ s[i + 1].k = s[i].k + 1

OwnInv ==
  /\ \A f \in Fds : IsRun(write_buffers[f])
  /\ \A f \in Fds : interest[f] = "inout_et" => sock[f] \in Conns
  /\ RemainderIsOwn

LEMMA BodyIsRun == ASSUME NEW q \in Queries PROVE IsRun(Body(q))
  <1>1. Body(q) \in Seq(ReplyUnit)
    BY ReplyTypes
  <1>2. \A i \in 1..Len(Body(q)) :
          Body(q)[i].q = q /\ Body(q)[i].k = HeaderUnits + 1 + (i - 1)
    BY UnitsAt, ConstantsAssumption DEF Body, FrameUnits
  <1> HIDE DEF Body
  <1>3. Len(Body(q)) \in Nat /\ HeaderUnits \in Nat
    BY <1>1, ConstantsAssumption
  <1> SUFFICES ASSUME NEW i \in 1..(Len(Body(q)) - 1)
               PROVE  /\ Body(q)[i + 1].q = Body(q)[i].q
                      /\ Body(q)[i + 1].k = Body(q)[i].k + 1
    BY DEF IsRun
  <1>4. i \in 1..Len(Body(q)) /\ i + 1 \in 1..Len(Body(q)) /\ i \in Nat
    BY <1>3
  <1> QED BY <1>2, <1>3, <1>4

(* send() takes the first k units, and the rest is the others.              *)
LEMMA Cut ==
  ASSUME NetTypeOK, NEW c \in Conns, NEW s \in Seq(ReplyUnit)
  PROVE  \E k \in 0..Len(s) :
           /\ k = Lesser(Space(c), Len(s))
           /\ SubSeq(s, 1, k) \in Seq(ReplyUnit) /\ Len(SubSeq(s, 1, k)) = k
           /\ \A i \in 1..k : SubSeq(s, 1, k)[i] = s[i]
           /\ Len(Left(c, s)) = Len(s) - k
           /\ \A i \in 1..(Len(s) - k) : Left(c, s)[i] = s[k + i]
           /\ Left(c, s) # <<>> /\ Space(c) > 0 => k \in 1..(Len(s) - 1)
  <1> DEFINE k == Lesser(Space(c), Len(s))
  <1>1. Space(c) \in Nat /\ Len(s) \in Nat
    BY SpaceType, ConstantsAssumption
  <1>2. k \in 0..Len(s) /\ (Space(c) > 0 /\ Len(s) > 0 => k > 0)
    BY <1>1 DEF Lesser
  <1>3. Left(c, s) = SubSeq(s, k + 1, Len(s)) /\ Left(c, s) \in Seq(ReplyUnit)
    BY LeftType DEF Left, Drop
  <1> HIDE DEF k
  <1>4. /\ Len(Left(c, s)) = Len(s) - k
        /\ \A i \in 1..(Len(s) - k) : Left(c, s)[i] = s[k + i]
    BY <1>1, <1>2, <1>3, SubSeqProperties
  <1>5. /\ SubSeq(s, 1, k) \in Seq(ReplyUnit) /\ Len(SubSeq(s, 1, k)) = k
        /\ \A i \in 1..k : SubSeq(s, 1, k)[i] = s[i]
    BY <1>1, <1>2, PrefixType, SubSeqProperties
  <1>6. Left(c, s) # <<>> => Len(s) - k > 0
    BY <1>1, <1>2, <1>3, <1>4
  <1>7. Left(c, s) # <<>> /\ Space(c) > 0 => k \in 1..(Len(s) - 1)
    BY <1>1, <1>2, <1>6
  <1> QED BY <1>2, <1>4, <1>5, <1>7 DEF k

LEMMA LeftIsRun ==
  ASSUME NetTypeOK, NEW c \in Conns, NEW s \in Seq(ReplyUnit), IsRun(s)
  PROVE  IsRun(Left(c, s))
  <1>1. PICK k \in 0..Len(s) :
          /\ Len(Left(c, s)) = Len(s) - k
          /\ \A i \in 1..(Len(s) - k) : Left(c, s)[i] = s[k + i]
    BY Cut
  <1>2. Len(s) \in Nat /\ k \in Nat
    OBVIOUS
  <1> SUFFICES ASSUME NEW i \in 1..(Len(s) - k - 1)
               PROVE  /\ Left(c, s)[i + 1].q = Left(c, s)[i].q
                      /\ Left(c, s)[i + 1].k = Left(c, s)[i].k + 1
    BY <1>1 DEF IsRun
  <1>3. /\ i \in 1..(Len(s) - k) /\ i + 1 \in 1..(Len(s) - k)
        /\ k + i \in 1..(Len(s) - 1) /\ k + (i + 1) = (k + i) + 1
    BY <1>2
  <1>4. Left(c, s)[i] = s[k + i] /\ Left(c, s)[i + 1] = s[(k + i) + 1]
    BY <1>1, <1>3
  <1> QED BY <1>3, <1>4 DEF IsRun

(* A stream only grows.                                                     *)
WireGrows ==
  \A d \in Conns : \A u : Continues(wire[d], u) => Continues(wire'[d], u)

(* Where the units of two sequences are in their concatenation.             *)
LEMMA Joined ==
  ASSUME NEW S, NEW s \in Seq(S), NEW t \in Seq(S)
  PROVE  /\ Len(s \o t) = Len(s) + Len(t)
         /\ \A i \in 1..Len(s) : (s \o t)[i] = s[i]
         /\ \A i \in 1..Len(t) : (s \o t)[Len(s) + i] = t[i]
  <1> DEFINE st == s \o t
  <1>1. /\ Len(s) \in Nat /\ Len(t) \in Nat /\ Len(st) = Len(s) + Len(t)
        /\ \A i \in 1..(Len(s) + Len(t)) :
             st[i] = IF i <= Len(s) THEN s[i] ELSE t[i - Len(s)]
    BY ConcatProperties
  <1> HIDE DEF st
  <1>2. ASSUME NEW i \in 1..Len(t) PROVE st[Len(s) + i] = t[i]
    <2>1. Len(s) + i \in 1..(Len(s) + Len(t)) /\ ~(Len(s) + i <= Len(s))
          /\ (Len(s) + i) - Len(s) = i
      BY <1>1
    <2> QED BY <1>1, <2>1
  <1> QED BY <1>1, <1>2 DEF st

(* The units send() accepts join the stream, and the rest goes on from it.  *)
LEMMA PutContinues ==
  ASSUME NetTypeOK, NEW c \in Conns, NEW s \in Seq(ReplyUnit), IsRun(s),
         Put(c, s)
  PROVE  /\ WireGrows
         /\ Space(c) > 0 /\ Left(c, s) # <<>> => Continues(wire'[c], Left(c, s))
  <1>1. PICK k \in 0..Len(s) :
          /\ k = Lesser(Space(c), Len(s))
          /\ SubSeq(s, 1, k) \in Seq(ReplyUnit) /\ Len(SubSeq(s, 1, k)) = k
          /\ \A i \in 1..k : SubSeq(s, 1, k)[i] = s[i]
          /\ Len(Left(c, s)) = Len(s) - k
          /\ \A i \in 1..(Len(s) - k) : Left(c, s)[i] = s[k + i]
          /\ Left(c, s) # <<>> /\ Space(c) > 0 => k \in 1..(Len(s) - 1)
    BY Cut
  <1> DEFINE t == SubSeq(s, 1, k)
             n == Len(wire[c])
  <1>2. wire[c] \in Seq(ReplyUnit) /\ n \in Nat /\ Len(s) \in Nat /\ k \in Nat
    BY DEF NetTypeOK
  <1>3. wire' = [wire EXCEPT ![c] = wire[c] \o t]
    BY <1>1 DEF Put
  <1>4. t \in Seq(ReplyUnit) /\ Len(t) = k /\ \A i \in 1..k : t[i] = s[i]
    BY <1>1
  <1> HIDE DEF t
  <1>5. \A d \in Conns : wire'[d] = IF d = c THEN wire[c] \o t ELSE wire[d]
    BY <1>3 DEF NetTypeOK
  <1>6. /\ Len(wire'[c]) = n + k
        /\ \A i \in 1..n : wire'[c][i] = wire[c][i]
        /\ \A i \in 1..k : wire'[c][n + i] = t[i]
    <2>1. wire'[c] = wire[c] \o t
      BY <1>5
    <2>2. /\ Len(wire[c] \o t) = Len(wire[c]) + Len(t)
          /\ \A i \in 1..Len(wire[c]) : (wire[c] \o t)[i] = wire[c][i]
          /\ \A i \in 1..Len(t) : (wire[c] \o t)[Len(wire[c]) + i] = t[i]
      <3>1. wire[c] \in Seq(ReplyUnit) /\ t \in Seq(ReplyUnit)
        BY <1>2, <1>4
      <3> QED BY ONLY <3>1, Joined
    <2>3. Len(t) = k
      BY <1>4
    <2> QED BY ONLY <2>1, <2>2, <2>3
  <1> HIDE DEF n
  <1>7. WireGrows
    <2> SUFFICES ASSUME NEW d \in Conns, NEW u, Continues(wire[d], u)
                 PROVE  Continues(wire'[d], u)
      BY DEF WireGrows
    <2>1. CASE d # c
      BY <1>5, <2>1
    <2>2. CASE d = c
      <3>1. PICK i \in 1..n : wire[c][i].q = u[1].q /\ wire[c][i].k + 1 = u[1].k
        BY <2>2 DEF Continues, n
      <3>2. i \in 1..Len(wire'[c]) /\ wire'[c][i] = wire[c][i]
        BY <1>2, <1>6
      <3> QED BY <2>2, <3>1, <3>2 DEF Continues
    <2> QED BY <2>1, <2>2
  <1>8. ASSUME Space(c) > 0, Left(c, s) # <<>>
        PROVE  Continues(wire'[c], Left(c, s))
    <2>1. k \in 1..(Len(s) - 1)
      BY <1>1, <1>8
    <2>2. n + k \in 1..Len(wire'[c]) /\ wire'[c][n + k] = s[k]
      BY <1>2, <1>4, <1>6, <2>1
    <2>3. Left(c, s)[1] = s[k + 1]
      BY <1>1, <1>2, <2>1
    <2>4. s[k + 1].q = s[k].q /\ s[k + 1].k = s[k].k + 1
      BY <2>1 DEF IsRun
    <2> QED BY <2>2, <2>3, <2>4 DEF Continues
  <1> QED BY <1>7, <1>8

LEMMA ArmedIsOpen ==
  ASSUME IInv, OwnInv, NEW f \in Fds, Armed(f)
  PROVE  sock[f] \in Conns
  BY DEF IInv, TypeOK, LoopTypeOK, ControlInv, NoStaleEvents, OwnInv, Armed

(* Each descriptor is left alone, or has a remainder of its own.            *)
LEMMA OwnKept ==
  ASSUME IInv, OwnInv, WireGrows,
         \A f \in Fds :
           \/ /\ write_buffers'[f] = write_buffers[f] /\ sock'[f] = sock[f]
              /\ Armed(f)' => Armed(f)
           \/ /\ IsRun(write_buffers'[f])
              /\ Armed(f)' =>
                   /\ sock'[f] \in Conns
                   /\ write_buffers'[f] # <<>> =>
                        Continues(wire'[sock'[f]], write_buffers'[f])
  PROVE  OwnInv'
  <1> SUFFICES ASSUME NEW f \in Fds
               PROVE  /\ IsRun(write_buffers'[f])
                      /\ Armed(f)' =>
                           /\ sock'[f] \in Conns
                           /\ write_buffers'[f] # <<>> =>
                                Continues(wire'[sock'[f]], write_buffers'[f])
    <2>1. ASSUME NEW f \in Fds, interest'[f] = "inout_et" PROVE Armed(f)'
      BY <2>1 DEF Armed
    <2> QED BY <2>1 DEF OwnInv, RemainderIsOwn
  <1>1. CASE /\ write_buffers'[f] = write_buffers[f] /\ sock'[f] = sock[f]
             /\ Armed(f)' => Armed(f)
    <2>1. IsRun(write_buffers[f])
      BY DEF OwnInv
    <2>2. ASSUME Armed(f)' PROVE sock[f] \in Conns
      BY <1>1, <2>2, ArmedIsOpen
    <2>3. ASSUME Armed(f)', write_buffers[f] # <<>>
          PROVE  Continues(wire'[sock[f]], write_buffers[f])
      BY <1>1, <2>2, <2>3 DEF OwnInv, RemainderIsOwn, WireGrows
    <2> QED BY <1>1, <2>1, <2>2, <2>3
  <1> QED BY <1>1

LEMMA OwnOfClose ==
  ASSUME IInv, OwnInv, NEW g \in Fds, Close(g), pc' # "arm",
         \A f \in Fds : f # g => write_buffers'[f] = write_buffers[f],
         write_buffers'[g] \in {<<>>, write_buffers[g]}
  PROVE  OwnInv'
  <1>1. WireGrows
    BY DEF Close, WireGrows
  <1>2. ASSUME NEW f \in Fds, f # g
        PROVE  /\ write_buffers'[f] = write_buffers[f] /\ sock'[f] = sock[f]
               /\ Armed(f)' => Armed(f)
    BY <1>2 DEF Close, IInv, TypeOK, LoopTypeOK, Armed
  <1>3. IsRun(write_buffers'[g]) /\ ~Armed(g)'
    BY DEF Close, IInv, TypeOK, LoopTypeOK, Armed, OwnInv, IsRun
  <1> QED BY <1>1, <1>2, <1>3, OwnKept

LEMMA NextOwn == ASSUME IInv, OwnInv, [Next]_vars PROVE OwnInv'
  <1>0. NetTypeOK /\ LoopTypeOK
    BY DEF IInv, TypeOK
  <1>u. UNCHANGED wire => WireGrows
    BY DEF WireGrows
  <1>1. CASE \/ Environment \/ UNCHANGED vars \/ \E w \in Workers : Worker(w)
    <2>1. UNCHANGED <<wire, sock, interest, pc, result, write_buffers>>
      BY <1>1 DEF Environment, Connect, ClientSend, Deliver, ClientRecv, HangUp,
         PeerReset, Worker, WorkerPop, WorkerPush, vars, net, epoll, loop
    <2> QED BY <1>u, <2>1, OwnKept DEF Armed
  <1>2. CASE \/ EpollWait \/ Dispatch \/ AcceptAgain \/ AcceptThrows \/ ReadQuery
             \/ ReadAgain \/ ResultsDone \/ TryPop \/ ResultDropped
             \/ ResultKills \/ WriteKills
    <2>1. UNCHANGED <<wire, sock, interest, write_buffers>> /\ pc' # "arm"
      BY <1>2 DEF EpollWait, Dispatch, AcceptAgain, AcceptThrows, ReadQuery,
         ReadAgain, ResultsDone, TryPop, ResultDropped, ResultKills, WriteKills,
         Killed, EventDone, AfterEvents, ResultDone, net, epoll, loop
    <2> QED BY <1>u, <2>1, OwnKept DEF Armed
  <1>3. CASE Accept
    <2>1. PICK g \in Fds : /\ sock' = [sock EXCEPT ![g] = Head(backlog)]
                           /\ interest' = [interest EXCEPT ![g] = "in"]
      BY <1>3 DEF Accept, FreeFds
    <2>2. UNCHANGED <<wire, write_buffers>> /\ pc' # "arm"
      BY <1>3 DEF Accept, loop
    <2>3. IsRun(write_buffers[g]) /\ ~Armed(g)'
      BY <1>0, <2>1, <2>2 DEF OwnInv, LoopTypeOK, Armed
    <2>4. ASSUME NEW f \in Fds, f # g
          PROVE  sock'[f] = sock[f] /\ (Armed(f)' => Armed(f))
      BY <1>0, <2>1, <2>2, <2>4 DEF LoopTypeOK, Armed
    <2> QED BY <1>u, <2>2, <2>3, <2>4, OwnKept
  <1>4. CASE ReadClose \/ WriteClose
    <2>1. /\ cur \in Fds /\ Close(cur)
          /\ write_buffers' = [write_buffers EXCEPT ![cur] = <<>>] /\ pc' # "arm"
      BY <1>4, ServedConn DEF ReadClose, WriteClose, EventDone, AfterEvents
    <2> QED BY <1>0, <2>1, OwnOfClose DEF LoopTypeOK
  <1>5. CASE ResultClose
    <2>1. result.fd \in Fds /\ Close(result.fd) /\ UNCHANGED write_buffers /\ pc' # "arm"
      BY <1>5, ServedConn DEF ResultClose, ResultDone
    <2> QED BY <2>1, OwnOfClose
  <1>6. CASE SendCount
    <2>1. /\ sock[result.fd] \in Conns /\ result.q \in Queries
          /\ Put(sock[result.fd], Header(result.q))
      BY <1>6, ServedConn DEF SendCount
    <2>2. IsRun(Header(result.q))
      <3>1. \A i \in 1..Len(Header(result.q)) :
              Header(result.q)[i].q = result.q /\ Header(result.q)[i].k = 1 + (i - 1)
        BY UnitsAt, ConstantsAssumption DEF Header
      <3>2. Header(result.q) \in Seq(ReplyUnit)
        BY <2>1, ReplyTypes
      <3> HIDE DEF Header
      <3> SUFFICES ASSUME NEW i \in 1..(Len(Header(result.q)) - 1)
                   PROVE  /\ Header(result.q)[i + 1].q = Header(result.q)[i].q
                          /\ Header(result.q)[i + 1].k = Header(result.q)[i].k + 1
        BY DEF IsRun
      <3>3. Len(Header(result.q)) \in Nat
        BY <3>2
      <3>4. i \in 1..Len(Header(result.q)) /\ i + 1 \in 1..Len(Header(result.q))
            /\ i \in Nat
        BY <3>3
      <3> QED BY <3>1, <3>4
    <2>3. WireGrows
      BY <1>0, <2>1, <2>2, ReplyTypes, PutContinues
    <2>4. UNCHANGED <<sock, interest, write_buffers>> /\ pc' # "arm"
      BY <1>6 DEF SendCount, epoll
    <2> QED BY <2>3, <2>4, OwnKept DEF Armed
  <1>7. CASE SendBody
    <2>1. /\ sock[result.fd] \in Conns /\ result.q \in Queries
          /\ Put(sock[result.fd], Body(result.q))
      BY <1>7, ServedConn DEF SendBody
    <2>2. WireGrows
      BY <1>0, <2>1, BodyIsRun, ReplyTypes, PutContinues
    <2>3. UNCHANGED <<sock, interest, write_buffers>> /\ pc' # "arm"
      BY <1>7 DEF SendBody, ResultDone, epoll
    <2> QED BY <2>2, <2>3, OwnKept DEF Armed
  <1>8. CASE SendPartOfBody
    <2> DEFINE c == sock[result.fd]
               s == Body(result.q)
    <2>1. /\ result.fd \in Fds /\ c \in Conns /\ result.q \in Queries
          /\ Put(c, s) /\ Space(c) > 0 /\ Left(c, s) # <<>>
          /\ write_buffers' = [write_buffers EXCEPT ![result.fd] = Left(c, s)]
          /\ UNCHANGED <<sock, interest, result>>
      BY <1>8, ServedConn DEF SendPartOfBody, Accepts, epoll
    <2>2. s \in Seq(ReplyUnit) /\ IsRun(s)
      BY <2>1, BodyIsRun, ReplyTypes
    <2> HIDE DEF c, s
    <2>3. WireGrows /\ Continues(wire'[c], Left(c, s)) /\ IsRun(Left(c, s))
      BY <1>0, <2>1, <2>2, PutContinues, LeftIsRun
    <2>4. write_buffers'[result.fd] = Left(c, s) /\ sock'[result.fd] = c
      BY <1>0, <2>1 DEF LoopTypeOK, c
    <2>5. ASSUME NEW f \in Fds, f # result.fd
          PROVE  /\ write_buffers'[f] = write_buffers[f] /\ sock'[f] = sock[f]
                 /\ Armed(f)' => Armed(f)
      BY <1>0, <2>1, <2>5 DEF LoopTypeOK, Armed
    <2> QED BY <2>1, <2>3, <2>4, <2>5, OwnKept
  <1>9. CASE Arm
    <2>1. /\ result.fd \in Fds /\ pc = "arm" /\ pc' # "arm"
          /\ interest' = [interest EXCEPT ![result.fd] = "inout_et"]
          /\ UNCHANGED <<wire, sock, write_buffers>>
      BY <1>9, ServedConn DEF Arm, Modify, ResultDone, net
    <2>2. \A f \in Fds : Armed(f)' => Armed(f)
      BY <1>0, <2>1 DEF LoopTypeOK, Armed
    <2> QED BY <1>u, <2>1, <2>2, OwnKept
  <1>10. CASE Disarm
    <2>1. /\ cur \in Fds /\ pc' # "arm"
          /\ interest' = [interest EXCEPT ![cur] = "in_et"]
          /\ UNCHANGED <<wire, sock, write_buffers>>
      BY <1>10, ServedConn DEF Disarm, Modify, EventDone, AfterEvents, net
    <2>2. \A f \in Fds : Armed(f)' => Armed(f)
      BY <1>0, <2>1 DEF LoopTypeOK, Armed
    <2> QED BY <1>u, <2>1, <2>2, OwnKept
  <1>11. CASE WriteRest
    <2> DEFINE c == sock[cur]
               s == write_buffers[cur]
    <2>1. /\ cur \in Fds /\ c \in Conns /\ s \in Seq(ReplyUnit) /\ IsRun(s)
          /\ UNCHANGED <<sock, interest>> /\ pc' # "arm"
      BY <1>11, ServedConn DEF WriteRest, OwnInv, EventDone, AfterEvents, epoll
    <2>2. CASE s = <<>>
      <3>1. UNCHANGED <<wire, write_buffers>>
        BY <1>11, <2>2 DEF WriteRest
      <3> QED BY <1>u, <2>1, <3>1, OwnKept DEF Armed
    <2>3. CASE s # <<>>
      <3>1. /\ Put(c, s) /\ Space(c) > 0
            /\ write_buffers' = [write_buffers EXCEPT ![cur] = Left(c, s)]
        BY <1>11, <2>3 DEF WriteRest, Accepts
      <3>2. write_buffers'[cur] = Left(c, s) /\ sock'[cur] = c
        BY <1>0, <2>1, <3>1 DEF LoopTypeOK
      <3>3. ASSUME NEW f \in Fds, f # cur
            PROVE  /\ write_buffers'[f] = write_buffers[f] /\ sock'[f] = sock[f]
                   /\ Armed(f)' => Armed(f)
        BY <1>0, <2>1, <3>1, <3>3 DEF LoopTypeOK, Armed
      <3> HIDE DEF c, s
      <3>4. /\ WireGrows /\ IsRun(Left(c, s))
            /\ Left(c, s) # <<>> => Continues(wire'[c], Left(c, s))
        BY <1>0, <2>1, <3>1, PutContinues, LeftIsRun
      <3> QED BY <2>1, <3>2, <3>3, <3>4, OwnKept
    <2> QED BY <2>2, <2>3
  <1> QED BY <1>1, <1>2, <1>3, <1>4, <1>5, <1>6, <1>7, <1>8, <1>9, <1>10, <1>11
          DEF Next, RunLoop

(* Whatever clients do, handle_write (server.cc:258-289) goes on with a     *)
(* reply that its own connection has begun to receive, although send_result *)
(* leaves the entry of a connection it closes (222, 229) to the next one    *)
(* with the same descriptor: that one's EPOLLOUT is asked for only after    *)
(* its own remainder has replaced the entry (247-253).                      *)
THEOREM RemaindersAreOwn == Spec => []RemainderIsOwn
  <1>1. Init => OwnInv
    BY DEF Init, OwnInv, RemainderIsOwn, Armed, IsRun
  <1>2. IInv /\ OwnInv /\ [Next]_vars => OwnInv'
    BY NextOwn
  <1>3. OwnInv => RemainderIsOwn
    BY DEF OwnInv
  <1> QED BY Invariant, <1>1, <1>2, <1>3, PTL DEF Spec

-----------------------------------------------------------------------------
(* Polite clients.  First, how far a stream of replies is: Frames(n) units  *)
(* are n whole replies, and a unit's number tells its reply.                *)
Frames(n) == FrameUnits * n

LEMMA FrameType == FrameUnits \in Nat \ {0} /\ HeaderUnits < FrameUnits
  BY ConstantsAssumption DEF FrameUnits

LEMMA FramesGrow ==
  ASSUME NEW n \in Nat
  PROVE  /\ Frames(n) \in Nat /\ Frames(0) = 0
         /\ Frames(n + 1) = Frames(n) + FrameUnits
  BY FrameType DEF Frames

LEMMA FramesMonotone ==
  ASSUME NEW m \in Nat, NEW n \in Nat, m <= n
  PROVE  Frames(m) <= Frames(n)
  <1>1. PICK d \in Nat : n = m + d
    <2>1. n - m \in Nat /\ n = m + (n - m)
      OBVIOUS
    <2> QED BY <2>1
  <1>2. FrameUnits * (m + d) = FrameUnits * m + FrameUnits * d
    BY FrameType
  <1>3. FrameUnits * m \in Nat /\ FrameUnits * d \in Nat
    BY FrameType
  <1> QED BY <1>1, <1>2, <1>3 DEF Frames

LEMMA FramesApart ==
  ASSUME NEW m \in Nat, NEW n \in Nat, m < n
  PROVE  /\ Frames(m) + FrameUnits <= Frames(n)
         /\ Frames(m) \in Nat /\ Frames(n) \in Nat
  <1>1. m + 1 \in Nat /\ m + 1 <= n
    OBVIOUS
  <1>2. Frames(m + 1) <= Frames(n)
    BY <1>1, FramesMonotone
  <1>3. Frames(m + 1) = Frames(m) + FrameUnits /\ Frames(m) \in Nat
    BY FramesGrow
  <1> QED BY <1>2, <1>3, FramesGrow

(* A quotient is the only one whose remainder is a remainder.               *)
LEMMA Division ==
  ASSUME NEW F \in Nat \ {0}, NEW a \in Nat
  PROVE  /\ a \div F \in Nat /\ a % F \in 0..(F - 1)
         /\ a = (F * (a \div F)) + (a % F)
  OBVIOUS

LEMMA QuotientIs ==
  ASSUME NEW n \in Nat, NEW r \in 0..(FrameUnits - 1)
  PROVE  /\ (Frames(n) + r) \div FrameUnits = n
         /\ (Frames(n) + r) % FrameUnits = r
  <1> DEFINE a == Frames(n) + r
             d == a \div FrameUnits
             s == a % FrameUnits
  <1>1. Frames(n) \in Nat /\ r \in Nat /\ FrameUnits \in Nat \ {0}
    BY FramesGrow, FrameType
  <1>2. a \in Nat
    BY <1>1
  <1>3. d \in Nat /\ s \in 0..(FrameUnits - 1) /\ a = Frames(d) + s
    BY <1>1, <1>2, Division DEF Frames
  <1> HIDE DEF d, s
  <1>4. CASE d < n
    <2>1. Frames(d) + FrameUnits <= Frames(n) /\ Frames(d) \in Nat
      BY <1>3, <1>4, FramesApart
    <2> QED BY <1>1, <1>3, <2>1
  <1>5. CASE n < d
    <2>1. Frames(n) + FrameUnits <= Frames(d) /\ Frames(d) \in Nat
      BY <1>3, <1>5, FramesApart
    <2> QED BY <1>1, <1>3, <2>1
  <1>6. CASE d = n
    BY <1>1, <1>3, <1>6 DEF d, s
  <1> QED BY <1>3, <1>4, <1>5, <1>6

LEMMA QuotientBound ==
  ASSUME NEW n \in Nat, NEW g \in Nat
  PROVE  /\ n <= g \div FrameUnits => Frames(n) <= g
         /\ g <= Frames(n) => g \div FrameUnits <= n
         /\ g \div FrameUnits \in Nat
  <1> DEFINE d == g \div FrameUnits
             s == g % FrameUnits
  <1>1. d \in Nat /\ s \in 0..(FrameUnits - 1) /\ g = Frames(d) + s
    BY FrameType, Division DEF Frames
  <1> HIDE DEF d, s
  <1>2. Frames(n) \in Nat /\ Frames(d) \in Nat /\ FrameUnits \in Nat \ {0}
    BY <1>1, FramesGrow, FrameType
  <1>3. ASSUME n <= d PROVE Frames(n) <= g
    <2>1. Frames(n) <= Frames(d)
      BY <1>1, <1>3, FramesMonotone
    <2>2. s \in Nat
      BY <1>1, <1>2
    <2> QED BY <1>1, <1>2, <2>1, <2>2
  <1>4. ASSUME g <= Frames(n), ~(d <= n) PROVE FALSE
    <2>1. n < d
      BY <1>1, <1>4
    <2>2. Frames(n) + FrameUnits <= Frames(d)
      BY <1>1, <2>1, FramesApart
    <2>3. s \in Nat
      BY <1>1, <1>2
    <2> QED BY <1>1, <1>2, <1>4, <2>2, <2>3
  <1> QED BY <1>1, <1>3, <1>4 DEF d
-----------------------------------------------------------------------------
(* Polite clients, for which buffers are large enough: they ask one query   *)
(* at a time, read what they are sent, and their queries arrive whole.      *)
Polite == /\ ~MayHangUp /\ MaxOutstanding = 1
          /\ QueryUnits = 1 /\ HeaderUnits < SendCap

(* The i-th unit that c should be sent.                                     *)
ReplyAt(c, i) == [q |-> QueryId(c, ((i - 1) \div FrameUnits) + 1),
                  k |-> ((i - 1) % FrameUnits) + 1]

(* Every connection stays up, and has one descriptor.                       *)
ConnsInv ==
  /\ \A c \in Conns : status[c] \in {"new", "open"}
  /\ \A f \in Fds : sock[f] # NoConn => status[sock[f]] = "open"
  /\ \A i \in 1..Len(backlog) : status[backlog[i]] = "open"
  /\ \A f, g \in Fds : sock[f] = sock[g] /\ sock[f] # NoConn => f = g
  /\ \A i, j \in 1..Len(backlog) : backlog[i] = backlog[j] => i = j
  /\ \A i \in 1..Len(backlog), f \in Fds : sock[f] # backlog[i]

(* A query under way: the last its client has asked, all earlier ones       *)
(* answered and read, and nothing of its own reply sent or stored.          *)
NoRest(c) == \A f \in Fds : sock[f] = c => write_buffers[f] = <<>>
Waiting(c) == /\ sent[c] > 0 /\ NoRest(c)
              /\ Len(wire[c]) = Frames(sent[c] - 1)
UnderWay(q) == q \in Asked /\ q.n = sent[q.conn] /\ Waiting(q.conn)
Going == {e \in Items : UnderWay(e.q) /\ sock[e.fd] = e.q.conn}
Fresh(c) == {u \in Unit(c) : u = First(QueryId(c, sent[c])) /\ Waiting(c)}

(* What is on its way to the server, or in its queues, is under way.        *)
StreamInv == \A c \in Conns : inb[c] \in Seq(Fresh(c)) /\ flight[c] \in Seq(Fresh(c))
ItemsInv ==
  /\ work_queue \in Seq(Going) /\ results_queue \in Seq(Going)
  /\ busy \in [Workers -> Going \cup {Idle}]
  /\ pc = "count" => result \in Going

(* Where the stream to a client is while its reply is sent.                 *)
BodyInv ==
  pc = "body" =>
    LET q == result.q IN
      /\ q \in Asked /\ q.n = sent[q.conn] /\ sock[result.fd] = q.conn
      /\ NoRest(q.conn)
      /\ Len(wire[q.conn]) = Frames(q.n - 1) + HeaderUnits

LeftInv ==
  \A f \in Fds : write_buffers[f] # <<>> =>
    LET c == sock[f] IN
      /\ c \in Conns
      /\ Len(wire[c]) + Len(write_buffers[f]) = Frames(sent[c])
      /\ \A i \in 1..Len(write_buffers[f]) :
           write_buffers[f][i] = ReplyAt(c, Len(wire[c]) + i)

WireInv ==
  \A c \in Conns :
    /\ Len(wire[c]) <= Frames(sent[c])
    /\ \A i \in 1..Len(wire[c]) : wire[c][i] = ReplyAt(c, i)
    /\ sent[c] > 0 => Frames(sent[c] - 1) <= got[c]

(* A remainder that has room again is about to be written.                  *)
Writing(f) == pc = "write" /\ cur = f
Arming(f) == pc = "arm" /\ result.fd = f
OutEdgeInv ==
  \A f \in Fds : write_buffers[f] # <<>> =>
    /\ interest[f] = "inout_et" \/ Arming(f)
    /\ Space(sock[f]) > 0 =>
         f \in ready \/ [fd |-> f, conn |-> sock[f], ev |-> {"out"}] \in batch
         \/ Writing(f) \/ Arming(f)
RoomInv ==
  /\ \A e \in batch : "out" \in e.ev =>
       e.fd \in Fds /\ e.conn \in Conns /\ Space(e.conn) > 0
  /\ pc = "write" => Space(sock[cur]) > 0
  /\ pc = "disarm" => write_buffers[cur] = <<>>

PoliteInv == /\ ConnsInv /\ StreamInv /\ ItemsInv /\ BodyInv /\ LeftInv
             /\ WireInv /\ OutEdgeInv /\ RoomInv

-----------------------------------------------------------------------------
LEMMA SeqOf ==
  ASSUME NEW S, NEW s \in Seq(S), NEW T, \A i \in 1..Len(s) : s[i] \in T
  PROVE  s \in Seq(T)
  <1>1. s \in [1..Len(s) -> S] /\ Len(s) \in Nat
    OBVIOUS
  <1>2. s \in [1..Len(s) -> T]
    BY <1>1
  <1> QED BY <1>1, <1>2

LEMMA UnderWayKept ==
  ASSUME UNCHANGED <<sent, wire, sock, write_buffers>>
  PROVE  /\ \A c : Waiting(c)' = Waiting(c)
         /\ \A q : UnderWay(q)' = UnderWay(q)
         /\ Going' = Going /\ \A c : Fresh(c)' = Fresh(c)
         /\ \A c : NoRest(c)' = NoRest(c)
  <1>1. \A c : NoRest(c)' = NoRest(c)
    BY DEF NoRest
  <1>2. \A c : Waiting(c)' = Waiting(c)
    BY <1>1 DEF Waiting
  <1>3. \A q : UnderWay(q)' = UnderWay(q)
    BY <1>2 DEF UnderWay
  <1> QED BY <1>1, <1>2, <1>3 DEF Going, Fresh

(* The facts about a connection that the steps below use.                   *)
LEMMA ConnFacts ==
  ASSUME IInv, NEW c \in Conns
  PROVE  /\ sent[c] \in Nat /\ sent[c] <= QueriesPerConn /\ got[c] \in Nat
         /\ wire[c] \in Seq(ReplyUnit) /\ Len(wire[c]) \in Nat
         /\ got[c] <= Len(wire[c]) /\ Space(c) = SendCap - (Len(wire[c]) - got[c])
         /\ Space(c) \in 0..SendCap /\ Space(c) \in Nat /\ c # NoConn
         /\ \A f \in Fds : write_buffers[f] \in Seq(ReplyUnit)
         /\ \A f \in Fds : sock[f] \in Conns \cup {NoConn}
         /\ NoConn \notin Conns
  <1>1. NetTypeOK /\ LoopTypeOK
    BY DEF IInv, TypeOK
  <1>2. Space(c) \in 0..SendCap /\ SendCap \in Nat
    BY <1>1, SpaceType, ConstantsAssumption
  <1>3. /\ sent[c] \in Nat /\ sent[c] <= QueriesPerConn /\ got[c] \in Nat
        /\ wire[c] \in Seq(ReplyUnit) /\ got[c] <= Len(wire[c])
    BY <1>1 DEF NetTypeOK
  <1>4. /\ \A f \in Fds : write_buffers[f] \in Seq(ReplyUnit)
        /\ \A f \in Fds : sock[f] \in Conns \cup {NoConn}
        /\ NoConn \notin Conns
    BY <1>1, ConstantsAssumption DEF LoopTypeOK
  <1> QED BY <1>2, <1>3, <1>4 DEF Space

(* How far a reply is, by the length of the stream.                         *)
LEMMA FrameFacts ==
  ASSUME NEW n \in Nat, n > 0
  PROVE  /\ n - 1 \in Nat /\ Frames(n - 1) \in Nat /\ Frames(n) \in Nat
         /\ Frames(n) = Frames(n - 1) + HeaderUnits + BodyUnits
         /\ HeaderUnits \in Nat \ {0} /\ BodyUnits \in Nat \ {0}
  <1>1. n - 1 \in Nat /\ n = (n - 1) + 1
    OBVIOUS
  <1>2. Frames(n) = Frames(n - 1) + FrameUnits /\ Frames(n - 1) \in Nat
    BY <1>1, FramesGrow
  <1> QED BY <1>1, <1>2, FramesGrow, ConstantsAssumption DEF FrameUnits

(* The units of a reply are where they should be.                           *)
LEMMA ReplyUnits ==
  ASSUME NEW c, NEW n \in Nat, n > 0, NEW p \in 1..FrameUnits
  PROVE  ReplyAt(c, Frames(n - 1) + p) = [q |-> QueryId(c, n), k |-> p]
  <1>1. n - 1 \in Nat /\ p - 1 \in 0..(FrameUnits - 1) /\ p \in Nat
    BY FrameType
  <1>2. Frames(n - 1) \in Nat /\ (Frames(n - 1) + p) - 1 = Frames(n - 1) + (p - 1)
    BY <1>1, FramesGrow
  <1>3. /\ ((Frames(n - 1) + p) - 1) \div FrameUnits = n - 1
        /\ ((Frames(n - 1) + p) - 1) % FrameUnits = p - 1
    BY <1>1, <1>2, QuotientIs
  <1>4. (n - 1) + 1 = n /\ (p - 1) + 1 = p
    BY <1>1
  <1> QED BY <1>3, <1>4 DEF ReplyAt

-----------------------------------------------------------------------------
(* What cannot happen.  send() always finds room: the client has read       *)
(* everything before the reply, and the count is smaller than the buffer.   *)
LEMMA RoomForReply ==
  ASSUME Polite, IInv, PoliteInv, pc \in {"count", "body"}
  PROVE  /\ result.q \in Asked /\ sock[result.fd] = result.q.conn
         /\ result.q.conn \in Conns /\ result.fd \in Fds
         /\ status[result.q.conn] = "open" /\ Space(result.q.conn) > 0
         /\ pc = "count" => HeaderUnits <= Space(result.q.conn)
  <1> DEFINE c == result.q.conn
  <1>1. result \in Items /\ result.fd \in Fds
    BY ServedConn
  <1>2. result.q \in Asked /\ result.q.n = sent[c] /\ sock[result.fd] = c
    BY DEF PoliteInv, ItemsInv, BodyInv, Going, UnderWay
  <1>3. c \in Conns /\ sent[c] > 0
    BY <1>2, AskedType, ConstantsAssumption
  <1>4. status[c] = "open"
    BY <1>1, <1>2, <1>3, ConstantsAssumption DEF PoliteInv, ConnsInv
  <1>5. Frames(sent[c] - 1) <= got[c]
    BY <1>3 DEF PoliteInv, WireInv
  <1>6. /\ pc = "count" => Len(wire[c]) = Frames(sent[c] - 1)
        /\ pc = "body" => Len(wire[c]) = Frames(sent[c] - 1) + HeaderUnits
    BY <1>2 DEF PoliteInv, ItemsInv, BodyInv, Going, UnderWay, Waiting
  <1>7. /\ sent[c] \in Nat /\ got[c] \in Nat /\ Len(wire[c]) \in Nat
        /\ Space(c) = SendCap - (Len(wire[c]) - got[c])
        /\ SendCap \in Nat /\ HeaderUnits \in Nat \ {0} /\ HeaderUnits < SendCap
    BY <1>3, ConnFacts, ConstantsAssumption DEF Polite
  <1>8. Frames(sent[c] - 1) \in Nat
    BY <1>3, <1>7, FrameFacts
  <1> HIDE DEF c
  <1>9. Space(c) > 0 /\ (pc = "count" => HeaderUnits <= Space(c))
    BY <1>5, <1>6, <1>7, <1>8
  <1> QED BY <1>1, <1>2, <1>3, <1>4, <1>9 DEF c

(* So no descriptor is closed and no signal raised.                         *)
LEMMA PoliteStep ==
  ASSUME Polite, IInv, PoliteInv, Next
  PROVE  \/ EpollWait \/ Dispatch \/ Accept \/ AcceptAgain \/ AcceptThrows
         \/ ReadQuery \/ ReadAgain \/ ResultsDone \/ TryPop \/ SendCount
         \/ SendBody \/ SendPartOfBody \/ Arm \/ WriteRest \/ Disarm
         \/ \E w \in Workers : WorkerPop(w) \/ WorkerPush(w)
         \/ \E c \in Conns : Connect(c) \/ ClientSend(c) \/ Deliver(c) \/ ClientRecv(c)
  <1>1. \A c \in Conns : status[c] \in {"new", "open"}
    BY DEF PoliteInv, ConnsInv
  <1>2. \A c \in Conns : ~HangUp(c) /\ ~PeerReset(c)
    BY <1>1 DEF HangUp, PeerReset, Polite
  <1>3. ~ReadClose
    BY <1>1, ServedConn DEF ReadClose, Readable
  <1>4. ~ResultDropped /\ ~ResultClose /\ ~ResultKills
    <2>1. pc \in {"count", "body"} =>
            /\ sock[result.fd] # NoConn /\ status[sock[result.fd]] = "open"
            /\ Space(sock[result.fd]) > 0
      BY RoomForReply, ConstantsAssumption
    <2>2. \A c : ~(Space(c) > 0 /\ Space(c) = 0)
      OBVIOUS
    <2> QED BY <2>1, <2>2 DEF ResultDropped, ResultClose, ResultKills, SendFails,
              WouldBlock, RaisesPipe
  <1>5. ~WriteClose /\ ~WriteKills
    <2>1. pc = "write" => sock[cur] \in Conns /\ Space(sock[cur]) > 0
      BY ServedConn DEF PoliteInv, RoomInv
    <2>2. \A c : ~(Space(c) > 0 /\ Space(c) = 0)
      OBVIOUS
    <2> QED BY <1>1, <2>1, <2>2 DEF WriteClose, WriteKills, SendFails, WouldBlock,
              RaisesPipe
  <1> QED BY <1>2, <1>3, <1>4, <1>5 DEF Next, RunLoop, Worker, Environment

-----------------------------------------------------------------------------
(* Connections and descriptors.                                             *)
LEMMA ConnsKept ==
  ASSUME ConnsInv, UNCHANGED <<status, backlog, sock>>
  PROVE  ConnsInv'
  BY DEF ConnsInv

LEMMA ConnsConnect ==
  ASSUME IInv, ConnsInv, NEW c \in Conns, Connect(c)
  PROVE  ConnsInv'
  <1>1. /\ status[c] = "new" /\ status' = [status EXCEPT ![c] = "open"]
        /\ backlog' = Append(backlog, c) /\ UNCHANGED sock
    BY DEF Connect, epoll
  <1>2. NetTypeOK /\ LoopTypeOK
    BY DEF IInv, TypeOK
  <1>3. backlog \in Seq(Conns) /\ status \in [Conns -> ConnStatus]
    BY <1>2 DEF NetTypeOK
  <1>4. /\ Len(backlog') = Len(backlog) + 1 /\ Len(backlog) \in Nat
        /\ \A i \in 1..Len(backlog) : backlog'[i] = backlog[i] /\ backlog[i] \in Conns
        /\ backlog'[Len(backlog) + 1] = c
    BY <1>1, <1>3, AppendProperties
  <1>5. \A i \in 1..Len(backlog') :
          (i \in 1..Len(backlog) /\ backlog'[i] = backlog[i])
          \/ (i = Len(backlog) + 1 /\ backlog'[i] = c)
    BY <1>4
  <1>6. \A d \in Conns : d # c => status'[d] = status[d]
    BY <1>1, <1>3
  <1>7. status'[c] = "open"
    BY <1>1, <1>3
  <1>8. \A i \in 1..Len(backlog) : backlog[i] # c
    BY <1>1 DEF ConnsInv
  <1>9. \A f \in Fds : sock[f] # c
    BY <1>1, ConstantsAssumption DEF ConnsInv
  <1>10. /\ \A d \in Conns : status'[d] \in {"new", "open"}
         /\ \A f \in Fds : sock'[f] # NoConn => status'[sock'[f]] = "open"
    BY <1>1, <1>2, <1>6, <1>7, <1>9 DEF ConnsInv, LoopTypeOK
  <1>11. /\ \A i \in 1..Len(backlog') : status'[backlog'[i]] = "open"
         /\ \A i \in 1..Len(backlog'), f \in Fds : sock'[f] # backlog'[i]
    BY <1>1, <1>4, <1>5, <1>6, <1>7, <1>8, <1>9 DEF ConnsInv
  <1>12. \A i, j \in 1..Len(backlog') : backlog'[i] = backlog'[j] => i = j
    BY <1>4, <1>5, <1>8 DEF ConnsInv
  <1> QED BY <1>1, <1>10, <1>11, <1>12 DEF ConnsInv

LEMMA ConnsAccept ==
  ASSUME IInv, ConnsInv, Accept
  PROVE  ConnsInv'
  <1>1. PICK f \in Fds : /\ sock[f] = NoConn
                         /\ sock' = [sock EXCEPT ![f] = Head(backlog)]
    BY DEF Accept, FreeFds
  <1>2. backlog # <<>> /\ backlog' = Tail(backlog) /\ UNCHANGED status
    BY DEF Accept
  <1>3. backlog \in Seq(Conns) /\ sock \in [Fds -> Conns \cup {NoConn}]
    BY DEF IInv, TypeOK, NetTypeOK, LoopTypeOK
  <1>4. /\ Head(backlog) = backlog[1] /\ Len(backlog) \in Nat \ {0}
        /\ Len(backlog') = Len(backlog) - 1
        /\ \A i \in 1..(Len(backlog) - 1) : backlog'[i] = backlog[i + 1]
    BY <1>2, <1>3, HeadTailProperties
  <1>5. 1 \in 1..Len(backlog)
        /\ \A i \in 1..(Len(backlog) - 1) : i + 1 \in 1..Len(backlog) /\ i + 1 # 1
    BY <1>4
  <1>6. \A g \in Fds : sock'[g] = IF g = f THEN backlog[1] ELSE sock[g]
    BY <1>1, <1>3, <1>4
  <1>7. /\ \A g \in Fds : sock'[g] # NoConn => status'[sock'[g]] = "open"
        /\ \A i \in 1..Len(backlog') : status'[backlog'[i]] = "open"
    BY <1>2, <1>4, <1>5, <1>6 DEF ConnsInv
  <1>8. \A g, h \in Fds : sock'[g] = sock'[h] /\ sock'[g] # NoConn => g = h
    BY <1>5, <1>6 DEF ConnsInv
  <1>9. \A i, j \in 1..Len(backlog') : backlog'[i] = backlog'[j] => i = j
    <2> SUFFICES ASSUME NEW i \in 1..(Len(backlog) - 1), NEW j \in 1..(Len(backlog) - 1),
                        backlog[i + 1] = backlog[j + 1]
                 PROVE  i = j
      BY <1>4
    <2>1. i + 1 = j + 1
      BY <1>5 DEF ConnsInv
    <2> QED BY <1>4, <2>1
  <1>10. \A i \in 1..Len(backlog'), g \in Fds : sock'[g] # backlog'[i]
    BY <1>4, <1>5, <1>6 DEF ConnsInv
  <1> QED BY <1>2, <1>7, <1>8, <1>9, <1>10 DEF ConnsInv
-----------------------------------------------------------------------------
(* Queries and replies: steps that send nothing.                            *)
DataInv == StreamInv /\ ItemsInv /\ BodyInv /\ LeftInv /\ WireInv

LEMMA DataKept ==
  ASSUME IInv, IInv', DataInv, UNCHANGED <<sent, wire, sock, write_buffers>>,
         StreamInv', ItemsInv', pc' # "body" \/ UNCHANGED <<pc, result>>,
         UNCHANGED got \/ \E c : got' = [got EXCEPT ![c] = @ + 1]
  PROVE  DataInv'
  <1>1. BodyInv'
    BY UnderWayKept DEF DataInv, BodyInv
  <1>2. LeftInv'
    BY DEF DataInv, LeftInv, ReplyAt
  <1>3. WireInv'
    <2> SUFFICES ASSUME NEW c \in Conns, sent[c] > 0
                 PROVE  Frames(sent[c] - 1) <= got'[c]
      BY DEF DataInv, WireInv, ReplyAt
    <2>1. Frames(sent[c] - 1) <= got[c]
      BY DEF DataInv, WireInv
    <2>2. got[c] \in Nat /\ sent[c] \in Nat
      BY ConnFacts
    <2>3. got'[c] = got[c] \/ got'[c] = got[c] + 1
      BY DEF IInv, TypeOK, NetTypeOK
    <2>4. Frames(sent[c] - 1) \in Nat
      BY <2>2, FrameFacts
    <2> QED BY <2>1, <2>2, <2>3, <2>4
  <1> QED BY <1>1, <1>2, <1>3 DEF DataInv

LEMMA StreamKeeps ==
  ASSUME StreamInv, UNCHANGED <<sent, wire, sock, write_buffers, inb, flight>>
  PROVE  StreamInv'
  BY UnderWayKept DEF StreamInv

LEMMA ItemsKeep ==
  ASSUME ItemsInv, UNCHANGED <<sent, wire, sock, write_buffers, queues>>,
         pc' # "count" \/ UNCHANGED <<pc, result>>
  PROVE  ItemsInv'
  BY UnderWayKept DEF ItemsInv, queues

LEMMA DataDeliver ==
  ASSUME IInv, IInv', DataInv, NEW c \in Conns, Deliver(c)
  PROVE  DataInv'
  <1>1. UNCHANGED <<sent, wire, sock, write_buffers, queues, pc, result, got>>
    BY DEF Deliver, loop
  <1>2. PICK k \in 1..Len(flight[c]) :
          /\ inb' = [inb EXCEPT ![c] = inb[c] \o SubSeq(flight[c], 1, k)]
          /\ flight' = [flight EXCEPT ![c] = Drop(flight[c], k)]
    BY DEF Deliver
  <1>3. inb[c] \in Seq(Fresh(c)) /\ flight[c] \in Seq(Fresh(c))
    BY DEF DataInv, StreamInv
  <1>4. k \in 0..Len(flight[c])
    BY <1>3
  <1>5. SubSeq(flight[c], 1, k) \in Seq(Fresh(c)) /\ Drop(flight[c], k) \in Seq(Fresh(c))
    BY <1>3, <1>4, PrefixType, DropType
  <1>6. inb[c] \o SubSeq(flight[c], 1, k) \in Seq(Fresh(c))
    BY <1>3, <1>5, ConcatProperties
  <1>7. \A d \in Conns : inb'[d] \in Seq(Fresh(d)) /\ flight'[d] \in Seq(Fresh(d))
    BY <1>2, <1>5, <1>6 DEF DataInv, StreamInv, IInv, TypeOK, NetTypeOK
  <1>8. StreamInv'
    BY <1>1, <1>7, UnderWayKept DEF StreamInv
  <1>9. ItemsInv'
    BY <1>1, ItemsKeep DEF DataInv
  <1> QED BY <1>1, <1>8, <1>9, DataKept

LEMMA DataReadQuery ==
  ASSUME Polite, IInv, IInv', DataInv, ReadQuery
  PROVE  DataInv'
  <1> DEFINE c == sock[cur]
             k == Lesser(QueryUnits, Len(inb[c]))
             s == SubSeq(inb[c], 1, k)
             u == inb[c][1]
  <1>1. /\ UNCHANGED <<sent, wire, sock, write_buffers, flight, results_queue, busy,
                       pc, result, got>>
        /\ inb' = [inb EXCEPT ![c] = Drop(inb[c], k)] /\ inb[c] # <<>>
        /\ work_queue' = Append(work_queue, [fd |-> cur, q |-> Decode(s)])
    BY DEF ReadQuery, loop, epoll
  <1>2. c \in Conns /\ cur \in Fds /\ inb[c] \in Seq(Fresh(c))
    BY ServedConn DEF ReadQuery, DataInv, StreamInv
  <1>3. k = 1 /\ k \in 0..Len(inb[c]) /\ 1 \in 1..Len(inb[c])
    <2>1. Len(inb[c]) \in Nat \ {0}
      BY <1>1, <1>2
    <2>2. QueryUnits = 1
      BY DEF Polite
    <2>3. \A n \in Nat \ {0} : Lesser(1, n) = 1 /\ 1 \in 0..n /\ 1 \in 1..n
      BY DEF Lesser
    <2> QED BY <2>1, <2>2, <2>3
  <1>4. u = First(QueryId(c, sent[c])) /\ Waiting(c)
    BY <1>2, <1>3 DEF Fresh
  <1>5. Len(s) = 1 /\ s[1] = u
    BY <1>2, <1>3, SubSeqProperties
  <1>6. Drop(inb[c], k) \in Seq(Fresh(c))
    BY <1>2, <1>3, DropType
  <1> HIDE DEF k, s, u
  <1>7. Decode(s) = QueryId(c, sent[c])
    <2>1. s[1].q = QueryId(c, sent[c])
      BY <1>4, <1>5 DEF First
    <2>2. \A j \in 1..1 : s[j] = [q |-> s[1].q, k |-> j]
      BY <1>4, <1>5, <2>1 DEF First
    <2> QED BY <1>5, <2>1, <2>2 DEF Decode, Polite
  <1>8. sent[c] \in 1..QueriesPerConn /\ c # NoConn
    BY <1>2, <1>4, ConnFacts DEF Waiting
  <1>9. QueryId(c, sent[c]) \in Asked
    BY <1>2, <1>8 DEF Asked, Queries, Torn, QueryId
  <1>10. [fd |-> cur, q |-> Decode(s)] \in Going
    <2>1. /\ QueryId(c, sent[c]).conn = c /\ QueryId(c, sent[c]).n = sent[c]
          /\ QueryId(c, sent[c]) \in Queries
      BY <1>9 DEF QueryId, Asked
    <2> QED BY <1>2, <1>4, <1>7, <1>9, <2>1 DEF Going, UnderWay, Items
  <1> HIDE DEF c
  <1>11. work_queue' \in Seq(Going)
    BY <1>1, <1>10, AppendProperties DEF DataInv, ItemsInv
  <1>12. ItemsInv'
    BY <1>1, <1>11, UnderWayKept DEF DataInv, ItemsInv
  <1>13. \A d \in Conns : inb'[d] \in Seq(Fresh(d)) /\ flight'[d] \in Seq(Fresh(d))
    BY <1>1, <1>6 DEF DataInv, StreamInv, IInv, TypeOK, NetTypeOK
  <1>14. StreamInv'
    BY <1>1, <1>13, UnderWayKept DEF StreamInv
  <1> QED BY <1>1, <1>12, <1>14, DataKept

LEMMA DataWorker ==
  ASSUME IInv, IInv', DataInv, NEW w \in Workers, WorkerPop(w) \/ WorkerPush(w)
  PROVE  DataInv'
  <1>1. UNCHANGED <<sent, wire, sock, write_buffers, inb, flight, pc, result, got>>
    BY DEF WorkerPop, WorkerPush, net, epoll, loop
  <1>2. ItemsInv'
    <2>1. CASE WorkerPop(w)
      <3>1. Head(work_queue) \in Going /\ Tail(work_queue) \in Seq(Going)
        BY <2>1, HeadTailProperties DEF WorkerPop, DataInv, ItemsInv
      <3> QED BY <1>1, <2>1, <3>1, UnderWayKept DEF WorkerPop, DataInv, ItemsInv
    <2>2. CASE WorkerPush(w)
      <3>1. busy[w] \in Going
        BY <2>2 DEF WorkerPush, DataInv, ItemsInv
      <3>2. results_queue' \in Seq(Going)
        BY <2>2, <3>1, AppendProperties DEF WorkerPush, DataInv, ItemsInv
      <3> QED BY <1>1, <2>2, <3>2, UnderWayKept DEF WorkerPush, DataInv, ItemsInv
    <2> QED BY <2>1, <2>2
  <1>3. StreamInv'
    BY <1>1, StreamKeeps DEF DataInv
  <1> QED BY <1>1, <1>2, <1>3, DataKept

LEMMA DataTryPop ==
  ASSUME IInv, IInv', DataInv, TryPop
  PROVE  DataInv'
  <1>1. /\ UNCHANGED <<sent, wire, sock, write_buffers, inb, flight, got, work_queue, busy>>
        /\ pc' = "count"
    BY DEF TryPop, net, epoll
  <1>2. Head(results_queue) \in Going /\ Tail(results_queue) \in Seq(Going)
    BY HeadTailProperties DEF TryPop, DataInv, ItemsInv
  <1>3. ItemsInv'
    BY <1>1, <1>2, UnderWayKept DEF TryPop, DataInv, ItemsInv
  <1>4. StreamInv'
    BY <1>1, StreamKeeps DEF DataInv
  <1> QED BY <1>1, <1>3, <1>4, DataKept

LEMMA DataCalm ==
  ASSUME IInv, IInv', DataInv,
         \/ UNCHANGED vars \/ EpollWait \/ Dispatch \/ AcceptAgain \/ AcceptThrows
         \/ ReadAgain \/ ResultsDone \/ Arm \/ Disarm
         \/ \E c \in Conns : Connect(c) \/ ClientRecv(c)
  PROVE  DataInv'
  <1>1. UNCHANGED <<sent, wire, sock, write_buffers, inb, flight, queues>>
    BY DEF vars, EpollWait, Dispatch, AcceptAgain, AcceptThrows, ReadAgain,
         ResultsDone, Arm, Disarm, Modify, Connect, ClientRecv, net, epoll
  <1>2. pc' \notin {"count", "body"} \/ UNCHANGED <<pc, result>>
    BY DEF vars, EpollWait, Dispatch, AcceptAgain, AcceptThrows, ReadAgain,
         ResultsDone, Arm, Disarm, ResultDone, EventDone, AfterEvents, Connect,
         ClientRecv, loop
  <1>3. UNCHANGED got \/ \E c : got' = [got EXCEPT ![c] = @ + 1]
    BY DEF vars, EpollWait, Dispatch, AcceptAgain, AcceptThrows, ReadAgain,
         ResultsDone, Arm, Disarm, Connect, ClientRecv, net
  <1>4. StreamInv' /\ ItemsInv'
    BY <1>1, <1>2, StreamKeeps, ItemsKeep DEF DataInv
  <1> QED BY <1>1, <1>2, <1>3, <1>4, DataKept
-----------------------------------------------------------------------------
(* Steps about one connection.  What is under way for the others stays so.  *)
LEMMA OthersWait ==
  ASSUME NEW c, UNCHANGED sock,
         \A d \in Conns : d # c => sent'[d] = sent[d] /\ wire'[d] = wire[d],
         \A f \in Fds : sock[f] # c => write_buffers'[f] = write_buffers[f]
  PROVE  \A d \in Conns : d # c => Waiting(d)' = Waiting(d) /\ NoRest(d)' = NoRest(d)
  <1> SUFFICES ASSUME NEW d \in Conns, d # c
               PROVE  Waiting(d)' = Waiting(d) /\ NoRest(d)' = NoRest(d)
    OBVIOUS
  <1>1. NoRest(d)' = NoRest(d)
    BY DEF NoRest
  <1> QED BY <1>1 DEF Waiting

(* Nothing is under way for c.                                              *)
Free(c) ==
  /\ inb[c] = <<>> /\ flight[c] = <<>>
  /\ \A i \in 1..Len(work_queue) : work_queue[i].q.conn # c
  /\ \A w \in Workers : busy[w] # Idle => busy[w].q.conn # c
  /\ \A i \in 1..Len(results_queue) : results_queue[i].q.conn # c

LEMMA FreeIfNotWaiting ==
  ASSUME DataInv, NEW c \in Conns, ~Waiting(c)
  PROVE  Free(c) /\ (pc = "count" => result.q.conn # c)
  <1>1. Fresh(c) = {}
    BY DEF Fresh
  <1>2. \A s \in Seq(Fresh(c)) : s = <<>>
    <2> TAKE s \in Seq(Fresh(c))
    <2>1. \A i \in 1..Len(s) : s[i] \in Fresh(c)
      OBVIOUS
    <2>2. Len(s) = 0
      BY <1>1, <2>1
    <2> QED BY <2>2
  <1>3. \A e \in Going : e.q.conn # c
    BY DEF Going, UnderWay
  <1>4. inb[c] = <<>> /\ flight[c] = <<>>
    BY <1>2 DEF DataInv, StreamInv
  <1>5. /\ \A i \in 1..Len(work_queue) : work_queue[i] \in Going
        /\ \A i \in 1..Len(results_queue) : results_queue[i] \in Going
        /\ \A w \in Workers : busy[w] # Idle => busy[w] \in Going
        /\ pc = "count" => result \in Going
    BY DEF DataInv, ItemsInv
  <1> QED BY <1>3, <1>4, <1>5 DEF Free

LEMMA FreeStep ==
  ASSUME IInv, DataInv, NEW c \in Conns, Free(c), UNCHANGED <<queues, sock, inb>>,
         \A d \in Conns : d # c => /\ Waiting(d) => Waiting(d)'
                                   /\ sent'[d] = sent[d] /\ flight'[d] = flight[d],
         flight'[c] \in Seq(Fresh(c)'),
         pc' = "count" => UNCHANGED <<pc, result>> /\ result.q.conn # c
  PROVE  StreamInv' /\ ItemsInv'
  <1>1. \A d \in Conns : d # c => Fresh(d) \subseteq Fresh(d)'
    BY DEF Fresh
  <1>2. \A e \in Going : e.q.conn # c => e \in Going'
    <2> SUFFICES ASSUME NEW e \in Going, e.q.conn # c PROVE e \in Going'
      OBVIOUS
    <2>1. e.q \in Asked /\ e.q.conn \in Conns
      BY AskedType DEF Going, UnderWay
    <2> QED BY <2>1 DEF Going, UnderWay
  <1>3. \A d \in Conns : inb'[d] \in Seq(Fresh(d)') /\ flight'[d] \in Seq(Fresh(d)')
    <2> TAKE d \in Conns
    <2>1. CASE d = c
      <3>1. <<>> \in Seq(Fresh(c)')
        OBVIOUS
      <3> QED BY <2>1, <3>1 DEF Free
    <2>2. CASE d # c
      <3>1. inb[d] \in Seq(Fresh(d)) /\ flight[d] \in Seq(Fresh(d))
        BY DEF DataInv, StreamInv
      <3>2. \A s \in Seq(Fresh(d)) : s \in Seq(Fresh(d)')
        BY <1>1, <2>2, SeqOf
      <3> QED BY <2>2, <3>1, <3>2
    <2> QED BY <2>1, <2>2
  <1>4. work_queue \in Seq(Going) /\ results_queue \in Seq(Going)
        /\ busy \in [Workers -> Going \cup {Idle}]
    BY DEF DataInv, ItemsInv
  <1>5. /\ \A i \in 1..Len(work_queue) : work_queue[i] \in Going'
        /\ \A i \in 1..Len(results_queue) : results_queue[i] \in Going'
    BY <1>2, <1>4 DEF Free
  <1>6. work_queue \in Seq(Going') /\ results_queue \in Seq(Going')
    BY <1>4, <1>5, SeqOf
  <1>7. busy \in [Workers -> Going' \cup {Idle}]
    BY <1>2, <1>4 DEF Free
  <1>8. pc' = "count" => result' \in Going'
    BY <1>2 DEF DataInv, ItemsInv
  <1> QED BY <1>3, <1>6, <1>7, <1>8 DEF StreamInv, ItemsInv, queues

(* A client that asks again has read all that it was sent.                  *)
LEMMA DataClientSend ==
  ASSUME Polite, IInv, IInv', DataInv, NEW c \in Conns, ClientSend(c)
  PROVE  DataInv'
  <1> DEFINE n == sent[c] + 1
             u == Units(QueryId(c, n), 1, QueryUnits)
  <1>1. /\ UNCHANGED <<inb, wire, got, sock, write_buffers, queues, pc, result>>
        /\ sent' = [sent EXCEPT ![c] = n]
        /\ flight' = [flight EXCEPT ![c] = flight[c] \o u]
        /\ sent[c] < (got[c] \div FrameUnits) + MaxOutstanding
        /\ sent[c] < QueriesPerConn
    BY DEF ClientSend, loop, epoll
  <1>2. /\ sent[c] \in Nat /\ got[c] \in Nat /\ Len(wire[c]) \in Nat
        /\ got[c] <= Len(wire[c]) /\ c # NoConn /\ n \in 1..QueriesPerConn
    BY <1>1, ConnFacts, ConstantsAssumption
  <1>3. Len(wire[c]) <= Frames(sent[c])
    BY DEF DataInv, WireInv
  <1>4. sent[c] <= got[c] \div FrameUnits
    <2>1. MaxOutstanding = 1 /\ got[c] \div FrameUnits \in Nat
      BY <1>2, QuotientBound DEF Polite
    <2> QED BY <1>1, <1>2, <2>1
  <1>5. Frames(sent[c]) <= got[c] /\ Frames(sent[c]) \in Nat
    BY <1>2, <1>4, QuotientBound, FramesGrow
  <1>6. Len(wire[c]) = Frames(sent[c]) /\ got[c] = Frames(sent[c])
    BY <1>2, <1>3, <1>5
  <1>7. n - 1 = sent[c] /\ n > 0 /\ sent'[c] = n /\ n \in Nat
        /\ \A d \in Conns : d # c => sent'[d] = sent[d] /\ flight'[d] = flight[d]
    <2>1. n - 1 = sent[c] /\ n > 0 /\ n \in Nat
      BY <1>2
    <2> HIDE DEF n, u
    <2>2. DOMAIN sent = Conns /\ DOMAIN flight = Conns
      BY DEF IInv, TypeOK, NetTypeOK
    <2> QED BY <1>1, <2>1, <2>2
  <1>8. ~Waiting(c)
    <2>1. CASE sent[c] > 0
      <3>1. /\ Frames(sent[c] - 1) \in Nat /\ HeaderUnits \in Nat \ {0}
            /\ BodyUnits \in Nat \ {0}
            /\ Frames(sent[c]) = Frames(sent[c] - 1) + HeaderUnits + BodyUnits
        BY <1>2, <2>1, FrameFacts
      <3>2. \A a \in Nat, h, b \in Nat \ {0} : a # a + h + b
        OBVIOUS
      <3>3. Len(wire[c]) # Frames(sent[c] - 1)
        BY <1>6, <3>1, <3>2
      <3> QED BY <3>3 DEF Waiting
    <2>2. CASE ~(sent[c] > 0)
      BY <2>2 DEF Waiting
    <2> QED BY <2>1, <2>2
  <1>9. Free(c) /\ (pc = "count" => result.q.conn # c)
    BY <1>8, FreeIfNotWaiting
  <1>10. NoRest(c)
    <2>1. \A f \in Fds : write_buffers[f] # <<>> /\ sock[f] = c =>
            Len(wire[c]) + Len(write_buffers[f]) = Frames(sent[c])
      BY DEF DataInv, LeftInv
    <2>2. \A f \in Fds : write_buffers[f] # <<>> => Len(write_buffers[f]) \in Nat \ {0}
      BY ConnFacts
    <2> QED BY <1>2, <1>6, <2>1, <2>2 DEF NoRest
  <1>11. Waiting(c)' /\ NoRest(c)'
    BY <1>1, <1>6, <1>7, <1>10 DEF Waiting, NoRest
  <1>12. \A i \in 1..Len(u) : u[i] = First(QueryId(c, n))
    <2>1. u \in Seq(Unit(c)) /\ Len(u) = 1
      <3>1. u \in Seq(Unit(c))
        BY <1>2, QueryType
      <3>2. QueryUnits = 1
        BY DEF Polite
      <3> QED BY <3>1, <3>2 DEF Units
    <2>2. \A i \in 1..Len(u) : i = 1
      BY <2>1
    <2>3. 1 + 1 - 1 = 1
      OBVIOUS
    <2>4. QueryUnits = 1
      BY DEF Polite
    <2>5. u[1] = [q |-> QueryId(c, n), k |-> 1 + 1 - 1]
      BY <2>4 DEF Units
    <2> QED BY <2>2, <2>3, <2>5 DEF First
  <1>13. u \in Seq(Unit(c))
    BY <1>2, QueryType
  <1> HIDE DEF u, n
  <1>14. u \in Seq(Fresh(c)')
    <2>1. \A i \in 1..Len(u) : u[i] \in Unit(c)
      BY <1>13
    <2>2. \A i \in 1..Len(u) : u[i] \in Fresh(c)'
      BY <1>7, <1>11, <1>12, <2>1 DEF Fresh, Unit
    <2> QED BY <1>13, <2>2, SeqOf
  <1>15. flight'[c] \in Seq(Fresh(c)')
    <2>1. flight[c] = <<>>
      BY <1>9 DEF Free
    <2>2. flight'[c] = <<>> \o u
      BY <1>1, <2>1 DEF IInv, TypeOK, NetTypeOK
    <2> QED BY <1>14, <2>2
  <1>16. \A d \in Conns : d # c => Waiting(d)' = Waiting(d) /\ NoRest(d)' = NoRest(d)
    BY <1>1, <1>7, OthersWait
  <1>17. StreamInv' /\ ItemsInv'
    BY <1>1, <1>7, <1>9, <1>15, <1>16, FreeStep
  <1>18. BodyInv'
    <2>1. pc = "body" => result.q.conn \in Conns /\ result.q.conn # c
      <3> SUFFICES ASSUME pc = "body", result.q.conn = c PROVE FALSE
        BY AskedType DEF DataInv, BodyInv
      <3>1. /\ result.q.n = sent[c] /\ result.q.n \in Nat /\ result.q.n > 0
            /\ Len(wire[c]) = Frames(sent[c] - 1) + HeaderUnits
        BY AskedType, ConstantsAssumption DEF DataInv, BodyInv
      <3>2. /\ Frames(sent[c]) = Frames(sent[c] - 1) + HeaderUnits + BodyUnits
            /\ Frames(sent[c] - 1) \in Nat /\ HeaderUnits \in Nat /\ BodyUnits \in Nat \ {0}
        BY <3>1, FrameFacts
      <3>3. \A a, h, b \in Nat : a + h = a + h + b => b = 0
        OBVIOUS
      <3> QED BY <1>6, <3>1, <3>2, <3>3
    <2> QED BY <1>1, <1>7, <1>16, <2>1 DEF DataInv, BodyInv
  <1>19. LeftInv'
    <2>1. \A f \in Fds : write_buffers[f] # <<>> => sock[f] \in Conns /\ sock[f] # c
      BY <1>10 DEF DataInv, LeftInv, NoRest
    <2>2. \A f \in Fds : write_buffers[f] # <<>> => sent'[sock[f]] = sent[sock[f]]
      BY <1>7, <2>1
    <2> QED BY <1>1, <2>2 DEF DataInv, LeftInv
  <1>20. WireInv'
    <2>1. Frames(n) \in Nat /\ Frames(sent[c]) <= Frames(n)
      BY <1>2, <1>7, FrameFacts
    <2>2. Len(wire[c]) <= Frames(n) /\ Frames(n - 1) <= got[c]
      BY <1>2, <1>5, <1>6, <1>7, <2>1
    <2> QED BY <1>1, <1>7, <2>2 DEF DataInv, WireInv
  <1> QED BY <1>17, <1>18, <1>19, <1>20 DEF DataInv

(* A descriptor that is not open has no remainder.                          *)
LEMMA DataAccept ==
  ASSUME IInv, DataInv, Accept
  PROVE  DataInv'
  <1>1. PICK f \in Fds : /\ sock[f] = NoConn
                         /\ sock' = [sock EXCEPT ![f] = Head(backlog)]
    BY DEF Accept, FreeFds
  <1>2. UNCHANGED <<sent, wire, got, inb, flight, write_buffers, queues, pc, result>>
    BY DEF Accept, loop
  <1>3. \A g \in Fds : g # f => sock'[g] = sock[g]
    BY <1>1 DEF IInv, TypeOK, LoopTypeOK
  <1>4. write_buffers[f] = <<>>
    BY <1>1, ConstantsAssumption DEF DataInv, LeftInv
  <1>5. \A c \in Conns : NoRest(c) => NoRest(c)'
    BY <1>2, <1>3, <1>4 DEF NoRest
  <1>6. \A c \in Conns : Waiting(c) => Waiting(c)'
    BY <1>2, <1>5 DEF Waiting
  <1>7. Going \subseteq Going'
    <2> SUFFICES ASSUME NEW e \in Going PROVE e \in Going'
      OBVIOUS
    <2>1. e \in Items /\ e.fd \in Fds /\ UnderWay(e.q) /\ sock[e.fd] = e.q.conn
      BY DEF Going, Items
    <2>2. e.q.conn \in Conns
      BY <2>1, AskedType DEF UnderWay
    <2>3. sock'[e.fd] = sock[e.fd]
      BY <1>1, <1>3, <2>1, <2>2, ConstantsAssumption
    <2> QED BY <1>2, <1>6, <2>1, <2>2, <2>3 DEF Going, UnderWay
  <1>8. \A c \in Conns : Fresh(c) \subseteq Fresh(c)'
    BY <1>2, <1>6 DEF Fresh
  <1>9. StreamInv'
    <2>1. \A c \in Conns : \A s \in Seq(Fresh(c)) : s \in Seq(Fresh(c)')
      BY <1>8, SeqOf
    <2> QED BY <1>2, <2>1 DEF DataInv, StreamInv
  <1>10. ItemsInv'
    <2>1. \A s \in Seq(Going) : s \in Seq(Going')
      BY <1>7, SeqOf
    <2>2. busy \in [Workers -> Going' \cup {Idle}]
      BY <1>7 DEF DataInv, ItemsInv
    <2> QED BY <1>2, <1>7, <2>1, <2>2 DEF DataInv, ItemsInv, queues
  <1>11. BodyInv'
    <2> SUFFICES ASSUME pc = "body" PROVE BodyInv'
      BY <1>2 DEF BodyInv
    <2>1. /\ result.fd \in Fds /\ result.q \in Asked /\ result.q.conn \in Conns
          /\ sock[result.fd] = result.q.conn
      BY ServedConn, AskedType DEF DataInv, BodyInv
    <2>2. sock'[result.fd] = sock[result.fd]
      BY <1>1, <1>3, <2>1, ConstantsAssumption
    <2> DEFINE c == result.q.conn
    <2>3. /\ result.q.n = sent[c] /\ NoRest(c)
          /\ Len(wire[c]) = Frames(sent[c] - 1) + HeaderUnits
      BY DEF DataInv, BodyInv
    <2>4. NoRest(c)' /\ sent'[c] = sent[c] /\ wire'[c] = wire[c] /\ result' = result
      BY <1>2, <1>5, <2>1, <2>3
    <2> HIDE DEF c
    <2> QED BY <2>1, <2>2, <2>3, <2>4 DEF BodyInv, c
  <1>12. LeftInv'
    <2>1. \A g \in Fds : write_buffers[g] # <<>> => sock'[g] = sock[g]
      BY <1>3, <1>4
    <2> QED BY <1>2, <2>1 DEF DataInv, LeftInv
  <1>13. WireInv'
    BY <1>2 DEF DataInv, WireInv
  <1> QED BY <1>9, <1>10, <1>11, <1>12, <1>13 DEF DataInv

(* send(): what joins the stream of c, and what is left.                    *)
LEMMA PutWire ==
  ASSUME IInv, WireInv, NEW c \in Conns, NEW s \in Seq(ReplyUnit), Put(c, s),
         UNCHANGED <<sent, got>>,
         \A i \in 1..Len(s) : s[i] = ReplyAt(c, Len(wire[c]) + i),
         Len(wire[c]) + Len(s) <= Frames(sent[c])
  PROVE  /\ WireInv'
         /\ \A d \in Conns : d # c => wire'[d] = wire[d]
         /\ Left(c, s) \in Seq(ReplyUnit)
         /\ Len(wire'[c]) + Len(Left(c, s)) = Len(wire[c]) + Len(s)
         /\ \A i \in 1..Len(Left(c, s)) :
              Left(c, s)[i] = ReplyAt(c, Len(wire'[c]) + i)
         /\ Left(c, s) # <<>> => Space(c)' = 0
         /\ Len(s) <= Space(c) => Left(c, s) = <<>>
  <1> DEFINE k == Lesser(Space(c), Len(s))
             t == SubSeq(s, 1, k)
             r == Left(c, s)
  <1>1. /\ Space(c) \in Nat /\ Len(s) \in Nat /\ wire[c] \in Seq(ReplyUnit)
        /\ Len(wire[c]) \in Nat /\ got[c] \in Nat /\ sent[c] \in Nat
        /\ Space(c) = SendCap - (Len(wire[c]) - got[c]) /\ SendCap \in Nat
        /\ Frames(sent[c]) \in Nat
    <2>1. Len(s) \in Nat /\ SendCap \in Nat
      BY ConstantsAssumption
    <2>2. /\ Space(c) \in Nat /\ wire[c] \in Seq(ReplyUnit)
          /\ Len(wire[c]) \in Nat /\ got[c] \in Nat /\ sent[c] \in Nat
          /\ Space(c) = SendCap - (Len(wire[c]) - got[c])
      BY ConnFacts
    <2>3. Frames(sent[c]) \in Nat
      BY <2>2, FramesGrow
    <2> QED BY <2>1, <2>2, <2>3
  <1>2. /\ k \in Nat /\ k <= Len(s) /\ k <= Space(c)
        /\ k # Len(s) => k = Space(c)
        /\ Len(s) <= Space(c) => k = Len(s)
    BY <1>1 DEF Lesser
  <1>3. wire' = [wire EXCEPT ![c] = wire[c] \o t] /\ r = SubSeq(s, k + 1, Len(s))
    BY DEF Put, Left, Drop
  <1> HIDE DEF k
  <1>4. /\ t \in Seq(ReplyUnit) /\ Len(t) = k
        /\ \A i \in 1..k : t[i] = s[i]
    BY <1>1, <1>2, SubSeqProperties
  <1>5. /\ r \in Seq(ReplyUnit) /\ Len(r) = Len(s) - k
        /\ \A i \in 1..(Len(s) - k) : r[i] = s[k + i]
    BY <1>1, <1>2, <1>3, SubSeqProperties
  <1> HIDE DEF t, r
  <1>6. /\ \A d \in Conns : wire'[d] = IF d = c THEN wire[c] \o t ELSE wire[d]
    BY <1>3 DEF IInv, TypeOK, NetTypeOK
  <1>7. /\ Len(wire'[c]) = Len(wire[c]) + k
        /\ \A i \in 1..Len(wire[c]) : wire'[c][i] = wire[c][i]
        /\ \A i \in (Len(wire[c]) + 1)..(Len(wire[c]) + k) :
             wire'[c][i] = t[i - Len(wire[c])] /\ i - Len(wire[c]) \in 1..k
    <2>1. wire'[c] = wire[c] \o t
      BY <1>6
    <2>2. /\ Len(wire[c] \o t) = Len(wire[c]) + Len(t)
          /\ \A i \in 1..Len(wire[c]) : (wire[c] \o t)[i] = wire[c][i]
          /\ \A i \in (Len(wire[c]) + 1)..(Len(wire[c]) + Len(t)) :
               (wire[c] \o t)[i] = t[i - Len(wire[c])]
      <3>1. \A a, b \in Seq(ReplyUnit) :
              /\ Len(a \o b) = Len(a) + Len(b)
              /\ \A i \in 1..Len(a) : (a \o b)[i] = a[i]
              /\ \A i \in (Len(a) + 1)..(Len(a) + Len(b)) : (a \o b)[i] = b[i - Len(a)]
        BY ConcatProperties
      <3> QED BY <1>1, <1>4, <3>1
    <2>3. \A i \in (Len(wire[c]) + 1)..(Len(wire[c]) + k) : i - Len(wire[c]) \in 1..k
      BY <1>1, <1>2
    <2> QED BY <1>4, <2>1, <2>2, <2>3
  <1>8. WireInv'
    <2>1. \A i \in 1..Len(wire'[c]) : wire'[c][i] = ReplyAt(c, i)
      <3> TAKE i \in 1..Len(wire'[c])
      <3>1. CASE i \in 1..Len(wire[c])
        BY <1>7, <3>1 DEF WireInv
      <3>2. CASE i \in (Len(wire[c]) + 1)..(Len(wire[c]) + k)
        <4> DEFINE j == i - Len(wire[c])
        <4>1. j \in 1..k /\ j \in 1..Len(s) /\ Len(wire[c]) + j = i
          BY <1>1, <1>2, <3>2
        <4>2. wire'[c][i] = s[j]
          BY <1>4, <1>7, <3>2, <4>1
        <4> HIDE DEF j
        <4>3. s[j] = ReplyAt(c, Len(wire[c]) + j)
          BY <4>1
        <4> QED BY <4>1, <4>2, <4>3
      <3> QED BY <1>1, <1>2, <1>7, <3>1, <3>2
    <2>2. Len(wire'[c]) <= Frames(sent[c])
      BY <1>1, <1>2, <1>7
    <2> QED BY <1>6, <2>1, <2>2 DEF WireInv
  <1>9. Len(wire'[c]) + Len(r) = Len(wire[c]) + Len(s)
    BY <1>1, <1>2, <1>5, <1>7
  <1>10. \A i \in 1..Len(r) : r[i] = ReplyAt(c, Len(wire'[c]) + i)
    <2> TAKE i \in 1..Len(r)
    <2>1. i \in 1..(Len(s) - k) /\ k + i \in 1..Len(s) /\ r[i] = s[k + i]
      BY <1>1, <1>2, <1>5
    <2>2. Len(wire[c]) + (k + i) = Len(wire'[c]) + i
      <3>1. i \in Nat
        BY <1>5
      <3>2. \A a \in Nat : a + (k + i) = (a + k) + i
        BY <1>2, <3>1
      <3> QED BY <1>1, <1>7, <3>2
    <2>3. s[k + i] = ReplyAt(c, Len(wire[c]) + (k + i))
      BY <2>1
    <2> QED BY <2>1, <2>2, <2>3
  <1>11. r # <<>> => Space(c)' = 0
    <2>1. r # <<>> => k # Len(s)
      BY <1>1, <1>5
    <2>2. Space(c)' = SendCap - (Len(wire'[c]) - got[c])
      BY DEF Space
    <2> QED BY <1>1, <1>2, <1>7, <2>1, <2>2
  <1>12. Len(s) <= Space(c) => r = <<>>
    BY <1>1, <1>2, <1>5
  <1> QED BY <1>5, <1>6, <1>8, <1>9, <1>10, <1>11, <1>12 DEF r

LEMMA ReplyParts ==
  ASSUME NEW c \in Conns, NEW n \in 1..QueriesPerConn
  PROVE  LET q == QueryId(c, n)
             h == Header(q)
             b == Body(q)
         IN  /\ h \in Seq(ReplyUnit) /\ Len(h) = HeaderUnits
             /\ \A i \in 1..Len(h) : h[i] = ReplyAt(c, Frames(n - 1) + i)
             /\ b \in Seq(ReplyUnit) /\ Len(b) = BodyUnits
             /\ \A i \in 1..Len(b) :
                  b[i] = ReplyAt(c, (Frames(n - 1) + HeaderUnits) + i)
  <1> DEFINE q == QueryId(c, n)
             h == Header(q)
             b == Body(q)
  <1>1. /\ HeaderUnits \in Nat \ {0} /\ BodyUnits \in Nat \ {0} /\ n \in Nat /\ n > 0
        /\ FrameUnits = HeaderUnits + BodyUnits /\ Frames(n - 1) \in Nat
    BY FrameFacts, ConstantsAssumption DEF FrameUnits
  <1>2. q \in Queries
    BY DEF Queries
  <1>3. h \in Seq(ReplyUnit) /\ b \in Seq(ReplyUnit)
    BY <1>2, ReplyTypes
  <1> HIDE DEF q
  <1>4. /\ HeaderUnits \in Nat /\ 1 <= HeaderUnits + 1
        /\ (HeaderUnits + 1) - 1 = HeaderUnits
        /\ HeaderUnits + 1 \in Nat /\ FrameUnits \in Nat
        /\ HeaderUnits + 1 <= FrameUnits + 1
        /\ (FrameUnits + 1) - (HeaderUnits + 1) = BodyUnits
    BY <1>1
  <1>5. Len(h) = HeaderUnits /\ Len(b) = BodyUnits
    BY <1>1, <1>4 DEF Header, Body, Units
  <1>6. h[1] \in [q : {q}, k : Nat]
    BY <1>1 DEF Header, Units
  <1>7. \A i \in 1..Len(h) : h[i] = [q |-> q, k |-> i]
    <2> TAKE i \in 1..Len(h)
    <2>1. h[i].q = q /\ h[i].k = 1 + (i - 1) /\ h[i] \in ReplyUnit
      BY <1>3, <1>4, UnitsAt DEF Header
    <2>2. 1 + (i - 1) = i
      BY <1>3
    <2> HIDE DEF h
    <2> QED BY <2>1, <2>2 DEF ReplyUnit
  <1>8. \A i \in 1..Len(b) : b[i] = [q |-> q, k |-> HeaderUnits + i]
    <2> TAKE i \in 1..Len(b)
    <2>1. b[i].q = q /\ b[i].k = (HeaderUnits + 1) + (i - 1) /\ b[i] \in ReplyUnit
      BY <1>3, <1>4, UnitsAt DEF Body
    <2>2. (HeaderUnits + 1) + (i - 1) = HeaderUnits + i
      BY <1>3, <1>4
    <2> HIDE DEF b
    <2> QED BY <2>1, <2>2 DEF ReplyUnit
  <1>9. \A i \in 1..Len(h) : i \in 1..FrameUnits
    BY <1>1, <1>5
  <1>10. \A i \in 1..Len(b) :
           /\ HeaderUnits + i \in 1..FrameUnits
           /\ (Frames(n - 1) + HeaderUnits) + i = Frames(n - 1) + (HeaderUnits + i)
    BY <1>1, <1>5
  <1> HIDE DEF h, b
  <1>11. ASSUME NEW i \in 1..Len(h)
         PROVE  h[i] = ReplyAt(c, Frames(n - 1) + i)
    <2>1. i \in 1..FrameUnits
      BY <1>9
    <2>2. ReplyAt(c, Frames(n - 1) + i) = [q |-> QueryId(c, n), k |-> i]
      BY <1>1, <2>1, ReplyUnits
    <2> QED BY <1>7, <2>2 DEF q
  <1>12. ASSUME NEW i \in 1..Len(b)
         PROVE  b[i] = ReplyAt(c, (Frames(n - 1) + HeaderUnits) + i)
    <2> DEFINE p == HeaderUnits + i
    <2>1. p \in 1..FrameUnits /\ (Frames(n - 1) + HeaderUnits) + i = Frames(n - 1) + p
      BY <1>10
    <2>2. b[i] = [q |-> q, k |-> p]
      BY <1>8
    <2> HIDE DEF p
    <2>3. ReplyAt(c, Frames(n - 1) + p) = [q |-> QueryId(c, n), k |-> p]
      BY <1>1, <2>1, ReplyUnits
    <2> QED BY <2>1, <2>2, <2>3 DEF q
  <1> QED BY <1>3, <1>5, <1>11, <1>12 DEF h, b, q

(* When the reply to a query is sent, the query is nowhere else.            *)
LEMMA FreeIfSending ==
  ASSUME DataInv, NEW q \in Asked, Once(q), Sending(q), q.n = sent[q.conn]
  PROVE  Free(q.conn)
  <1> DEFINE c == q.conn
  <1>1. c \in Conns /\ q = QueryId(c, sent[c])
    BY AskedType
  <1>2. ~InStream(q) /\ ~InWork(q) /\ ~Computed(q) /\ ~InResults(q)
    BY DEF Once, Apart, Taken
  <1>3. \A e \in Going : e.q.conn = c => e.q = q
    <2> SUFFICES ASSUME NEW e \in Going, e.q.conn = c PROVE e.q = q
      OBVIOUS
    <2>1. e.q \in Asked /\ e.q.n = sent[c]
      BY DEF Going, UnderWay
    <2> QED BY <1>1, <2>1, AskedType
  <1>4. \A s \in Seq(Fresh(c)) : s # <<>> => Has(s, First(q))
    <2> SUFFICES ASSUME NEW s \in Seq(Fresh(c)), s # <<>> PROVE Has(s, First(q))
      OBVIOUS
    <2>1. 1 \in 1..Len(s) /\ s[1] \in Fresh(c)
      OBVIOUS
    <2> QED BY <1>1, <2>1 DEF Has, Fresh
  <1>5. inb[c] = <<>> /\ flight[c] = <<>>
    BY <1>1, <1>2, <1>4 DEF DataInv, StreamInv, InStream
  <1>6. /\ \A i \in 1..Len(work_queue) : work_queue[i].q.conn # c
        /\ \A i \in 1..Len(results_queue) : results_queue[i].q.conn # c
    <2>1. /\ \A i \in 1..Len(work_queue) : work_queue[i] \in Going
          /\ \A i \in 1..Len(results_queue) : results_queue[i] \in Going
      BY DEF DataInv, ItemsInv
    <2> QED BY <1>2, <1>3, <2>1 DEF InWork, InResults, HasItem
  <1>7. \A w \in Workers : busy[w] # Idle => busy[w].q.conn # c
    <2>1. \A w \in Workers : busy[w] # Idle => busy[w] \in Going
      BY DEF DataInv, ItemsInv
    <2> QED BY <1>2, <1>3, <2>1 DEF Computed
  <1> QED BY <1>5, <1>6, <1>7 DEF Free

LEMMA DataSendCount ==
  ASSUME Polite, IInv, IInv', PoliteInv, DataInv, OnceInv, SendCount
  PROVE  DataInv'
  <1> DEFINE c == result.q.conn
             n == sent[c]
             s == Header(result.q)
  <1>1. /\ result.q \in Asked /\ sock[result.fd] = c /\ c \in Conns
        /\ HeaderUnits <= Space(c) /\ pc = "count"
    BY RoomForReply DEF SendCount
  <1>2. result.q.n = n /\ Waiting(c)
    BY <1>1 DEF DataInv, ItemsInv, Going, UnderWay
  <1>3. result.q = QueryId(c, n) /\ n \in 1..QueriesPerConn
    BY <1>1, <1>2, AskedType
  <1>4. /\ s \in Seq(ReplyUnit) /\ Len(s) = HeaderUnits
        /\ \A i \in 1..Len(s) : s[i] = ReplyAt(c, Frames(n - 1) + i)
    BY <1>1, <1>3, ReplyParts
  <1>5. Len(wire[c]) = Frames(n - 1)
    BY <1>2 DEF Waiting
  <1>6. /\ Put(c, s) /\ pc' = "body"
        /\ UNCHANGED <<sent, got, inb, flight, sock, write_buffers, queues, result>>
    BY <1>1 DEF SendCount, epoll
  <1>7. Free(c)
    <2>1. Once(result.q) /\ Sending(result.q)
      BY <1>1 DEF OnceInv, Sending
    <2> QED BY <1>1, <1>2, <2>1, FreeIfSending
  <1>8. /\ Frames(n) = Frames(n - 1) + HeaderUnits + BodyUnits
        /\ Frames(n - 1) \in Nat /\ HeaderUnits \in Nat \ {0} /\ BodyUnits \in Nat \ {0}
    BY <1>3, FrameFacts
  <1> HIDE DEF s, n
  <1>9. Len(wire[c]) + Len(s) <= Frames(n)
    BY <1>4, <1>5, <1>8
  <1>10. /\ WireInv' /\ \A d \in Conns : d # c => wire'[d] = wire[d]
         /\ Len(wire'[c]) + Len(Left(c, s)) = Frames(n - 1) + HeaderUnits
         /\ Left(c, s) = <<>>
    BY <1>1, <1>4, <1>5, <1>6, <1>9, PutWire DEF DataInv, n
  <1>11. Len(wire'[c]) = Frames(n - 1) + HeaderUnits
    <2>1. Len(wire'[c]) \in Nat /\ Len(Left(c, s)) = 0
      BY <1>1, <1>10 DEF IInv, TypeOK, NetTypeOK
    <2> QED BY <1>10, <2>1
  <1>12. \A d \in Conns : d # c => Waiting(d)' = Waiting(d) /\ NoRest(d)' = NoRest(d)
    BY <1>6, <1>10, OthersWait
  <1>13. StreamInv' /\ ItemsInv'
    <2>1. flight'[c] \in Seq(Fresh(c)')
      <3>1. <<>> \in Seq(Fresh(c)')
        OBVIOUS
      <3> QED BY <1>6, <1>7, <3>1 DEF Free
    <2> QED BY <1>1, <1>6, <1>7, <1>12, <2>1, FreeStep
  <1>14. NoRest(c) /\ NoRest(c)'
    BY <1>2, <1>6 DEF Waiting, NoRest
  <1>15. BodyInv'
    BY <1>1, <1>2, <1>6, <1>11, <1>14 DEF BodyInv, n
  <1>16. LeftInv'
    <2>1. \A f \in Fds : write_buffers[f] # <<>> =>
            sock[f] \in Conns /\ wire'[sock[f]] = wire[sock[f]]
      BY <1>10, <1>14 DEF DataInv, LeftInv, NoRest
    <2> QED BY <1>6, <2>1 DEF DataInv, LeftInv
  <1> QED BY <1>10, <1>13, <1>15, <1>16 DEF DataInv

(* The room for c after a step, c being a value of the state before it.     *)
SpaceAfter(c) == SendCap - (Len(wire'[c]) - got'[c])

(* A step that sends the last part of the reply to c: what is left of it is *)
(* the remainder of the descriptor of c.                                    *)
PutsRest(c, f, s) ==
  /\ sock[f] = c /\ ~Waiting(c) /\ Put(c, s)
  /\ Len(wire[c]) + Len(s) = Frames(sent[c])
  /\ \A i \in 1..Len(s) : s[i] = ReplyAt(c, Len(wire[c]) + i)
  /\ \A g \in Fds : write_buffers'[g] = IF g = f THEN Left(c, s) ELSE write_buffers[g]
  /\ UNCHANGED <<sent, got, inb, flight, sock, queues>>
  /\ pc' \notin {"count", "body"}

LEMMA DataPutRest ==
  ASSUME IInv, ConnsInv, DataInv, NEW c \in Conns, NEW f \in Fds,
         NEW s \in Seq(ReplyUnit), PutsRest(c, f, s)
  PROVE  /\ DataInv' /\ (Left(c, s) # <<>> => SpaceAfter(c) = 0)
         /\ \A d \in Conns : d # c => wire'[d] = wire[d]
  <1> USE DEF PutsRest
  <1>1. Frames(sent[c]) \in Nat
    BY ConnFacts, FramesGrow
  <1>2. /\ WireInv'
        /\ \A d \in Conns : d # c => wire'[d] = wire[d]
        /\ Len(wire'[c]) + Len(Left(c, s)) = Len(wire[c]) + Len(s)
        /\ \A i \in 1..Len(Left(c, s)) :
              Left(c, s)[i] = ReplyAt(c, Len(wire'[c]) + i)
        /\ Left(c, s) # <<>> => SpaceAfter(c) = 0
    <2>1. Len(wire[c]) + Len(s) <= Frames(sent[c])
      BY <1>1
    <2> QED BY <2>1, PutWire DEF DataInv, Space, SpaceAfter
  <1>3. \A g \in Fds : sock[g] = c => g = f
    BY ConstantsAssumption DEF ConnsInv
  <1>4. \A d \in Conns : d # c => Waiting(d)' = Waiting(d)
    <2> SUFFICES ASSUME NEW d \in Conns, d # c PROVE Waiting(d)' = Waiting(d)
      OBVIOUS
    <2>1. NoRest(d)' = NoRest(d)
      BY DEF NoRest
    <2> QED BY <1>2, <2>1 DEF Waiting
  <1>5. Free(c)
    BY FreeIfNotWaiting
  <1>6. StreamInv' /\ ItemsInv'
    <2>1. flight'[c] \in Seq(Fresh(c)')
      <3>1. <<>> \in Seq(Fresh(c)')
        OBVIOUS
      <3> QED BY <1>5, <3>1 DEF Free
    <2> QED BY <1>4, <1>5, <2>1, FreeStep
  <1>7. BodyInv'
    BY DEF BodyInv
  <1>8. LeftInv'
    <2> SUFFICES ASSUME NEW g \in Fds, write_buffers'[g] # <<>>
                 PROVE  LET d == sock'[g] IN
                          /\ d \in Conns
                          /\ Len(wire'[d]) + Len(write_buffers'[g]) = Frames(sent'[d])
                          /\ \A i \in 1..Len(write_buffers'[g]) :
                               write_buffers'[g][i] = ReplyAt(d, Len(wire'[d]) + i)
      BY DEF LeftInv, ReplyAt
    <2>1. CASE g = f
      <3>1. write_buffers'[g] = Left(c, s) /\ sock'[g] = c /\ sent'[c] = sent[c]
        BY <2>1
      <3> QED BY <1>2, <3>1
    <2>2. CASE g # f
      <3>1. write_buffers'[g] = write_buffers[g] /\ sock'[g] = sock[g]
        BY <2>2
      <3>2. sock[g] \in Conns /\ sock[g] # c
        BY <1>3, <2>2, <3>1 DEF DataInv, LeftInv
      <3>3. wire'[sock[g]] = wire[sock[g]] /\ sent'[sock[g]] = sent[sock[g]]
        BY <1>2, <3>2
      <3> QED BY <3>1, <3>2, <3>3 DEF DataInv, LeftInv
    <2> QED BY <2>1, <2>2
  <1> QED BY <1>2, <1>6, <1>7, <1>8 DEF DataInv

LEMMA DataSendBody ==
  ASSUME Polite, IInv, PoliteInv, SendBody \/ SendPartOfBody
  PROVE  LET c == result.q.conn
             b == Body(result.q)
         IN  /\ DataInv' /\ c \in Conns /\ sock[result.fd] = c /\ result.fd \in Fds
             /\ (Left(c, b) # <<>> => SpaceAfter(c) = 0)
             /\ \A d \in Conns : d # c => wire'[d] = wire[d]
  <1> DEFINE c == result.q.conn
             n == sent[c]
             b == Body(result.q)
  <1>1. /\ result.q \in Asked /\ sock[result.fd] = c /\ c \in Conns
        /\ result.fd \in Fds /\ pc = "body"
    BY RoomForReply DEF SendBody, SendPartOfBody
  <1>2. /\ result.q.n = n /\ NoRest(c) /\ Len(wire[c]) = Frames(n - 1) + HeaderUnits
    BY <1>1 DEF PoliteInv, BodyInv
  <1>3. result.q = QueryId(c, n) /\ n \in 1..QueriesPerConn
    BY <1>1, <1>2, AskedType
  <1>4. /\ b \in Seq(ReplyUnit) /\ Len(b) = BodyUnits
        /\ \A i \in 1..Len(b) : b[i] = ReplyAt(c, Len(wire[c]) + i)
    BY <1>1, <1>2, <1>3, ReplyParts
  <1>5. /\ Frames(n) = Frames(n - 1) + HeaderUnits + BodyUnits
        /\ Frames(n - 1) \in Nat /\ HeaderUnits \in Nat \ {0} /\ BodyUnits \in Nat \ {0}
    BY <1>3, FrameFacts
  <1>6. Len(wire[c]) + Len(b) = Frames(n)
    BY <1>2, <1>4, <1>5
  <1>7. ~Waiting(c)
    BY <1>2, <1>5 DEF Waiting
  <1>8. /\ Put(c, b) /\ pc' \notin {"count", "body"}
        /\ UNCHANGED <<sent, got, inb, flight, sock, queues>>
    BY <1>1 DEF SendBody, SendPartOfBody, ResultDone, epoll
  <1>9. \A g \in Fds : write_buffers'[g] =
                         IF g = result.fd THEN Left(c, b) ELSE write_buffers[g]
    <2>1. CASE SendBody
      BY <1>1, <1>2, <2>1 DEF SendBody, NoRest
    <2>2. CASE SendPartOfBody
      BY <1>1, <2>2 DEF SendPartOfBody, IInv, TypeOK, LoopTypeOK
    <2> QED BY <2>1, <2>2
  <1>10. ConnsInv /\ DataInv
    BY DEF PoliteInv, DataInv
  <1>11. Len(wire[c]) + Len(b) = Frames(sent[c])
    BY <1>6
  <1> HIDE DEF b, c, n
  <1>12. PutsRest(c, result.fd, b)
    BY <1>1, <1>4, <1>7, <1>8, <1>9, <1>11 DEF PutsRest
  <1>13. /\ DataInv' /\ (Left(c, b) # <<>> => SpaceAfter(c) = 0)
         /\ \A d \in Conns : d # c => wire'[d] = wire[d]
    BY <1>1, <1>4, <1>10, <1>12, DataPutRest
  <1> QED BY <1>1, <1>13 DEF b, c

LEMMA DataWriteRest ==
  ASSUME Polite, IInv, PoliteInv, WriteRest
  PROVE  LET c == sock[cur]
             s == write_buffers[cur]
         IN  /\ DataInv' /\ c \in Conns /\ cur \in Fds /\ s # <<>>
             /\ write_buffers' = [write_buffers EXCEPT ![cur] = Left(c, s)]
             /\ (Left(c, s) # <<>> => SpaceAfter(c) = 0 /\ EventDone)
             /\ (Left(c, s) = <<>> => pc' = "disarm" /\ cur' = cur)
             /\ \A d \in Conns : d # c => wire'[d] = wire[d]
  <1> DEFINE c == sock[cur]
             s == write_buffers[cur]
  <1>1. pc = "write" /\ c \in Conns /\ cur \in Fds /\ s \in Seq(ReplyUnit)
    BY ServedConn DEF WriteRest
  <1>2. s # <<>>
    BY <1>1 DEF IInv, ControlInv, WriteBufferFound
  <1>3. /\ Put(c, s) /\ write_buffers' = [write_buffers EXCEPT ![cur] = Left(c, s)]
        /\ IF Left(c, s) = <<>> THEN pc' = "disarm" /\ UNCHANGED cur ELSE EventDone
        /\ UNCHANGED <<sent, got, inb, flight, sock, queues>>
    BY <1>2 DEF WriteRest, epoll
  <1>4. /\ Len(wire[c]) + Len(s) = Frames(sent[c])
        /\ \A i \in 1..Len(s) : s[i] = ReplyAt(c, Len(wire[c]) + i)
    BY <1>1, <1>2 DEF PoliteInv, LeftInv
  <1>5. ~Waiting(c)
    BY <1>1, <1>2 DEF Waiting, NoRest
  <1>6. \A g \in Fds : write_buffers'[g] = IF g = cur THEN Left(c, s) ELSE write_buffers[g]
    BY <1>1, <1>3 DEF IInv, TypeOK, LoopTypeOK
  <1>7. pc' \notin {"count", "body"}
    BY <1>3 DEF EventDone, AfterEvents
  <1>8. ConnsInv /\ DataInv
    BY DEF PoliteInv, DataInv
  <1> HIDE DEF c, s
  <1>9. PutsRest(c, cur, s)
    BY <1>3, <1>4, <1>5, <1>6, <1>7 DEF PutsRest, c
  <1>10. /\ DataInv' /\ (Left(c, s) # <<>> => SpaceAfter(c) = 0)
         /\ \A d \in Conns : d # c => wire'[d] = wire[d]
    BY <1>1, <1>8, <1>9, DataPutRest
  <1> QED BY <1>1, <1>2, <1>3, <1>10 DEF c, s
-----------------------------------------------------------------------------
(* Edges of writable descriptors.                                           *)
EdgesInv == OutEdgeInv /\ RoomInv

LEMMA EdgesFrame ==
  ASSUME EdgesInv, UNCHANGED <<wire, got, sock, interest, write_buffers, batch>>,
         ready \subseteq ready',
         \/ UNCHANGED <<pc, cur, result>>
         \/ pc \notin {"write", "arm", "disarm"} /\ pc' \notin {"write", "arm", "disarm"}
  PROVE  EdgesInv'
  <1>1. OutEdgeInv'
    BY DEF EdgesInv, OutEdgeInv, Space, Writing, Arming
  <1>2. RoomInv'
    BY DEF EdgesInv, RoomInv, Space
  <1> QED BY <1>1, <1>2 DEF EdgesInv

LEMMA EdgesClientRecv ==
  ASSUME IInv, DataInv, EdgesInv, NEW c \in Conns, ClientRecv(c)
  PROVE  EdgesInv'
  <1>1. /\ UNCHANGED <<wire, sock, interest, write_buffers, batch, pc, cur, result>>
        /\ got' = [got EXCEPT ![c] = got[c] + 1]
        /\ ready' = IF Space(c) = 0
                      THEN ready \cup {f \in FdsOf(c) : interest[f] = "inout_et"}
                      ELSE ready
    BY DEF ClientRecv, loop
  <1>2. /\ \A d \in Conns : d # c => got'[d] = got[d]
        /\ got'[c] = got[c] + 1
    BY <1>1 DEF IInv, TypeOK, NetTypeOK
  <1>3. \A d \in Conns : d # c => Space(d)' = Space(d)
    BY <1>1, <1>2 DEF Space
  <1>4. Space(c)' = Space(c) + 1
    <2>1. got[c] \in Nat /\ Len(wire[c]) \in Nat /\ SendCap \in Nat
      BY ConnFacts, ConstantsAssumption
    <2> QED BY <1>1, <1>2, <2>1 DEF Space
  <1>5. \A d \in Conns : Space(d) \in Nat
    BY ConnFacts
  <1>6. \A d \in Conns : Space(d) > 0 => Space(d)' > 0
    BY <1>3, <1>4, <1>5
  <1>7. OutEdgeInv'
    <2> SUFFICES ASSUME NEW f \in Fds, write_buffers[f] # <<>>
                 PROVE  /\ interest[f] = "inout_et" \/ Arming(f)
                        /\ Space(sock[f])' > 0 =>
                             \/ f \in ready'
                             \/ [fd |-> f, conn |-> sock[f], ev |-> {"out"}] \in batch
                             \/ Writing(f) \/ Arming(f)
      BY <1>1 DEF OutEdgeInv, Writing, Arming
    <2>1. interest[f] = "inout_et" \/ Arming(f)
      BY DEF EdgesInv, OutEdgeInv
    <2>2. sock[f] \in Conns
      BY DEF DataInv, LeftInv
    <2>3. CASE Space(sock[f]) > 0
      <3>1. \/ f \in ready
            \/ [fd |-> f, conn |-> sock[f], ev |-> {"out"}] \in batch
            \/ Writing(f) \/ Arming(f)
        BY <2>3 DEF EdgesInv, OutEdgeInv
      <3> QED BY <1>1, <2>1, <3>1
    <2>4. CASE ~(Space(sock[f]) > 0)
      <3>1. Space(sock[f]) = 0
        BY <1>5, <2>2, <2>4
      <3>2. CASE sock[f] = c
        BY <1>1, <2>1, <3>1, <3>2 DEF FdsOf
      <3>3. CASE sock[f] # c
        <4>1. Space(sock[f])' = Space(sock[f])
          BY <1>1, <1>3, <2>2, <3>3
        <4> QED BY <2>1, <2>4, <4>1
      <3> QED BY <3>2, <3>3
    <2> QED BY <2>3, <2>4
  <1>8. RoomInv'
    <2>1. \A e \in batch : "out" \in e.ev => Space(e.conn)' > 0
      BY <1>1, <1>6 DEF EdgesInv, RoomInv
    <2>2. pc = "write" => Space(sock[cur])' > 0
      BY <1>1, <1>6, ServedConn DEF EdgesInv, RoomInv
    <2> QED BY <1>1, <2>1, <2>2 DEF EdgesInv, RoomInv
  <1> QED BY <1>7, <1>8 DEF EdgesInv

(* A remainder stands for a reply that was sent in part: nothing else of    *)
(* its connection is under way, so EPOLLOUT is its only event.              *)
LEMMA RestIsNotReadable ==
  ASSUME ConnsInv, DataInv, NEW f \in Fds, write_buffers[f] # <<>>
  PROVE  sock[f] \in Conns /\ ~Readable(sock[f])
  <1> DEFINE c == sock[f]
  <1>1. c \in Conns
    BY DEF DataInv, LeftInv
  <1>2. ~Waiting(c)
    BY DEF Waiting, NoRest
  <1> HIDE DEF c
  <1>3. inb[c] = <<>> /\ status[c] \in {"new", "open"}
    BY <1>1, <1>2, FreeIfNotWaiting DEF Free, ConnsInv
  <1>4. ~Readable(c)
    BY <1>3 DEF Readable
  <1> QED BY <1>1, <1>4 DEF c

LEMMA EdgesEpollWait ==
  ASSUME IInv, ConnsInv, DataInv, EdgesInv, EpollWait
  PROVE  EdgesInv'
  <1>1. PICK b \in SUBSET Pending :
          /\ batch' = b
          /\ ready' = {f \in ready : Events(f) # {} /\ ~ \E e \in b : e.fd = f}
    BY DEF EpollWait
  <1>2. /\ pc = "wait" /\ pc' \notin {"write", "arm", "disarm"}
        /\ UNCHANGED <<wire, got, sock, interest, write_buffers>>
    BY DEF EpollWait, net, AfterEvents
  <1>3. batch = {}
    BY <1>2 DEF IInv, ControlInv, BatchInv
  <1>4. \A e \in b : \/ e = [fd |-> Listener, conn |-> NoConn, ev |-> {"in"}]
                     \/ /\ e.fd \in Fds /\ sock[e.fd] # NoConn
                        /\ e = [fd |-> e.fd, conn |-> sock[e.fd], ev |-> Events(e.fd)]
    BY DEF Pending
  <1>5. OutEdgeInv'
    <2> SUFFICES ASSUME NEW f \in Fds, write_buffers[f] # <<>>
                 PROVE  /\ interest[f] = "inout_et"
                        /\ Space(sock[f]) > 0 =>
                             \/ f \in ready'
                             \/ [fd |-> f, conn |-> sock[f], ev |-> {"out"}] \in b
      BY <1>1, <1>2 DEF OutEdgeInv, Space
    <2>1. interest[f] = "inout_et"
      BY <1>2 DEF EdgesInv, OutEdgeInv, Arming
    <2>2. ASSUME Space(sock[f]) > 0
          PROVE  f \in ready' \/ [fd |-> f, conn |-> sock[f], ev |-> {"out"}] \in b
      <3>1. f \in ready
        BY <1>2, <1>3, <2>2 DEF EdgesInv, OutEdgeInv, Writing, Arming
      <3>2. Events(f) = {"out"}
        BY <2>1, <2>2, RestIsNotReadable DEF Events, Writable
      <3>3. \A e \in b : e.fd = f => e = [fd |-> f, conn |-> sock[f], ev |-> {"out"}]
        BY <1>4, <3>2, ListenerFacts
      <3> QED BY <1>1, <3>1, <3>2, <3>3
    <2> QED BY <2>1, <2>2
  <1>6. RoomInv'
    <2> SUFFICES ASSUME NEW e \in b, "out" \in e.ev
                 PROVE  e.fd \in Fds /\ e.conn \in Conns /\ Space(e.conn) > 0
      BY <1>1, <1>2 DEF RoomInv, Space
    <2>1. /\ e.fd \in Fds /\ sock[e.fd] # NoConn
          /\ e = [fd |-> e.fd, conn |-> sock[e.fd], ev |-> Events(e.fd)]
      <3>1. "out" \notin {"in"}
        OBVIOUS
      <3> QED BY <1>4, <3>1
    <2>2. e.conn = sock[e.fd] /\ e.ev = Events(e.fd)
      BY <2>1
    <2>3. Writable(sock[e.fd])
      BY <2>2 DEF Events
    <2>4. sock[e.fd] \in Conns
      BY <2>1 DEF IInv, TypeOK, LoopTypeOK
    <2>5. Space(sock[e.fd]) > 0
      BY <2>3, <2>4 DEF Writable, ConnsInv
    <2> QED BY <2>1, <2>2, <2>4, <2>5
  <1> QED BY <1>5, <1>6 DEF EdgesInv

LEMMA EdgesDispatch ==
  ASSUME IInv, EdgesInv, Dispatch
  PROVE  EdgesInv'
  <1>1. PICK e \in batch :
          /\ batch' = batch \ {e} /\ cur' = e.fd
          /\ pc' = IF e.fd = Listener THEN "accept"
                   ELSE IF "in" \in e.ev THEN "read" ELSE "write"
    BY DEF Dispatch
  <1>2. /\ pc = "events"
        /\ UNCHANGED <<wire, got, sock, interest, write_buffers, ready>>
    BY DEF Dispatch, net, epoll
  <1>3. OutEdgeInv'
    <2> SUFFICES ASSUME NEW f \in Fds, write_buffers[f] # <<>>
                 PROVE  /\ interest[f] = "inout_et"
                        /\ Space(sock[f]) > 0 =>
                             \/ f \in ready
                             \/ [fd |-> f, conn |-> sock[f], ev |-> {"out"}] \in batch'
                             \/ Writing(f)'
      BY <1>2 DEF OutEdgeInv, Space
    <2>1. interest[f] = "inout_et"
      BY <1>2 DEF EdgesInv, OutEdgeInv, Arming
    <2>2. ASSUME Space(sock[f]) > 0,
                 e = [fd |-> f, conn |-> sock[f], ev |-> {"out"}]
          PROVE  Writing(f)'
      <3>1. e.fd = f /\ "in" \notin e.ev
        BY <2>2
      <3> QED BY <1>1, <3>1, ListenerFacts DEF Writing
    <2>3. Space(sock[f]) > 0 =>
            \/ f \in ready
            \/ [fd |-> f, conn |-> sock[f], ev |-> {"out"}] \in batch
      BY <1>2 DEF EdgesInv, OutEdgeInv, Writing, Arming
    <2> QED BY <1>1, <2>1, <2>2, <2>3
  <1>4. RoomInv'
    <2>1. pc' = "write" => Space(sock[e.fd]) > 0
      <3> SUFFICES ASSUME pc' = "write" PROVE Space(sock[e.fd]) > 0
        OBVIOUS
      <3>1. e.fd # Listener /\ "in" \notin e.ev
        BY <1>1
      <3>2. e.ev # {} /\ e.ev \subseteq {"in", "out"} /\ sock[e.fd] = e.conn
        BY <3>1 DEF IInv, TypeOK, LoopTypeOK, ControlInv, BatchInv, NoStaleEvents
      <3>3. "out" \in e.ev
        BY <3>1, <3>2
      <3> QED BY <3>2, <3>3 DEF EdgesInv, RoomInv
    <2>2. pc' # "disarm"
      BY <1>1
    <2> QED BY <1>1, <1>2, <2>1, <2>2 DEF EdgesInv, RoomInv, Space
  <1> QED BY <1>3, <1>4 DEF EdgesInv

LEMMA EdgesAccept ==
  ASSUME IInv, DataInv, EdgesInv, Accept
  PROVE  EdgesInv'
  <1>1. PICK f \in Fds : /\ sock[f] = NoConn
                         /\ sock' = [sock EXCEPT ![f] = Head(backlog)]
                         /\ interest' = [interest EXCEPT ![f] = "in"]
    BY DEF Accept, FreeFds
  <1>2. /\ UNCHANGED <<wire, got, write_buffers, ready, batch, pc, cur, result>>
        /\ pc = "accept"
    BY DEF Accept, loop
  <1>3. \A g \in Fds : g # f => sock'[g] = sock[g] /\ interest'[g] = interest[g]
    BY <1>1 DEF IInv, TypeOK, LoopTypeOK
  <1>4. write_buffers[f] = <<>>
    BY <1>1, ConstantsAssumption DEF DataInv, LeftInv
  <1>5. OutEdgeInv'
    <2>1. \A g \in Fds : write_buffers[g] # <<>> =>
            g # f /\ sock'[g] = sock[g] /\ interest'[g] = interest[g]
      BY <1>3, <1>4
    <2> QED BY <1>2, <2>1 DEF EdgesInv, OutEdgeInv, Space, Writing, Arming
  <1>6. RoomInv'
    BY <1>2 DEF EdgesInv, RoomInv, Space
  <1> QED BY <1>5, <1>6 DEF EdgesInv

(* A step of process_results that sends: only the stream of the result's    *)
(* connection grows, and only its descriptor may get a remainder.           *)
LEMMA EdgesSend ==
  ASSUME IInv, EdgesInv, pc \in {"count", "body"}, UNCHANGED <<got, sock, interest, ready, batch>>,
         NEW c, pc' \in {"body", "results", "arm"},
         \A d \in Conns : d # c => wire'[d] = wire[d],
         \A f \in Fds : write_buffers'[f] # <<>> =>
           Arming(f)' \/ (sock[f] \in Conns /\ sock[f] # c /\ write_buffers'[f] = write_buffers[f])
  PROVE  EdgesInv'
  <1>1. batch = {}
    BY DEF IInv, ControlInv, BatchInv
  <1>2. OutEdgeInv'
    <2> SUFFICES ASSUME NEW f \in Fds, write_buffers'[f] # <<>>, ~Arming(f)'
                 PROVE  /\ interest[f] = "inout_et"
                        /\ Space(sock[f])' > 0 => f \in ready
      BY DEF OutEdgeInv
    <2>1. /\ sock[f] \in Conns /\ sock[f] # c /\ write_buffers'[f] = write_buffers[f]
          /\ wire'[sock[f]] = wire[sock[f]]
      OBVIOUS
    <2>2. Space(sock[f])' = Space(sock[f])
      BY <2>1 DEF Space
    <2> QED BY <1>1, <2>1, <2>2 DEF EdgesInv, OutEdgeInv, Writing, Arming
  <1>3. RoomInv'
    BY <1>1 DEF RoomInv
  <1> QED BY <1>2, <1>3 DEF EdgesInv

LEMMA EdgesSendCount ==
  ASSUME Polite, IInv, PoliteInv, EdgesInv, SendCount
  PROVE  EdgesInv'
  <1> DEFINE c == result.q.conn
  <1>1. pc = "count" /\ sock[result.fd] = c /\ c \in Conns
    BY RoomForReply DEF SendCount
  <1>2. NoRest(c)
    BY <1>1 DEF PoliteInv, ItemsInv, Going, UnderWay, Waiting
  <1>3. /\ UNCHANGED <<got, sock, interest, ready, batch, write_buffers>>
        /\ pc' = "body" /\ Put(c, Header(result.q))
    BY <1>1 DEF SendCount, epoll
  <1>4. \A d \in Conns : d # c => wire'[d] = wire[d]
    BY <1>3 DEF Put, IInv, TypeOK, NetTypeOK
  <1>5. \A f \in Fds : write_buffers'[f] # <<>> =>
          sock[f] \in Conns /\ sock[f] # c /\ write_buffers'[f] = write_buffers[f]
    BY <1>2, <1>3 DEF NoRest, PoliteInv, LeftInv
  <1> HIDE DEF c
  <1> QED BY <1>1, <1>3, <1>4, <1>5, EdgesSend

LEMMA EdgesSendBody ==
  ASSUME Polite, IInv, PoliteInv, EdgesInv, SendBody \/ SendPartOfBody
  PROVE  EdgesInv'
  <1> DEFINE c == result.q.conn
  <1>1. /\ c \in Conns /\ sock[result.fd] = c /\ result.fd \in Fds
        /\ \A d \in Conns : d # c => wire'[d] = wire[d]
    BY DataSendBody
  <1>2. pc = "body" /\ NoRest(c)
    BY DEF SendBody, SendPartOfBody, PoliteInv, BodyInv
  <1>3. /\ UNCHANGED <<got, sock, interest, ready, batch>>
        /\ pc' \in {"results", "arm"}
    BY DEF SendBody, SendPartOfBody, ResultDone, epoll
  <1>4. \A f \in Fds : write_buffers'[f] # <<>> =>
          Arming(f)' \/ write_buffers'[f] = write_buffers[f]
    <2>1. CASE SendBody
      BY <2>1 DEF SendBody
    <2>2. CASE SendPartOfBody
      <3>1. pc' = "arm" /\ result' = result
        BY <2>2 DEF SendPartOfBody
      <3>2. \A f \in Fds : f # result.fd => write_buffers'[f] = write_buffers[f]
        BY <2>2 DEF SendPartOfBody, IInv, TypeOK, LoopTypeOK
      <3> QED BY <3>1, <3>2 DEF Arming
    <2> QED BY <2>1, <2>2
  <1>5. \A f \in Fds : write_buffers[f] # <<>> => sock[f] \in Conns /\ sock[f] # c
    BY <1>2 DEF NoRest, PoliteInv, LeftInv
  <1>6. \A f \in Fds : write_buffers'[f] # <<>> =>
          Arming(f)' \/ (sock[f] \in Conns /\ sock[f] # c /\ write_buffers'[f] = write_buffers[f])
    BY <1>4, <1>5
  <1> HIDE DEF c
  <1> QED BY <1>1, <1>2, <1>3, <1>6, EdgesSend

LEMMA EdgesArm ==
  ASSUME IInv, ConnsInv, DataInv, EdgesInv, Arm
  PROVE  EdgesInv'
  <1> DEFINE f == result.fd
  <1>1. /\ pc = "arm" /\ f \in Fds /\ sock[f] \in Conns
        /\ UNCHANGED <<wire, got, sock, write_buffers, batch>>
        /\ pc' = "results" /\ ready \subseteq ready'
        /\ interest' = [interest EXCEPT ![f] = "inout_et"]
        /\ Space(sock[f]) > 0 => f \in ready'
    BY ServedConn DEF Arm, Modify, ResultDone, net, Writable
  <1> HIDE DEF f
  <1>2. /\ interest'[f] = "inout_et"
        /\ \A g \in Fds : g # f => interest'[g] = interest[g]
    BY <1>1 DEF IInv, TypeOK, LoopTypeOK
  <1>3. OutEdgeInv'
    <2> SUFFICES ASSUME NEW g \in Fds, write_buffers[g] # <<>>
                 PROVE  /\ interest'[g] = "inout_et"
                        /\ Space(sock[g]) > 0 =>
                             g \in ready' \/ [fd |-> g, conn |-> sock[g], ev |-> {"out"}] \in batch
      BY <1>1 DEF OutEdgeInv, Space
    <2>1. g # f => ~Arming(g) /\ ~Writing(g)
      BY <1>1 DEF Arming, Writing, f
    <2> QED BY <1>1, <1>2, <2>1 DEF EdgesInv, OutEdgeInv
  <1>4. RoomInv'
    BY <1>1 DEF EdgesInv, RoomInv, Space
  <1> QED BY <1>3, <1>4 DEF EdgesInv

LEMMA EdgesDisarm ==
  ASSUME IInv, ConnsInv, DataInv, EdgesInv, Disarm
  PROVE  EdgesInv'
  <1>1. /\ pc = "disarm" /\ cur \in Fds /\ write_buffers[cur] = <<>>
        /\ UNCHANGED <<wire, got, sock, write_buffers, batch>>
        /\ pc' \in {"events", "results"} /\ ready \subseteq ready'
        /\ interest' = [interest EXCEPT ![cur] = "in_et"]
    BY ServedConn DEF Disarm, Modify, EventDone, AfterEvents, net, EdgesInv, RoomInv
  <1>2. \A g \in Fds : g # cur => interest'[g] = interest[g]
    BY <1>1 DEF IInv, TypeOK, LoopTypeOK
  <1>3. OutEdgeInv'
    <2> SUFFICES ASSUME NEW g \in Fds, write_buffers[g] # <<>>
                 PROVE  /\ interest'[g] = "inout_et"
                        /\ Space(sock[g]) > 0 =>
                             g \in ready' \/ [fd |-> g, conn |-> sock[g], ev |-> {"out"}] \in batch
      BY <1>1 DEF OutEdgeInv, Space
    <2>1. g # cur /\ ~Arming(g) /\ ~Writing(g)
      BY <1>1 DEF Arming, Writing
    <2> QED BY <1>1, <1>2, <2>1 DEF EdgesInv, OutEdgeInv
  <1>4. RoomInv'
    BY <1>1 DEF EdgesInv, RoomInv, Space
  <1> QED BY <1>3, <1>4 DEF EdgesInv

LEMMA EdgesWriteRest ==
  ASSUME Polite, IInv, PoliteInv, EdgesInv, WriteRest
  PROVE  EdgesInv'
  <1> DEFINE c == sock[cur]
             r == Left(c, write_buffers[cur])
  <1>1. /\ c \in Conns /\ cur \in Fds /\ write_buffers[cur] # <<>>
        /\ write_buffers' = [write_buffers EXCEPT ![cur] = r]
        /\ (r # <<>> => SpaceAfter(c) = 0 /\ EventDone)
        /\ (r = <<>> => pc' = "disarm" /\ cur' = cur)
        /\ \A d \in Conns : d # c => wire'[d] = wire[d]
    BY DataWriteRest
  <1>2. pc = "write" /\ UNCHANGED <<got, sock, interest, ready, batch>>
    BY DEF WriteRest, epoll
  <1> HIDE DEF r
  <1>3. /\ write_buffers'[cur] = r
        /\ \A g \in Fds : g # cur => write_buffers'[g] = write_buffers[g]
    BY <1>1 DEF IInv, TypeOK, LoopTypeOK
  <1>4. \A g \in Fds : g # cur => sock[g] # c
    BY <1>1, ConstantsAssumption DEF PoliteInv, ConnsInv
  <1>5. \A d \in Conns : d # c => Space(d)' = Space(d)
    BY <1>1, <1>2 DEF Space
  <1>6. OutEdgeInv'
    <2> SUFFICES ASSUME NEW g \in Fds, write_buffers'[g] # <<>>
                 PROVE  /\ interest[g] = "inout_et"
                        /\ SpaceAfter(sock[g]) > 0 =>
                             g \in ready \/ [fd |-> g, conn |-> sock[g], ev |-> {"out"}] \in batch
      BY <1>2 DEF OutEdgeInv, Space, SpaceAfter
    <2>1. ~Arming(g) /\ (g # cur => ~Writing(g))
      BY <1>2 DEF Arming, Writing
    <2>2. CASE g = cur
      <3>1. SpaceAfter(sock[g]) = 0
        BY <1>1, <1>3, <2>2
      <3>2. interest[g] = "inout_et"
        BY <1>1, <2>1, <2>2 DEF EdgesInv, OutEdgeInv
      <3>3. ~(SpaceAfter(sock[g]) > 0)
        BY <3>1
      <3> QED BY <3>2, <3>3
    <2>3. CASE g # cur
      <3>1. write_buffers[g] # <<>> /\ sock[g] # c /\ sock[g] \in Conns
        BY <1>3, <1>4, <2>3 DEF PoliteInv, LeftInv
      <3>2. SpaceAfter(sock[g]) = Space(sock[g])
        BY <1>1, <1>2, <3>1 DEF Space, SpaceAfter
      <3> QED BY <2>1, <2>3, <3>1, <3>2 DEF EdgesInv, OutEdgeInv
    <2> QED BY <2>2, <2>3
  <1>7. RoomInv'
    <2>1. \A e \in batch : "out" \in e.ev =>
            e.fd \in Fds /\ e.conn \in Conns /\ Space(e.conn)' > 0
      <3> SUFFICES ASSUME NEW e \in batch, "out" \in e.ev
                   PROVE  e.fd \in Fds /\ e.conn \in Conns /\ Space(e.conn)' > 0
        OBVIOUS
      <3>1. e.fd \in Fds /\ e.conn \in Conns /\ Space(e.conn) > 0
        BY DEF EdgesInv, RoomInv
      <3>2. e.fd # cur /\ sock[e.fd] = e.conn
        BY <1>2, <3>1, ListenerFacts DEF IInv, ControlInv, BatchInv, NoStaleEvents
      <3>3. e.conn # c
        BY <1>4, <3>1, <3>2
      <3> QED BY <1>5, <3>1, <3>3
    <2>2. pc' = "disarm" => write_buffers'[cur'] = <<>>
      BY <1>1, <1>3 DEF EventDone, AfterEvents
    <2>3. pc' # "write"
      BY <1>1 DEF EventDone, AfterEvents
    <2> QED BY <1>2, <2>1, <2>2, <2>3 DEF RoomInv
  <1> QED BY <1>6, <1>7 DEF EdgesInv
-----------------------------------------------------------------------------
LEMMA NextPolite ==
  ASSUME Polite, IInv, IInv', OnceInv, PoliteInv, [Next]_vars
  PROVE  PoliteInv'
  <1>1. ConnsInv /\ DataInv /\ EdgesInv
    BY DEF PoliteInv, DataInv, EdgesInv
  <1>2. CASE \/ UNCHANGED vars \/ AcceptAgain \/ AcceptThrows \/ ReadAgain \/ ResultsDone
             \/ \E c \in Conns : Connect(c)
    <2>1. ConnsInv'
      <3>1. CASE \E c \in Conns : Connect(c)
        BY <1>1, <3>1, ConnsConnect
      <3>2. CASE UNCHANGED <<status, backlog, sock>>
        BY <1>1, <3>2, ConnsKept
      <3> QED BY <1>2, <3>1, <3>2 DEF vars, AcceptAgain, AcceptThrows, ReadAgain,
                ResultsDone, net, epoll
    <2>2. DataInv'
      BY <1>1, <1>2, DataCalm
    <2>3. /\ UNCHANGED <<wire, got, sock, interest, write_buffers, batch, ready>>
          /\ \/ UNCHANGED <<pc, cur, result>>
             \/ pc \notin {"write", "arm", "disarm"} /\ pc' \notin {"write", "arm", "disarm"}
      BY <1>2 DEF vars, AcceptAgain, AcceptThrows, ReadAgain, ResultsDone, EventDone,
           AfterEvents, Connect, net, epoll, loop
    <2>4. EdgesInv'
      BY <1>1, <2>3, EdgesFrame
    <2> QED BY <2>1, <2>2, <2>4 DEF PoliteInv, DataInv, EdgesInv
  <1>3. CASE \/ ReadQuery \/ TryPop \/ (\E w \in Workers : WorkerPop(w) \/ WorkerPush(w))
             \/ \E c \in Conns : ClientSend(c) \/ Deliver(c)
    <2>1. UNCHANGED <<status, backlog, sock>>
      BY <1>3 DEF ReadQuery, TryPop, WorkerPop, WorkerPush, ClientSend, Deliver, net, epoll
    <2>2. DataInv'
      BY <1>1, <1>3, DataReadQuery, DataTryPop, DataWorker, DataClientSend, DataDeliver
    <2>3. /\ UNCHANGED <<wire, got, sock, interest, write_buffers, batch>>
          /\ ready \subseteq ready'
          /\ \/ UNCHANGED <<pc, cur, result>>
             \/ pc \notin {"write", "arm", "disarm"} /\ pc' \notin {"write", "arm", "disarm"}
      BY <1>3 DEF ReadQuery, TryPop, WorkerPop, WorkerPush, ClientSend, Deliver, Edge,
           net, epoll, loop
    <2>4. EdgesInv'
      BY <1>1, <2>3, EdgesFrame
    <2> QED BY <1>1, <2>1, <2>2, <2>4, ConnsKept DEF PoliteInv, DataInv, EdgesInv
  <1>4. CASE EpollWait \/ Dispatch \/ Arm \/ Disarm \/ \E c \in Conns : ClientRecv(c)
    <2>1. UNCHANGED <<status, backlog, sock>>
      BY <1>4 DEF EpollWait, Dispatch, Arm, Disarm, Modify, ClientRecv, net, epoll
    <2>2. DataInv'
      BY <1>1, <1>4, DataCalm
    <2>3. EdgesInv'
      BY <1>1, <1>4, EdgesEpollWait, EdgesDispatch, EdgesArm, EdgesDisarm, EdgesClientRecv
    <2> QED BY <1>1, <2>1, <2>2, <2>3, ConnsKept DEF PoliteInv, DataInv, EdgesInv
  <1>5. CASE SendCount \/ SendBody \/ SendPartOfBody \/ WriteRest
    <2>1. UNCHANGED <<status, backlog, sock>>
      BY <1>5 DEF SendCount, SendBody, SendPartOfBody, WriteRest, epoll
    <2>2. DataInv'
      BY <1>1, <1>5, DataSendCount, DataSendBody, DataWriteRest
    <2>3. EdgesInv'
      BY <1>1, <1>5, EdgesSendCount, EdgesSendBody, EdgesWriteRest
    <2> QED BY <1>1, <2>1, <2>2, <2>3, ConnsKept DEF PoliteInv, DataInv, EdgesInv
  <1>6. CASE Accept
    BY <1>1, <1>6, ConnsAccept, DataAccept, EdgesAccept DEF PoliteInv, DataInv, EdgesInv
  <1>7. Next \/ UNCHANGED vars
    OBVIOUS
  <1> QED BY <1>2, <1>3, <1>4, <1>5, <1>6, <1>7, PoliteStep

LEMMA InitPolite == Init => PoliteInv
  <1> SUFFICES ASSUME Init PROVE PoliteInv
    OBVIOUS
  <1> USE DEF Init
  <1>1. ConnsInv
    BY DEF ConnsInv
  <1>2. StreamInv /\ ItemsInv
    <2>1. \A S : <<>> \in Seq(S)
      OBVIOUS
    <2> QED BY <2>1 DEF StreamInv, ItemsInv
  <1>3. WireInv
    <2>1. Frames(0) = 0
      BY FramesGrow
    <2> QED BY <2>1 DEF WireInv
  <1>4. BodyInv /\ LeftInv /\ OutEdgeInv /\ RoomInv
    BY DEF BodyInv, LeftInv, OutEdgeInv, RoomInv
  <1> QED BY <1>1, <1>2, <1>3, <1>4 DEF PoliteInv

LEMMA PoliteInvariant ==
  ASSUME Polite
  PROVE  Spec => []PoliteInv
  <1>1. IInv /\ OnceInv /\ [Next]_vars => OnceInv'
    BY NextRest, NextOnce DEF OnceInv
  <1>2. IInv /\ IInv' /\ OnceInv /\ PoliteInv /\ [Next]_vars => PoliteInv'
    BY NextPolite
  <1> QED BY Invariant, InitOnce, InitPolite, <1>1, <1>2, PTL DEF Spec

LEMMA ReplyAtIs ==
  ASSUME NEW c, NEW i
  PROVE  /\ ReplyAt(c, i).q = QueryId(c, ((i - 1) \div FrameUnits) + 1)
         /\ ReplyAt(c, i).k = ((i - 1) % FrameUnits) + 1
         /\ ReplyAt(c, i).q.conn = c
  <1> DEFINE n == ((i - 1) \div FrameUnits) + 1
             k == ((i - 1) % FrameUnits) + 1
  <1>1. ReplyAt(c, i) = [q |-> QueryId(c, n), k |-> k]
    BY DEF ReplyAt
  <1> HIDE DEF n, k
  <1>2. ReplyAt(c, i).q = QueryId(c, n) /\ ReplyAt(c, i).k = k
    BY <1>1
  <1>3. QueryId(c, n).conn = c
    BY DEF QueryId
  <1> QED BY <1>2, <1>3 DEF n, k

(* What polite clients are sent is part of the answers to their own queries *)
(* ("back to the appropriate clients", server.h:123-124).                   *)
THEOREM RepliesReachTheirClient ==
  ASSUME Polite
  PROVE  Spec => []NoMisdelivery
  <1>1. PoliteInv => NoMisdelivery
    BY ReplyAtIs DEF PoliteInv, WireInv, NoMisdelivery
  <1> QED BY PoliteInvariant, <1>1, PTL

(* A polite client's stream is a sequence of whole replies, however the     *)
(* pieces of a body are split over send_result (server.cc:211-256) and      *)
(* handle_write (server.cc:258-289).                                        *)
THEOREM RepliesAreFramed ==
  ASSUME Polite
  PROVE  Spec => []FramesIntact
  <1>1. ASSUME PoliteInv, IInv PROVE FramesIntact
    <2> SUFFICES ASSUME NEW c \in Conns, NEW i \in 1..Len(wire[c])
                 PROVE  /\ wire[c][i].k = ((i - 1) % FrameUnits) + 1
                        /\ wire[c][i].k > 1 => wire[c][i].q = wire[c][i - 1].q
      BY DEF FramesIntact
    <2>1. Len(wire[c]) \in Nat
      BY <1>1, ConnFacts
    <2>2. \A j \in 1..Len(wire[c]) : wire[c][j] = ReplyAt(c, j)
      BY <1>1 DEF PoliteInv, WireInv
    <2> DEFINE d == (i - 1) \div FrameUnits
               s == (i - 1) % FrameUnits
    <2>3. /\ d \in Nat /\ s \in 0..(FrameUnits - 1) /\ i - 1 = Frames(d) + s
          /\ i - 1 \in Nat
      <3>1. i - 1 \in Nat
        BY <2>1
      <3> QED BY <3>1, FrameType, Division DEF Frames
    <2>4. wire[c][i].k = s + 1 /\ wire[c][i].q = QueryId(c, d + 1)
      BY <2>2, ReplyAtIs
    <2>5. wire[c][i].k = ((i - 1) % FrameUnits) + 1
      BY <2>4
    <2> HIDE DEF d, s
    <2>6. ASSUME s + 1 > 1 PROVE wire[c][i].q = wire[c][i - 1].q
      <3>1. s - 1 \in 0..(FrameUnits - 1) /\ Frames(d) \in Nat
        BY <2>3, <2>6, FramesGrow, FrameType
      <3>2. (i - 1) - 1 = Frames(d) + (s - 1) /\ i - 1 \in 1..Len(wire[c])
        BY <2>1, <2>3, <2>6, <3>1
      <3>3. ((i - 1) - 1) \div FrameUnits = d
        BY <2>3, <3>1, <3>2, QuotientIs
      <3>4. wire[c][i - 1].q = QueryId(c, d + 1)
        BY <2>2, <3>2, <3>3, ReplyAtIs
      <3> QED BY <2>4, <3>4
    <2> QED BY <2>4, <2>5, <2>6
  <1> QED BY PoliteInvariant, Invariant, <1>1, PTL

(* epoll_wait never sleeps on the remainder of a polite client's reply that *)
(* could be sent: EPOLLOUT is asked for with EPOLL_CTL_MOD after the send() *)
(* that fell short (server.cc:244-254), which polls the descriptor again.   *)
THEOREM NoWriteEdgeIsLost ==
  ASSUME Polite
  PROVE  Spec => []NoLostWriteEdge
  <1>1. PoliteInv /\ IInv => NoLostWriteEdge
    BY DEF PoliteInv, OutEdgeInv, IInv, ControlInv, BatchInv, NoLostWriteEdge,
         Writing, Arming
  <1> QED BY PoliteInvariant, Invariant, <1>1, PTL

(* The connection of a polite client is never closed: send_result and       *)
(* handle_write always find room, and recv() never an end of stream.        *)
THEOREM HealthyConnectionsAreKept ==
  ASSUME Polite
  PROVE  Spec => KeepsHealthyConnections
  <1>1. PoliteInv' =>
          [\A c \in Conns : status[c] = "open" => status'[c] # "closed"]_vars
    BY DEF PoliteInv, ConnsInv
  <1> QED BY PoliteInvariant, <1>1, PTL DEF KeepsHealthyConnections

-----------------------------------------------------------------------------
(* The refinement: what a client has been answered depends only on how much *)
(* it has read.                                                             *)
LEMMA AnsweredIs ==
  ASSUME IInv, PoliteInv, NEW c \in Conns
  PROVE  Answered(c) = [i \in 1..(got[c] \div FrameUnits) |-> QueryId(c, i)]
  <1> DEFINE m == got[c] \div FrameUnits
  <1>1. /\ got[c] \in Nat /\ Len(wire[c]) \in Nat /\ got[c] <= Len(wire[c]) /\ m \in Nat
    BY ConnFacts, QuotientBound
  <1>2. \A i \in 1..m : wire[c][i * FrameUnits].q = QueryId(c, i)
    <2> TAKE i \in 1..m
    <2>1. i \in Nat /\ i > 0 /\ i <= m
      BY <1>1
    <2>2. i * FrameUnits = Frames(i)
      BY <2>1, FrameType DEF Frames
    <2>3. Frames(i) <= got[c] /\ Frames(i) \in Nat /\ Frames(i) > 0
      <3>1. Frames(i) <= got[c]
        BY <1>1, <2>1, QuotientBound
      <3>2. Frames(i) = Frames(i - 1) + HeaderUnits + BodyUnits /\ Frames(i - 1) \in Nat
            /\ HeaderUnits \in Nat \ {0} /\ BodyUnits \in Nat
        BY <2>1, FrameFacts
      <3> QED BY <3>1, <3>2
    <2>4. Frames(i) \in 1..Len(wire[c])
      BY <1>1, <2>3
    <2>5. wire[c][Frames(i)] = ReplyAt(c, Frames(i))
      BY <2>4 DEF PoliteInv, WireInv
    <2>6. Frames(i) = Frames(i - 1) + FrameUnits /\ FrameUnits \in 1..FrameUnits
      <3>1. Frames(i) = Frames(i - 1) + HeaderUnits + BodyUnits /\ Frames(i - 1) \in Nat
            /\ HeaderUnits \in Nat /\ BodyUnits \in Nat
        BY <2>1, FrameFacts
      <3> QED BY <3>1, FrameType DEF FrameUnits
    <2>7. ReplyAt(c, Frames(i)) = [q |-> QueryId(c, i), k |-> FrameUnits]
      BY <2>1, <2>6, ReplyUnits
    <2> QED BY <2>2, <2>5, <2>7
  <1> HIDE DEF m
  <1> QED BY <1>2 DEF Answered, m

(* One more unit read completes a reply or not.                             *)
LEMMA QuotientStep ==
  ASSUME NEW g \in Nat
  PROVE  (g + 1) \div FrameUnits \in {g \div FrameUnits, (g \div FrameUnits) + 1}
  <1> DEFINE d == g \div FrameUnits
             s == g % FrameUnits
  <1>1. d \in Nat /\ s \in 0..(FrameUnits - 1) /\ g = Frames(d) + s
    BY FrameType, Division DEF Frames
  <1> HIDE DEF d, s
  <1>2. Frames(d) \in Nat /\ Frames(d + 1) = Frames(d) + FrameUnits
        /\ FrameUnits \in Nat \ {0} /\ d + 1 \in Nat /\ 0 \in 0..(FrameUnits - 1)
    BY <1>1, FramesGrow, FrameType
  <1>3. CASE s + 1 < FrameUnits
    <2>1. s + 1 \in 0..(FrameUnits - 1) /\ g + 1 = Frames(d) + (s + 1)
      BY <1>1, <1>2, <1>3
    <2>2. (g + 1) \div FrameUnits = d
      BY <1>1, <2>1, QuotientIs
    <2> QED BY <2>2 DEF d
  <1>4. CASE ~(s + 1 < FrameUnits)
    <2>1. g + 1 = Frames(d + 1) + 0
      BY <1>1, <1>2, <1>4
    <2>2. (g + 1) \div FrameUnits = d + 1
      BY <1>2, <2>1, QuotientIs
    <2> QED BY <2>2 DEF d
  <1> QED BY <1>3, <1>4

(* AnsweredIs in this state and in the next.                                *)
AnsweredInv == \A c \in Conns :
  Answered(c) = [i \in 1..(got[c] \div FrameUnits) |-> QueryId(c, i)]

LEMMA AnsweredAlways == IInv /\ PoliteInv => AnsweredInv
  BY AnsweredIs DEF AnsweredInv

LEMMA AnsweredNext ==
  ASSUME IInv, IInv', PoliteInv, PoliteInv', NEW c \in Conns
  PROVE  /\ Answered(c) = [i \in 1..(got[c] \div FrameUnits) |-> QueryId(c, i)]
         /\ Answered(c)' = [i \in 1..(got'[c] \div FrameUnits) |-> QueryId(c, i)]
  <1>1. (IInv /\ PoliteInv => AnsweredInv)'
    BY AnsweredAlways, PTL
  <1>2. AnsweredInv'
    BY <1>1
  <1>3. Answered(c)' = [i \in 1..(got'[c] \div FrameUnits) |-> QueryId(c, i)]
    BY <1>2 DEF AnsweredInv
  <1> QED BY <1>3, AnsweredIs

(* Nothing but a client's own steps changes what it has asked and read.     *)
LEMMA ClientSteps ==
  ASSUME Polite, IInv, PoliteInv, [Next]_vars
  PROVE  \/ UNCHANGED <<sent, got>>
         \/ \E c \in Conns : ClientSend(c) \/ ClientRecv(c)
  <1>1. CASE UNCHANGED vars
    BY <1>1 DEF vars, net
  <1>2. CASE Next
    BY <1>2, PoliteStep DEF EpollWait, Dispatch, Accept, AcceptAgain, AcceptThrows,
       ReadQuery, ReadAgain, ResultsDone, TryPop, SendCount, SendBody, SendPartOfBody,
       Arm, WriteRest, Disarm, WorkerPop, WorkerPush, Connect, Deliver, net
  <1> QED BY <1>1, <1>2

LEMMA ServiceAsk ==
  ASSUME Polite, IInv, IInv', PoliteInv, PoliteInv', NEW c \in Conns, ClientSend(c)
  PROVE  Service!Ask(c)
  <1> DEFINE n == sent[c]
             m == got[c] \div FrameUnits
  <1>1. /\ UNCHANGED got /\ sent' = [sent EXCEPT ![c] = n + 1]
        /\ n < m + MaxOutstanding /\ n < QueriesPerConn
    BY DEF ClientSend
  <1>2. /\ n \in Nat /\ got[c] \in Nat /\ Len(wire[c]) \in Nat /\ got[c] <= Len(wire[c])
        /\ Len(wire[c]) <= Frames(n) /\ Frames(n) \in Nat
    <2>1. n \in Nat /\ got[c] \in Nat /\ Len(wire[c]) \in Nat /\ got[c] <= Len(wire[c])
      BY ConnFacts
    <2>2. Frames(n) \in Nat
      BY <2>1, FramesGrow
    <2>3. Len(wire[c]) <= Frames(n)
      BY DEF PoliteInv, WireInv
    <2> QED BY <2>1, <2>2, <2>3
  <1>3. m \in Nat /\ m <= n
    <2>1. got[c] <= Frames(n) /\ got[c] \in Nat /\ n \in Nat
      <3> HIDE DEF n
      <3> QED BY <1>2
    <2> QED BY <2>1, QuotientBound
  <1>4. n = m
    BY <1>1, <1>2, <1>3 DEF Polite
  <1>5. Len(Answered(c)) = m
    BY <1>3, AnsweredIs
  <1>6. \A d \in Conns : Answered(d)' = Answered(d)
    <2> TAKE d \in Conns
    <2>1. Answered(d) = [i \in 1..(got[d] \div FrameUnits) |-> QueryId(d, i)]
      BY AnsweredIs
    <2>2. Answered(d)' = [i \in 1..(got'[d] \div FrameUnits) |-> QueryId(d, i)]
      BY AnsweredNext
    <2> QED BY <1>1, <2>1, <2>2
  <1>7. [d \in Conns |-> Answered(d)]' = [d \in Conns |-> Answered(d)]
    BY <1>6
  <1> HIDE DEF n, m
  <1> QED BY <1>1, <1>4, <1>5, <1>7 DEF Service!Ask, n

LEMMA ServiceRecv ==
  ASSUME Polite, IInv, IInv', PoliteInv, PoliteInv', NEW c \in Conns, ClientRecv(c)
  PROVE  Service!Reply(c) \/ UNCHANGED Service!svars
  <1> DEFINE m == got[c] \div FrameUnits
             R == [d \in Conns |-> Answered(d)]
  <1>1. UNCHANGED sent /\ got' = [got EXCEPT ![c] = got[c] + 1]
    BY DEF ClientRecv
  <1>2. /\ sent[c] \in Nat /\ got[c] \in Nat /\ Len(wire[c]) \in Nat
        /\ Len(wire[c]) <= Frames(sent[c]) /\ Frames(sent[c]) \in Nat
        /\ got[c] + 1 <= Len(wire[c])
    <2>1. /\ sent[c] \in Nat /\ got[c] \in Nat /\ Len(wire[c]) \in Nat
          /\ Frames(sent[c]) \in Nat
      BY ConnFacts, FramesGrow
    <2>2. Len(wire[c]) <= Frames(sent[c])
      BY DEF PoliteInv, WireInv
    <2>3. got[c] < Len(wire[c])
      BY DEF ClientRecv
    <2> QED BY <2>1, <2>2, <2>3
  <1>3. /\ m \in Nat /\ (got[c] + 1) \div FrameUnits \in {m, m + 1}
        /\ (got[c] + 1) \div FrameUnits <= sent[c]
    <2>1. m \in Nat
      BY <1>2, QuotientBound
    <2>2. (got[c] + 1) \div FrameUnits \in {m, m + 1}
      BY <1>2, QuotientStep
    <2>3. got[c] + 1 \in Nat /\ got[c] + 1 <= Frames(sent[c])
      BY <1>2
    <2>4. (got[c] + 1) \div FrameUnits <= sent[c]
      BY <1>2, <2>3, QuotientBound
    <2> QED BY <2>1, <2>2, <2>4
  <1>4. got'[c] = got[c] + 1 /\ \A d \in Conns : d # c => got'[d] = got[d]
    BY <1>1 DEF IInv, TypeOK, NetTypeOK
  <1>5. \A d \in Conns :
          /\ Answered(d) = [i \in 1..(got[d] \div FrameUnits) |-> QueryId(d, i)]
          /\ Answered(d)' = [i \in 1..(got'[d] \div FrameUnits) |-> QueryId(d, i)]
    BY AnsweredNext
  <1>6. \A d \in Conns : d # c => Answered(d)' = Answered(d)
    BY <1>4, <1>5
  <1>7. Answered(c) = [i \in 1..m |-> QueryId(c, i)]
    BY <1>5
  <1>8. CASE (got[c] + 1) \div FrameUnits = m
    <2>1. Answered(c)' = Answered(c)
      BY <1>4, <1>5, <1>7, <1>8
    <2>2. R' = R
      BY <1>6, <2>1
    <2> QED BY <1>1, <2>2 DEF Service!svars
  <1>9. CASE (got[c] + 1) \div FrameUnits = m + 1
    <2>1. Answered(c)' = [i \in 1..(m + 1) |-> QueryId(c, i)]
      BY <1>4, <1>5, <1>9
    <2> HIDE DEF m
    <2>2. Len(Answered(c)) = m
      BY <1>3, <1>7
    <2>3. Answered(c)' = Append(Answered(c), QueryId(c, m + 1))
      <3> DEFINE x == QueryId(c, m + 1)
                 A == Append(Answered(c), x)
                 T == {QueryId(c, i) : i \in 1..(m + 1)}
      <3>1. x \in T /\ \A i \in 1..(m + 1) : i # m + 1 => i \in 1..m
        BY <1>3
      <3>2. Answered(c) \in Seq(T)
        BY <1>3, <1>7
      <3> HIDE DEF x, T
      <3>3. /\ A \in Seq(T) /\ Len(A) = m + 1 /\ A[m + 1] = x
            /\ \A i \in 1..m : A[i] = Answered(c)[i]
        BY <2>2, <3>1, <3>2, AppendProperties
      <3> HIDE DEF A
      <3>4. \A i \in 1..m : Answered(c)[i] = QueryId(c, i)
        BY <1>7
      <3>5. \A i \in 1..(m + 1) : A[i] = QueryId(c, i)
        BY <3>1, <3>3, <3>4 DEF x
      <3>6. A \in [1..(m + 1) -> T]
        BY <3>3
      <3>7. A = [i \in 1..(m + 1) |-> QueryId(c, i)]
        BY <3>5, <3>6
      <3> QED BY <2>1, <3>7 DEF A, x
    <2>4. R' = [R EXCEPT ![c] = Append(R[c], Service!QueryId(c, Len(R[c]) + 1))]
      <3>1. R[c] = Answered(c) /\ Service!QueryId(c, m + 1) = QueryId(c, m + 1)
        BY DEF Service!QueryId, QueryId
      <3> QED BY <1>6, <2>2, <2>3, <3>1
    <2>5. Len(R[c]) < sent[c]
      BY <1>2, <1>3, <1>9, <2>2
    <2> QED BY <1>1, <2>4, <2>5 DEF Service!Reply
  <1> QED BY <1>3, <1>8, <1>9

(* Polite clients get QueryService's safety from the server: each query is  *)
(* answered once, on the connection that asked it, in the order asked, and  *)
(* before the next one is asked.                                            *)
THEOREM PoliteClientsGetTheService ==
  ASSUME Polite
  PROVE  Spec => Service!SInit /\ [][Service!SNext]_(Service!svars)
  <1>1. Init => Service!SInit
    <2> SUFFICES ASSUME Init PROVE Service!SInit
      OBVIOUS
    <2>1. \A c \in Conns : Answered(c) = <<>>
      <3> TAKE c \in Conns
      <3>1. got[c] = 0 /\ IInv /\ PoliteInv
        BY InitIInv, InitPolite DEF Init
      <3>2. 0 \div FrameUnits = 0
        <4>1. 0 <= Frames(0) /\ 0 \in Nat
          BY FramesGrow
        <4>2. 0 \div FrameUnits <= 0 /\ 0 \div FrameUnits \in Nat
          BY <4>1, QuotientBound
        <4> QED BY <4>2
      <3>3. Answered(c) = [i \in 1..0 |-> QueryId(c, i)]
        BY <3>1, <3>2, AnsweredIs
      <3> QED BY <3>3
    <2> QED BY <2>1 DEF Init, Service!SInit
  <1>2. ASSUME IInv, IInv', PoliteInv, PoliteInv', [Next]_vars
        PROVE  [Service!SNext]_(Service!svars)
    <2>1. CASE UNCHANGED <<sent, got>>
      <3>1. \A d \in Conns : Answered(d)' = Answered(d)
        <4> TAKE d \in Conns
        <4>1. Answered(d) = [i \in 1..(got[d] \div FrameUnits) |-> QueryId(d, i)]
          BY <1>2, AnsweredIs
        <4>2. Answered(d)' = [i \in 1..(got'[d] \div FrameUnits) |-> QueryId(d, i)]
          BY <1>2, AnsweredNext
        <4> QED BY <2>1, <4>1, <4>2
      <3> QED BY <2>1, <3>1 DEF Service!svars
    <2>2. CASE \E c \in Conns : ClientSend(c) \/ ClientRecv(c)
      BY <1>2, <2>2, ServiceAsk, ServiceRecv DEF Service!SNext
    <2> QED BY <1>2, <2>1, <2>2, ClientSteps
  <1> QED BY PoliteInvariant, Invariant, <1>1, <1>2, PTL DEF Spec
=============================================================================
