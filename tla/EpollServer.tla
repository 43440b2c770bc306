---------------------------- MODULE EpollServer ----------------------------
(***************************************************************************)
(* The TCP server: the single-threaded epoll loop of server.cc, its worker *)
(* threads, the two queues between them, and the part of the kernel and of *)
(* the clients that the loop can observe.  One action stands for one       *)
(* system call of the loop (or for one queue operation), because between   *)
(* two of them the kernel, the clients and the workers may all move.       *)
(*                                                                         *)
(* Bytes are abstracted to units: a query is QueryUnits units of a         *)
(* client's stream, a reply is HeaderUnits (the count) and then BodyUnits  *)
(* units of the server's stream.                                           *)
(***************************************************************************)
EXTENDS Naturals, Sequences, FiniteSets

CONSTANTS
  Conns,            (* the connections clients may open                     *)
  Workers,          (* the worker threads                                   *)
  Fds,              (* the descriptors accept() may return                  *)
  QueriesPerConn,   (* bound: queries a client sends on its connection      *)
  MaxOutstanding,   (* unanswered queries a client tolerates before waiting *)
  QueryUnits,       (* units of a TradeDataQuery                            *)
  HeaderUnits,      (* units of the count that precedes a result            *)
  BodyUnits,        (* units of a serialized result                         *)
  SendCap,          (* units the kernel holds between send() and the client *)
  MaxEvents,        (* MAX_EVENTS of epoll_wait                             *)
  MayHangUp,        (* whether clients may close their end                  *)
  NoConn,           (* not a connection: a descriptor that is not open      *)
  Idle              (* not a work item: a worker that waits in pop()        *)

ASSUME ConstantsAssumption ==
  /\ Fds \subseteq Nat \ {0} /\ IsFiniteSet(Fds)
  /\ IsFiniteSet(Conns) /\ NoConn \notin Conns
  /\ QueriesPerConn \in Nat /\ MaxOutstanding \in Nat
  /\ QueryUnits \in Nat \ {0} /\ HeaderUnits \in Nat \ {0}
  /\ BodyUnits \in Nat \ {0}
  /\ SendCap \in Nat \ {0} /\ MaxEvents \in Nat \ {0}
  /\ MayHangUp \in BOOLEAN

VARIABLES
  (* the connections, as the kernel and the clients see them *)
  status,           (* status[c]: see ConnStatus                            *)
  backlog,          (* connections established and not yet accepted         *)
  sent,             (* sent[c]: queries the client has sent                 *)
  flight,           (* flight[c]: units sent and not yet arrived            *)
  inb,              (* inb[c]: units in the server's receive buffer         *)
  wire,             (* wire[c]: every unit send() has accepted for c        *)
  got,              (* got[c]: how many of those the client has read        *)
  (* the descriptor table and the epoll instance *)
  sock,             (* sock[f]: the connection open as descriptor f         *)
  interest,         (* interest[f]: the events registered for f             *)
  ready,            (* the edge-triggered descriptors with an edge pending  *)
  (* the server's threads *)
  pc,               (* where the loop of run() is                           *)
  batch,            (* events of the last epoll_wait not yet dispatched     *)
  cur,              (* the descriptor a handler works on                    *)
  result,           (* the ResultItem send_result works on                  *)
  write_buffers,    (* write_buffers_[f]: what is left to send; <<>>: none  *)
  work_queue, results_queue,
  busy              (* busy[w]: the item worker w computes, or Idle         *)

net   == <<status, backlog, sent, flight, inb, wire, got>>
epoll == <<sock, interest, ready>>
loop  == <<pc, batch, cur, result>>
queues == <<work_queue, results_queue, busy>>
vars  == <<net, epoll, loop, write_buffers, queues>>

Listener == 0       (* server_listen_fd_                                    *)

-----------------------------------------------------------------------------
(* Queries, replies and the items that carry them.                          *)

QueryId(c, n) == [conn |-> c, n |-> n]
Torn == QueryId(NoConn, 0)   (* a query struct that recv() filled in part   *)
Queries == {QueryId(c, n) : c \in Conns, n \in 1..QueriesPerConn} \cup {Torn}
Items == [fd : Fds, q : Queries]
NoItem == [fd |-> Listener, q |-> Torn]

FrameUnits == HeaderUnits + BodyUnits
Units(q, from, to) ==
  [k \in 1..(to + 1 - from) |-> [q |-> q, k |-> from + k - 1]]
Header(q) == Units(q, 1, HeaderUnits)
(* Mutation of Body: one unit past the end of the result.                   *)
MutBodyOverrun(q) == Units(q, HeaderUnits + 1, FrameUnits + 1)
Body(q)   == Units(q, HeaderUnits + 1, FrameUnits)

(* What sizeof(query) bytes of the stream decode to: a query only when they *)
(* are the whole of it.                                                     *)
Decode(units) ==
  IF /\ Len(units) = QueryUnits
     /\ \A k \in 1..QueryUnits : units[k] = [q |-> units[1].q, k |-> k]
  THEN units[1].q ELSE Torn

Lesser(a, b) == IF a < b THEN a ELSE b
Drop(s, k) == SubSeq(s, k + 1, Len(s))

-----------------------------------------------------------------------------
(* The kernel's view of a connection.                                       *)

(* new: not opened.  open: both ends up.  fin, reset: the client has closed *)
(* its end, cleanly or with unread data.  broken: reset after the FIN came. *)
(* closed: the server has closed its end.                                   *)
ConnStatus == {"new", "open", "fin", "reset", "broken", "closed"}
Interests  == {"in", "in_et", "inout_et"}

Space(c) == SendCap - (Len(wire[c]) - got[c])
Readable(c) == \/ inb[c] # <<>>
               \/ (status[c] = "fin" /\ flight[c] = <<>>)
               \/ status[c] \in {"reset", "broken"}
Writable(c) == Space(c) > 0 \/ status[c] \in {"reset", "broken"}

FdsOf(c) == {f \in Fds : sock[f] = c}
EdgeFds(c) == {f \in FdsOf(c) : interest[f] # "in"}

Events(f) ==
  (IF Readable(sock[f]) THEN {"in"} ELSE {})
  \cup (IF (interest[f] = "inout_et" /\ Writable(sock[f])) THEN {"out"} ELSE {})

(* What epoll_wait can report: a level-triggered descriptor while it is     *)
(* ready, an edge-triggered one once for every edge.                        *)
Pending ==
  {[fd |-> f, conn |-> sock[f], ev |-> Events(f)] :
     f \in {g \in Fds : /\ sock[g] # NoConn
                        /\ (interest[g] = "in" \/ g \in ready)
                        /\ Events(g) # {}}}
  \cup (IF backlog = <<>> THEN {}
        ELSE {[fd |-> Listener, conn |-> NoConn, ev |-> {"in"}]})

-----------------------------------------------------------------------------
Init ==
  /\ status = [c \in Conns |-> "new"] /\ backlog = <<>>
  /\ sent = [c \in Conns |-> 0] /\ got = [c \in Conns |-> 0]
  /\ flight = [c \in Conns |-> <<>>] /\ inb = [c \in Conns |-> <<>>]
  /\ wire = [c \in Conns |-> <<>>]
  /\ sock = [f \in Fds |-> NoConn] /\ interest = [f \in Fds |-> "in"]
  /\ ready = {}
  /\ pc = "wait" /\ batch = {} /\ cur = Listener /\ result = NoItem
  /\ write_buffers = [f \in Fds |-> <<>>]
  /\ work_queue = <<>> /\ results_queue = <<>>
  /\ busy = [w \in Workers |-> Idle]

-----------------------------------------------------------------------------
(* The clients and the kernel.                                              *)

(* An edge: an event that puts an edge-triggered descriptor on epoll's      *)
(* ready list, whichever of its events it is about.                         *)
Edge(c) == ready' = ready \cup EdgeFds(c)

Connect(c) ==
  /\ status[c] = "new"
  /\ status' = [status EXCEPT ![c] = "open"]
  /\ backlog' = Append(backlog, c)
  /\ UNCHANGED <<sent, flight, inb, wire, got, epoll, loop, write_buffers, queues>>

ClientSend(c) ==
  /\ status[c] = "open" /\ sent[c] < QueriesPerConn
  /\ sent[c] < (got[c] \div FrameUnits) + MaxOutstanding
  /\ sent' = [sent EXCEPT ![c] = @ + 1]
  /\ flight' = [flight EXCEPT
       ![c] = @ \o Units(QueryId(c, sent[c] + 1), 1, QueryUnits)]
  /\ UNCHANGED <<status, backlog, inb, wire, got, epoll, loop, write_buffers, queues>>

(* The network hands over a prefix of what is in flight.                    *)
Deliver(c) ==
  /\ status[c] \in {"open", "fin"}
  /\ \E k \in 1..Len(flight[c]) :
       /\ inb' = [inb EXCEPT ![c] = @ \o SubSeq(flight[c], 1, k)]
       /\ flight' = [flight EXCEPT ![c] = Drop(@, k)]
  /\ Edge(c)
  /\ UNCHANGED <<status, backlog, sent, wire, got, sock, interest, loop,
                 write_buffers, queues>>

(* The client reads one unit.  A full buffer that gets room again is an     *)
(* edge for a descriptor watched for EPOLLOUT.                              *)
ClientRecv(c) ==
  /\ status[c] = "open" /\ got[c] < Len(wire[c])
  /\ got' = [got EXCEPT ![c] = @ + 1]
  /\ ready' = IF Space(c) = 0
                THEN ready \cup {f \in FdsOf(c) : interest[f] = "inout_et"}
                ELSE ready
  /\ UNCHANGED <<status, backlog, sent, flight, inb, wire, sock, interest,
                 loop, write_buffers, queues>>

(* close() with unread data resets the connection and drops what is in      *)
(* flight; otherwise it is a FIN behind the data, and what the server has   *)
(* sent may still be on its way.                                            *)
HangUp(c) ==
  /\ MayHangUp /\ status[c] = "open"
  /\ \/ /\ got[c] < Len(wire[c])
        /\ status' = [status EXCEPT ![c] = "reset"]
        /\ flight' = [flight EXCEPT ![c] = <<>>]
     \/ /\ status' = [status EXCEPT ![c] = "fin"]
        /\ UNCHANGED flight
  /\ Edge(c)
  /\ UNCHANGED <<backlog, sent, inb, wire, got, sock, interest, loop,
                 write_buffers, queues>>

(* A client that is gone answers data with a reset, which the server learns *)
(* of before or after the FIN.                                              *)
PeerReset(c) ==
  /\ status[c] = "fin" /\ got[c] < Len(wire[c])
  /\ status' = [status EXCEPT
                  ![c] = IF flight[c] = <<>> THEN "broken" ELSE "reset"]
  /\ flight' = [flight EXCEPT ![c] = <<>>]
  /\ Edge(c)
  /\ UNCHANGED <<backlog, sent, inb, wire, got, sock, interest, loop,
                 write_buffers, queues>>

-----------------------------------------------------------------------------
(* The loop of run(): epoll_wait, the dispatch of its events, then          *)
(* process_results.                                                         *)

AfterEvents(b) == IF b = {} THEN "results" ELSE "events"

(* A timeout reports no event; a return before it at most MaxEvents.        *)
EpollWait ==
  /\ pc = "wait"
  /\ \E b \in SUBSET Pending :
       /\ Cardinality(b) = Lesser(MaxEvents, Cardinality(Pending))
       /\ batch' = b
       /\ pc' = AfterEvents(b)
       /\ ready' = {f \in ready : Events(f) # {} /\ ~ \E e \in b : e.fd = f}
  /\ UNCHANGED <<net, sock, interest, cur, result, write_buffers, queues>>

(* The three branches of the dispatch; a descriptor with both events takes  *)
(* the EPOLLIN branch only.                                                 *)
Dispatch ==
  /\ pc = "events"
  /\ \E e \in batch :
       /\ batch' = batch \ {e}
       /\ cur' = e.fd
       /\ pc' = IF e.fd = Listener THEN "accept"
                ELSE IF "in" \in e.ev THEN "read" ELSE "write"
  /\ UNCHANGED <<net, epoll, result, write_buffers, queues>>

(* Mutation of EventDone: process_results after every event.                *)
MutResultsPerEvent == pc' = "results" /\ cur' = Listener
EventDone == pc' = AfterEvents(batch) /\ cur' = Listener

FreeFds == {f \in Fds : sock[f] = NoConn}

(* accept(), make_non_blocking and add_to_epoll: the lowest free descriptor *)
(* is taken.                                                                *)
Accept ==
  /\ pc = "accept" /\ backlog # <<>>
  /\ \E f \in FreeFds :
       /\ \A g \in FreeFds : f <= g
       /\ sock' = [sock EXCEPT ![f] = Head(backlog)]
       /\ interest' = [interest EXCEPT ![f] = "in"]
  /\ backlog' = Tail(backlog)
  /\ UNCHANGED <<status, sent, flight, inb, wire, got, ready, loop,
                 write_buffers, queues>>

AcceptAgain ==
  /\ pc = "accept" /\ backlog = <<>>
  /\ EventDone
  /\ UNCHANGED <<net, epoll, batch, result, write_buffers, queues>>

(* No descriptor is left: check_error throws out of run().                  *)
AcceptThrows ==
  /\ pc = "accept" /\ backlog # <<>> /\ FreeFds = {}
  /\ pc' = "stopped"
  /\ UNCHANGED <<net, epoll, batch, cur, result, write_buffers, queues>>

(* close(f): the kernel forgets the descriptor, its registration and the    *)
(* unread data.                                                             *)
Close(f) ==
  /\ status' = [status EXCEPT ![sock[f]] = "closed"]
  /\ flight' = [flight EXCEPT ![sock[f]] = <<>>]
  /\ inb' = [inb EXCEPT ![sock[f]] = <<>>]
  /\ sock' = [sock EXCEPT ![f] = NoConn]
  /\ interest' = [interest EXCEPT ![f] = "in"]
  /\ ready' = ready \ {f}
  /\ UNCHANGED <<backlog, sent, wire, got>>

(* Mutation of ReadQuery: one recv() per event.                             *)
MutReadOnce ==
  /\ pc = "read" /\ inb[sock[cur]] # <<>>
  /\ LET c == sock[cur]
         k == Lesser(QueryUnits, Len(inb[c]))
     IN  /\ inb' = [inb EXCEPT ![c] = Drop(@, k)]
         /\ work_queue' = Append(work_queue,
              [fd |-> cur, q |-> Decode(SubSeq(inb[c], 1, k))])
  /\ EventDone
  /\ UNCHANGED <<status, backlog, sent, flight, wire, got, epoll, batch,
                 result, write_buffers, results_queue, busy>>

(* One turn of handle_read that gets data: whatever recv() returns, up to   *)
(* sizeof(query), is queued as a query.                                     *)
ReadQuery ==
  /\ pc = "read" /\ inb[sock[cur]] # <<>>
  /\ LET c == sock[cur]
         k == Lesser(QueryUnits, Len(inb[c]))
     IN  /\ inb' = [inb EXCEPT ![c] = Drop(@, k)]
         /\ work_queue' = Append(work_queue,
              [fd |-> cur, q |-> Decode(SubSeq(inb[c], 1, k))])
  /\ UNCHANGED <<status, backlog, sent, flight, wire, got, epoll, loop,
                 write_buffers, results_queue, busy>>

(* Mutation of ReadAgain: EAGAIN of recv() taken for an error.              *)
MutReadAgainCloses ==
  /\ pc = "read" /\ ~Readable(sock[cur])
  /\ Close(cur)
  /\ write_buffers' = [write_buffers EXCEPT ![cur] = <<>>]
  /\ EventDone
  /\ UNCHANGED <<batch, result, queues>>

ReadAgain ==
  /\ pc = "read" /\ ~Readable(sock[cur])
  /\ EventDone
  /\ UNCHANGED <<net, epoll, batch, result, write_buffers, queues>>

(* Mutation of ReadClose: the buffer is erased, the descriptor stays open.  *)
MutReadErasesOnly ==
  /\ pc = "read" /\ inb[sock[cur]] = <<>> /\ Readable(sock[cur])
  /\ write_buffers' = [write_buffers EXCEPT ![cur] = <<>>]
  /\ EventDone
  /\ UNCHANGED <<net, epoll, batch, result, queues>>

(* End of stream or an error: close and erase.                              *)
ReadClose ==
  /\ pc = "read" /\ inb[sock[cur]] = <<>> /\ Readable(sock[cur])
  /\ Close(cur)
  /\ write_buffers' = [write_buffers EXCEPT ![cur] = <<>>]
  /\ EventDone
  /\ UNCHANGED <<batch, result, queues>>

-----------------------------------------------------------------------------
(* process_results, send_result and handle_write.                           *)

(* send() on an open descriptor: what happens depends on the connection.    *)
Accepts(c)     == status[c] \in {"open", "fin"} /\ Space(c) > 0
WouldBlock(c)  == status[c] \in {"open", "fin"} /\ Space(c) = 0
SendFails(c)   == WouldBlock(c) \/ status[c] = "reset"
RaisesPipe(c)  == status[c] = "broken"
Put(c, units)  == wire' = [wire EXCEPT
                    ![c] = @ \o SubSeq(units, 1, Lesser(Space(c), Len(units)))]
Left(c, units) == Drop(units, Lesser(Space(c), Len(units)))

(* The process is killed by SIGPIPE, whose disposition is the default.      *)
Killed == pc' = "stopped" /\ UNCHANGED <<net, epoll, batch, cur, result,
                                         write_buffers, queues>>

ResultsDone ==
  /\ pc = "results" /\ results_queue = <<>>
  /\ pc' = "wait"
  /\ UNCHANGED <<net, epoll, batch, cur, result, write_buffers, queues>>

(* Mutation of TryPop: the descriptor of the newest result.                 *)
MutTryPopBack ==
  /\ pc = "results" /\ results_queue # <<>>
  /\ result' = [Head(results_queue) EXCEPT
                  !.fd = results_queue[Len(results_queue)].fd]
  /\ results_queue' = Tail(results_queue)
  /\ pc' = "count"
  /\ UNCHANGED <<net, epoll, batch, cur, write_buffers, work_queue, busy>>

TryPop ==
  /\ pc = "results" /\ results_queue # <<>>
  /\ result' = Head(results_queue) /\ results_queue' = Tail(results_queue)
  /\ pc' = "count"
  /\ UNCHANGED <<net, epoll, batch, cur, write_buffers, work_queue, busy>>

ResultDone == pc' = "results" /\ result' = NoItem

(* The descriptor is not open any more: send() and close() fail with EBADF. *)
ResultDropped ==
  /\ pc = "count" /\ sock[result.fd] = NoConn
  /\ ResultDone
  /\ UNCHANGED <<net, epoll, batch, cur, write_buffers, queues>>

(* Any other error, EAGAIN included, closes; write_buffers_ is kept.        *)
ResultClose ==
  /\ pc \in {"count", "body"} /\ sock[result.fd] # NoConn
  /\ SendFails(sock[result.fd])
  /\ Close(result.fd)
  /\ ResultDone
  /\ UNCHANGED <<batch, cur, write_buffers, queues>>

ResultKills ==
  /\ pc \in {"count", "body"} /\ sock[result.fd] # NoConn
  /\ RaisesPipe(sock[result.fd])
  /\ Killed

(* The count; that it may be sent in part is not looked at.                 *)
SendCount ==
  /\ pc = "count" /\ sock[result.fd] # NoConn
  /\ Accepts(sock[result.fd])
  /\ Put(sock[result.fd], Header(result.q))
  /\ pc' = "body"
  /\ UNCHANGED <<status, backlog, sent, flight, inb, got, epoll, batch, cur,
                 result, write_buffers, queues>>

(* The whole body.                                                          *)
SendBody ==
  /\ pc = "body" /\ sock[result.fd] # NoConn
  /\ LET c == sock[result.fd] IN
       /\ Accepts(c)
       /\ Left(c, Body(result.q)) = <<>>
       /\ Put(c, Body(result.q))
  /\ ResultDone
  /\ UNCHANGED <<status, backlog, sent, flight, inb, got, epoll, batch, cur,
                 write_buffers, queues>>

(* Mutation of SendPartOfBody: sent_bytes starts at 0.                      *)
MutSendPartKeepsAll ==
  /\ pc = "body" /\ sock[result.fd] # NoConn
  /\ LET c == sock[result.fd] IN
       /\ Accepts(c)
       /\ Left(c, Body(result.q)) # <<>>
       /\ Put(c, Body(result.q))
       /\ write_buffers' = [write_buffers EXCEPT ![result.fd] = Body(result.q)]
  /\ pc' = "arm"
  /\ UNCHANGED <<status, backlog, sent, flight, inb, got, epoll, batch, cur,
                 result, queues>>

(* Mutation of SendPartOfBody: emplace() into write_buffers_, which leaves  *)
(* an entry that is there as it is.                                         *)
MutSendPartEmplaces ==
  /\ pc = "body" /\ sock[result.fd] # NoConn
  /\ LET c == sock[result.fd] IN
       /\ Accepts(c)
       /\ Left(c, Body(result.q)) # <<>>
       /\ Put(c, Body(result.q))
       /\ write_buffers' = [write_buffers EXCEPT
                              ![result.fd] = IF @ # <<>> THEN @
                                             ELSE Left(c, Body(result.q))]
  /\ pc' = "arm"
  /\ UNCHANGED <<status, backlog, sent, flight, inb, got, epoll, batch, cur,
                 result, queues>>

(* Part of it: the rest replaces what write_buffers_ held.                  *)
SendPartOfBody ==
  /\ pc = "body" /\ sock[result.fd] # NoConn
  /\ LET c == sock[result.fd] IN
       /\ Accepts(c)
       /\ Left(c, Body(result.q)) # <<>>
       /\ Put(c, Body(result.q))
       /\ write_buffers' = [write_buffers EXCEPT
                              ![result.fd] = Left(c, Body(result.q))]
  /\ pc' = "arm"
  /\ UNCHANGED <<status, backlog, sent, flight, inb, got, epoll, batch, cur,
                 result, queues>>

(* epoll_ctl(EPOLL_CTL_MOD): the descriptor is polled again at once, so a   *)
(* condition that already holds counts as an edge.                          *)
Modify(f, events) ==
  /\ interest' = [interest EXCEPT ![f] = events]
  /\ ready' = IF Readable(sock[f]) \/ (events = "inout_et" /\ Writable(sock[f]))
                THEN ready \cup {f} ELSE ready
  /\ UNCHANGED sock

(* Mutation of Arm: EPOLLOUT is not asked for.                              *)
MutArmReadsOnly ==
  /\ pc = "arm"
  /\ Modify(result.fd, "in_et")
  /\ ResultDone
  /\ UNCHANGED <<net, batch, cur, write_buffers, queues>>

Arm ==
  /\ pc = "arm"
  /\ Modify(result.fd, "inout_et")
  /\ ResultDone
  /\ UNCHANGED <<net, batch, cur, write_buffers, queues>>

(* handle_write sends what it can of the rest, if there is an entry.        *)
WriteRest ==
  /\ pc = "write" /\ (write_buffers[cur] # <<>> => Accepts(sock[cur]))
  /\ LET c == sock[cur] IN
       IF write_buffers[cur] = <<>>
         THEN EventDone /\ UNCHANGED <<wire, write_buffers>>
         ELSE /\ Put(c, write_buffers[cur])
              /\ write_buffers' = [write_buffers EXCEPT ![cur] = Left(c, @)]
              /\ IF Left(c, write_buffers[cur]) = <<>>
                   THEN pc' = "disarm" /\ UNCHANGED cur
                   ELSE EventDone
  /\ UNCHANGED <<status, backlog, sent, flight, inb, got, epoll, batch,
                 result, queues>>

WriteClose ==
  /\ pc = "write" /\ write_buffers[cur] # <<>>
  /\ SendFails(sock[cur])
  /\ Close(cur)
  /\ write_buffers' = [write_buffers EXCEPT ![cur] = <<>>]
  /\ EventDone
  /\ UNCHANGED <<batch, result, queues>>

WriteKills ==
  /\ pc = "write" /\ write_buffers[cur] # <<>>
  /\ RaisesPipe(sock[cur])
  /\ Killed

(* Mutation of Disarm: EPOLLOUT stays asked for.                            *)
MutDisarmNot ==
  /\ pc = "disarm"
  /\ Modify(cur, "inout_et")
  /\ EventDone
  /\ UNCHANGED <<net, batch, result, write_buffers, queues>>

Disarm ==
  /\ pc = "disarm"
  /\ Modify(cur, "in_et")
  /\ EventDone
  /\ UNCHANGED <<net, batch, result, write_buffers, queues>>

-----------------------------------------------------------------------------
(* The worker threads.                                                      *)

(* Mutation of WorkerPop: front() without pop().                            *)
MutWorkerPeek(w) ==
  /\ pc # "stopped" /\ busy[w] = Idle /\ work_queue # <<>>
  /\ busy' = [busy EXCEPT ![w] = Head(work_queue)]
  /\ UNCHANGED <<net, epoll, loop, write_buffers, work_queue, results_queue>>

WorkerPop(w) ==
  /\ pc # "stopped" /\ busy[w] = Idle /\ work_queue # <<>>
  /\ busy' = [busy EXCEPT ![w] = Head(work_queue)]
  /\ work_queue' = Tail(work_queue)
  /\ UNCHANGED <<net, epoll, loop, write_buffers, results_queue>>

WorkerPush(w) ==
  /\ pc # "stopped" /\ busy[w] # Idle
  /\ results_queue' = Append(results_queue, busy[w])
  /\ busy' = [busy EXCEPT ![w] = Idle]
  /\ UNCHANGED <<net, epoll, loop, write_buffers, work_queue>>

-----------------------------------------------------------------------------
RunLoop == \/ EpollWait \/ Dispatch
           \/ Accept \/ AcceptAgain \/ AcceptThrows
           \/ ReadQuery \/ ReadAgain \/ ReadClose
           \/ ResultsDone \/ TryPop \/ ResultDropped \/ ResultClose \/ ResultKills
           \/ SendCount \/ SendBody \/ SendPartOfBody \/ Arm
           \/ WriteRest \/ WriteClose \/ WriteKills \/ Disarm

Worker(w) == WorkerPop(w) \/ WorkerPush(w)

Environment == \E c \in Conns : \/ Connect(c) \/ ClientSend(c) \/ Deliver(c)
                                \/ ClientRecv(c) \/ HangUp(c) \/ PeerReset(c)

Next == RunLoop \/ (\E w \in Workers : Worker(w)) \/ Environment

Spec == Init /\ [][Next]_vars

(* The threads run, the network delivers and clients read what arrives.     *)
(* No client has to connect or to ask.                                      *)
Fairness ==
  /\ WF_vars(RunLoop)
  /\ \A w \in Workers : WF_vars(Worker(w))
  /\ \A c \in Conns : WF_vars(Deliver(c)) /\ WF_vars(ClientRecv(c))

FairSpec == Spec /\ Fairness

-----------------------------------------------------------------------------
(* Properties.                                                              *)

Unit(c) == [q : {QueryId(c, n) : n \in 1..QueriesPerConn}, k : 1..QueryUnits]
ReplyUnit == [q : Queries, k : 1..FrameUnits]
Steps == {"wait", "events", "accept", "read", "write", "disarm",
          "results", "count", "body", "arm", "stopped"}

(* The types; what has been accepted by send() and not read by the client   *)
(* fits the kernel's buffer.                                                *)
NetTypeOK ==
  /\ status \in [Conns -> ConnStatus] /\ backlog \in Seq(Conns)
  /\ sent \in [Conns -> 0..QueriesPerConn] /\ got \in [Conns -> Nat]
  /\ DOMAIN flight = Conns /\ \A c \in Conns : flight[c] \in Seq(Unit(c))
  /\ DOMAIN inb = Conns /\ \A c \in Conns : inb[c] \in Seq(Unit(c))
  /\ wire \in [Conns -> Seq(ReplyUnit)]
  /\ \A c \in Conns : got[c] <= Len(wire[c]) /\ Len(wire[c]) <= got[c] + SendCap

LoopTypeOK ==
  /\ sock \in [Fds -> Conns \cup {NoConn}]
  /\ interest \in [Fds -> Interests] /\ ready \subseteq Fds
  /\ pc \in Steps /\ cur \in Fds \cup {Listener}
  /\ batch \subseteq [fd : Fds \cup {Listener}, conn : Conns \cup {NoConn},
                      ev : SUBSET {"in", "out"}]
  /\ write_buffers \in [Fds -> Seq(ReplyUnit)]

QueuesTypeOK ==
  /\ result \in Items \cup {NoItem}
  /\ work_queue \in Seq(Items) /\ results_queue \in Seq(Items)
  /\ busy \in [Workers -> Items \cup {Idle}]

TypeOK == NetTypeOK /\ LoopTypeOK /\ QueuesTypeOK

(* The loop never acts on a descriptor that was closed, or closed and given *)
(* to another connection, since epoll_wait reported it (server.cc:94-135):  *)
(* inside a batch only a descriptor's own event closes it.                  *)
NoStaleEvents ==
  /\ \A e \in batch : e.fd # Listener => sock[e.fd] = e.conn /\ e.conn # NoConn
  /\ pc \in {"read", "write", "disarm"} => sock[cur] # NoConn
  /\ pc \in {"body", "arm"} => sock[result.fd] # NoConn

(* "Should not happen" (server.cc:263): a descriptor watched for EPOLLOUT,  *)
(* or with such an event on its way to handle_write, has a buffer.          *)
WriteBufferFound ==
  /\ \A f \in Fds : interest[f] = "inout_et" =>
       write_buffers[f] # <<>> \/ (pc = "disarm" /\ cur = f)
  /\ \A e \in batch : "out" \in e.ev => write_buffers[e.fd] # <<>>
  /\ pc = "write" => write_buffers[cur] # <<>>

(* What handle_write is to send on a connection goes on with what is on     *)
(* its stream: never with the entry that a closed connection has left under *)
(* the same descriptor (server.cc:222, 247).                                *)
Armed(f) == interest[f] = "inout_et" \/ (pc = "arm" /\ result.fd = f)
Continues(stream, units) ==
  \E i \in 1..Len(stream) : /\ stream[i].q = units[1].q
                            /\ stream[i].k + 1 = units[1].k
RemainderIsOwn ==
  \A f \in Fds : Armed(f) /\ write_buffers[f] # <<>> =>
    Continues(wire[sock[f]], write_buffers[f])

(* Data or an end of stream on an edge-triggered descriptor is never left   *)
(* behind: an edge is pending, or the loop holds the event and will read.   *)
NoLostReadEdge ==
  \A f \in Fds : sock[f] # NoConn /\ interest[f] # "in" /\ Readable(sock[f]) =>
    \/ f \in ready
    \/ \E e \in batch : e.fd = f /\ "in" \in e.ev
    \/ pc \in {"read", "stopped"} /\ cur = f

(* The loop never goes to sleep on a remainder that has room again          *)
(* ("Continues sending any buffered data", server.h:114-115): epoll_wait    *)
(* has an edge to report.                                                   *)
NoLostWriteEdge ==
  pc = "wait" =>
    \A f \in Fds :
      sock[f] # NoConn /\ write_buffers[f] # <<>> /\ Space(sock[f]) > 0 =>
        interest[f] = "inout_et" /\ f \in ready

(* Every unit a connection is sent is part of an answer to one of its own   *)
(* queries ("back to the appropriate clients", server.h:123-124).           *)
NoMisdelivery ==
  \A c \in Conns : \A i \in 1..Len(wire[c]) : wire[c][i].q.conn = c

(* The stream a client receives is a sequence of whole replies: the units   *)
(* of two replies never mix and none is lost in the middle.                 *)
FramesIntact ==
  \A c \in Conns : \A i \in 1..Len(wire[c]) :
    /\ wire[c][i].k = ((i - 1) % FrameUnits) + 1
    /\ wire[c][i].k > 1 => wire[c][i].q = wire[c][i - 1].q

(* A query is nowhere duplicated between the receive buffer and the reply:  *)
(* it is queued, computed, queued again or being sent, and in one place.    *)
Copies(q) ==
  Cardinality({i \in 1..Len(work_queue) : work_queue[i].q = q})
  + Cardinality({w \in Workers : busy[w] # Idle /\ busy[w].q = q})
  + Cardinality({i \in 1..Len(results_queue) : results_queue[i].q = q})
  + (IF pc = "count" /\ result.q = q THEN 1 ELSE 0)
  + Cardinality(UNION {{<<c, i>> : i \in {j \in 1..Len(wire[c]) :
                                   wire[c][j] = [q |-> q, k |-> 1]}} : c \in Conns})
AtMostOnce == \A q \in Queries \ {Torn} : Copies(q) <= 1

(* A connection whose client is still there is never closed by the server   *)
(* ("if the client's socket buffer is full, the data is buffered for later  *)
(* transmission", server.h:130-131).                                        *)
KeepsHealthyConnections ==
  [][\A c \in Conns : status[c] = "open" => status'[c] # "closed"]_vars

(* The server reaps every connection whose client has gone.                 *)
ReapsDeadConnections ==
  \A c \in Conns : status[c] \in {"fin", "reset", "broken"}
                     ~> status[c] = "closed" \/ pc = "stopped"

(* Well-behaved clients get QueryService: every query answered once, on its *)
(* connection, in order.                                                    *)
Answered(c) ==
  [i \in 1..(got[c] \div FrameUnits) |-> wire[c][i * FrameUnits].q]
Service == INSTANCE QueryService
             WITH asked <- sent, replies <- [c \in Conns |-> Answered(c)]
ImplementsService == Service!SSpec
=============================================================================
