----------------------------- MODULE UdpService -----------------------------
(***************************************************************************)
(* The UDP server (server_udp.cc), its clients (client_main_udp.cc and     *)
(* client_udp.cc) and the sockets between them, on one host: a datagram is *)
(* put in the receiver's socket at once, or dropped when that is full.     *)
(* The server's socket is edge-triggered and read once for every edge. A   *)
(* reply is a datagram with the count and one for each result.             *)
(***************************************************************************)
EXTENDS Integers, Sequences

CONSTANTS
  Clients,
  Chatters,         (* those whose users also ask for what main never reads *)
  MaxResults,       (* bound on the results of a query                      *)
  ServerBuf,        (* datagrams the server's socket holds                  *)
  ClientBuf,        (* ... and a client's                                   *)
  Garbage           (* what the first bytes of a Result are, read as count; *)
                    (* a negative one stands for all those too big          *)

ASSUME UdpAssumption ==
  /\ Clients # {} /\ Chatters \subseteq Clients
  /\ MaxResults \in Nat /\ ServerBuf \in Nat \ {0} /\ ClientBuf \in Nat \ {0}
  /\ Garbage \subseteq Int

(* What is asked decides whether main reads the reply: raw data             *)
(* (resolution 0) and prices (metrics & 1) are read, the rest is not.       *)
Awaited == {"raw", "prices"}
Kinds(c) == IF c \in Chatters THEN Awaited \cup {"other"} ELSE Awaited

VARIABLES
  pc,               (* of run(): wait, read, reply; or ended, by a throw    *)
  edge,             (* the socket is on epoll's ready list                  *)
  inbox,            (* queries in the server's socket                       *)
  task,             (* the query that handle_trade_data_query answers       *)
  results,          (* how many results it has                              *)
  next,             (* the datagram to send next: 0, the count, or a result *)
  cpc,              (* of a client's main: stdin, count, records; or exited *)
  ask,              (* history: the last query's number, modulo 2           *)
  sock,             (* datagrams in a client's socket                       *)
  left,             (* records that read_struct has still to read           *)
  chatty,           (* history: it has asked for what main does not read    *)
  got               (* history: what read_struct has read, as long as not   *)

server == <<pc, edge, inbox, task, results, next>>
clients == <<cpc, ask, sock, left, chatty, got>>
vars == <<server, clients>>

Query == [from: Clients, ask: 0..1]
Datagram == [ask: 0..1, n: 0..MaxResults, part: 0..MaxResults]

Init ==
  /\ pc = "wait" /\ edge = FALSE /\ inbox = <<>>
  /\ task \in [from: Clients, ask: {0}] /\ results = 0 /\ next = 0
  /\ cpc = [c \in Clients |-> "stdin"]
  /\ ask = [c \in Clients |-> 0]
  /\ sock = [c \in Clients |-> <<>>]
  /\ left = [c \in Clients |-> 0]
  /\ got = [c \in Clients |-> <<>>]
  /\ chatty = [c \in Clients |-> FALSE]

-----------------------------------------------------------------------------
(* The server: run().                                                       *)

Wake ==
  /\ pc = "wait" /\ edge
  /\ edge' = FALSE
  /\ pc' = "read"
  /\ UNCHANGED <<inbox, task, results, next, clients>>

(* Mutation of ReadQuery: the newest datagram is taken.                     *)
MutReadsNewest ==
  /\ pc = "read" /\ inbox # <<>>
  /\ task' = inbox[Len(inbox)]
  /\ inbox' = SubSeq(inbox, 1, Len(inbox) - 1)
  /\ results' \in 0..MaxResults
  /\ next' = 0
  /\ pc' = "reply"
  /\ UNCHANGED <<edge, clients>>

(* Mutation of ReadQuery: the queries are counted, not taken.               *)
MutPeeks ==
  /\ pc = "read" /\ inbox # <<>>
  /\ task' = Head(inbox)
  /\ results' \in 0..MaxResults
  /\ next' = 0
  /\ pc' = "reply"
  /\ UNCHANGED <<edge, inbox, clients>>

(* One recvfrom, and the answer of the query engine: any number of results. *)
ReadQuery ==
  /\ pc = "read" /\ inbox # <<>>
  /\ task' = Head(inbox)
  /\ inbox' = Tail(inbox)
  /\ results' \in 0..MaxResults
  /\ next' = 0
  /\ pc' = "reply"
  /\ UNCHANGED <<edge, clients>>

(* count < 0: logged, and on to the next event.                             *)
ReadFails ==
  /\ pc = "read" /\ inbox = <<>>
  /\ pc' = "wait"
  /\ UNCHANGED <<edge, inbox, task, results, next, clients>>

(* What the kernel does with a datagram for client c.                       *)
Deliver(c, d) ==
  sock' = IF cpc[c] # "exited" /\ Len(sock[c]) < ClientBuf
            THEN [sock EXCEPT ![c] = Append(@, d)] ELSE sock

Reply == [ask |-> task.ask, n |-> results, part |-> next]

(* The sendto of the count, or of a result; the last one returns to run().  *)
SendReply ==
  /\ pc = "reply"
  /\ Deliver(task.from, Reply)
  /\ IF next = results
       THEN pc' = "wait" /\ results' = 0 /\ next' = 0
       ELSE next' = next + 1 /\ UNCHANGED <<pc, results>>
  /\ UNCHANGED <<edge, inbox, task, cpc, ask, left, got, chatty>>

(* bytes_sent < 0, as when the non-blocking socket has no room, or, before  *)
(* the count, a read of the query engine: thrown, and nothing catches it.   *)
SendFails ==
  /\ pc = "reply"
  /\ pc' = "ended"
  /\ UNCHANGED <<edge, inbox, task, results, next, clients>>

(* A datagram that a later checksum rejects: reported, and not there.       *)
BadDatagram ==
  /\ pc # "ended"
  /\ edge' = TRUE
  /\ UNCHANGED <<pc, inbox, task, results, next, clients>>

-----------------------------------------------------------------------------
(* A client: main and read_struct.                                          *)

(* The kernel's part: the query is in the server's socket, with an edge; or *)
(* dropped, without one, when that is full or there is no server.           *)
Arrive(query) ==
  IF pc # "ended" /\ Len(inbox) < ServerBuf
    THEN inbox' = Append(inbox, query) /\ edge' = TRUE
    ELSE UNCHANGED <<inbox, edge>>

(* A line of input, or nothing at the end of it: the query is sent again.   *)
Ask(c, kind) ==
  /\ cpc[c] = "stdin"
  /\ ask' = [ask EXCEPT ![c] = IF chatty[c] THEN @ ELSE 1 - @]
  /\ Arrive([from |-> c, ask |-> ask'[c]])
  /\ cpc' = [cpc EXCEPT ![c] = IF kind \in Awaited THEN "count" ELSE "stdin"]
  /\ chatty' = [chatty EXCEPT ![c] = @ \/ kind \notin Awaited]
  /\ UNCHANGED <<pc, task, results, next, sock, left, got>>

AskFails(c) ==
  /\ cpc[c] = "stdin"
  /\ cpc' = [cpc EXCEPT ![c] = "exited"]
  /\ sock' = [sock EXCEPT ![c] = <<>>]
  /\ UNCHANGED <<server, ask, left, got, chatty>>

(* The datagram that recv takes; what it holds beyond the buffer is lost.   *)
Receive(c) ==
  /\ sock[c] # <<>>
  /\ sock' = [sock EXCEPT ![c] = Tail(@)]
  /\ got' = [got EXCEPT ![c] = IF chatty[c] THEN @ ELSE Append(@, Head(sock[c]))]

(* The count a datagram is taken for.                                       *)
CountIn(d) == IF d.part = 0 THEN {d.n} ELSE Garbage

(* Mutation of Resize: one record less.                                     *)
MutOneLess(c, count) ==
  IF count < 0
    THEN cpc' = [cpc EXCEPT ![c] = "exited"] /\ UNCHANGED left
    ELSE /\ cpc' = [cpc EXCEPT ![c] = "records"]
         /\ left' = [left EXCEPT ![c] = IF count = 0 THEN 0 ELSE count - 1]

(* A vector of that many records, or std::length_error.                     *)
Resize(c, count) ==
  IF count < 0
    THEN cpc' = [cpc EXCEPT ![c] = "exited"] /\ UNCHANGED left
    ELSE /\ cpc' = [cpc EXCEPT ![c] = "records"]
         /\ left' = [left EXCEPT ![c] = count]

ReadCount(c) ==
  /\ cpc[c] = "count"
  /\ Receive(c)
  /\ \E count \in CountIn(Head(sock[c])) : Resize(c, count)
  /\ UNCHANGED <<server, ask, chatty>>

ReadRecord(c) ==
  /\ cpc[c] = "records" /\ left[c] > 0
  /\ Receive(c)
  /\ left' = [left EXCEPT ![c] = @ - 1]
  /\ UNCHANGED <<server, cpc, ask, chatty>>

(* The records are printed, and the next line is read.                      *)
PrintRecords(c) ==
  /\ cpc[c] = "records" /\ left[c] = 0
  /\ cpc' = [cpc EXCEPT ![c] = "stdin"]
  /\ got' = [got EXCEPT ![c] = <<>>]
  /\ UNCHANGED <<server, ask, sock, left, chatty>>

ServerNext == Wake \/ ReadQuery \/ ReadFails \/ SendReply \/ SendFails
ClientNext(c) == \/ \E kind \in Kinds(c) : Ask(c, kind)
                 \/ AskFails(c) \/ ReadCount(c) \/ ReadRecord(c) \/ PrintRecords(c)

Next == ServerNext \/ BadDatagram \/ \E c \in Clients : ClientNext(c)

(* The server's thread is never descheduled for ever; users may type or     *)
(* not.                                                                     *)
Spec == Init /\ [][Next]_vars /\ WF_vars(ServerNext)

-----------------------------------------------------------------------------
(* Properties.                                                              *)

TypeOK ==
  /\ pc \in {"wait", "read", "reply", "ended"} /\ edge \in BOOLEAN
  /\ inbox \in Seq(Query) /\ Len(inbox) <= ServerBuf
  /\ task \in Query
  /\ results \in 0..MaxResults /\ next \in 0..(MaxResults + 1)
  /\ pc = "reply" => next <= results
  /\ cpc \in [Clients -> {"stdin", "count", "records", "exited"}]
  /\ ask \in [Clients -> 0..1]
  /\ sock \in [Clients -> Seq(Datagram)]
  /\ left \in [Clients -> Nat]
  /\ got \in [Clients -> Seq(Datagram)]
  /\ chatty \in [Clients -> BOOLEAN]

Waits(c) == cpc[c] \in {"count", "records"}
Unread(c) == \E i \in 1..Len(inbox) : inbox[i].from = c
AllReadReplies == \A c \in Clients : ~chatty[c]

(* In epoll_wait, with nothing to report.                                   *)
Sleeps == pc = "wait" /\ ~edge

(* The server never sleeps on a full socket, although it reads only one     *)
(* query for each edge (server_udp.cc:57): the kernel drops what arrives at *)
(* a full socket without an edge, so the server would be deaf for ever.     *)
NeverDeaf == Sleeps => Len(inbox) < ServerBuf

(* The server leaves queries unread when several come with one edge; but as *)
(* long as every client reads its replies, it never sleeps with a query of  *)
(* each of them unread, which would leave all of them waiting.              *)
NotAllStuck ==
  AllReadReplies /\ Sleeps => \E c \in Clients : ~(Waits(c) /\ Unread(c))

(* What a client prints is the whole reply to its last query, count and     *)
(* results in order, unless it has asked for what it does not read: replies *)
(* carry no sign of the query they answer (client_main_udp.cc:69-91).       *)
WholeReply(c) ==
  /\ Len(got[c]) = got[c][1].n + 1
  /\ \A i \in 1..Len(got[c]) : got[c][i] = [ask |-> ask[c], n |-> got[c][1].n, part |-> i - 1]
RepliesWhole ==
  \A c \in Clients :
    ~chatty[c] /\ cpc[c] = "records" /\ left[c] = 0 => WholeReply(c)

(* A query that the server left unread is read in its turn as long as other *)
(* queries keep coming, whoever sends them, unless a sendto fails.          *)
ServedInTurn ==
  []<>edge => \A c \in Clients :
                Unread(c) ~> (~Unread(c) \/ chatty[c] \/ pc = "ended")
=============================================================================
