# TLA+ verification of the trade-data server

The program answers queries over a file of trades: a client sends a time range,
a resolution and a set of metrics; the server cuts the range into windows of one
resolution and returns, for every window, the minimum and maximum price, the mean
price or the total quantity. The TCP server (`src/server`) is a single-threaded
epoll loop with a pool of worker threads behind two locked queues; an older UDP
server (`src/server_udp`) answers in its loop. `process_data` makes the file of
trades from a CSV. This directory holds TLA+ models of it, TLC configurations, and proofs checked by TLAPS.
Paths below are relative to the repository; line numbers are those of the commit
beside this directory.

## The system

| component | state | operations | talks to |
|---|---|---|---|
| epoll loop, `EpollServer` (`src/server/server.cc`) | listening and client descriptors, their epoll registrations, the batch of events, `write_buffers_` | accept, `handle_read`, `process_results`, `send_result`, `handle_write` | kernel (sockets, epoll), both queues |
| `TSQueue` (`src/server/TS-queue.h`) | a `std::queue`, a mutex, a condition variable | `push`, `pop`, `try_pop` | loop pushes work, workers pop it and push results, loop polls results |
| workers, `worker_thread_loop` and `Query_engine::aggregator` | the query, the window, the buffer of results | one pass over the windows per query | queues, query engine |
| range functions of `Query_engine` | an open file, `trades_size` | two binary searches, a scan and the scaling of its value, per metric and window | the record file |
| TCP client (`src/client`, `client_main.cc`) | a socket | connect; then read a line, send the query, read count and bytes, decode and print | server |
| UDP server (`src/server_udp`) and client (`src/client_udp`, `client_main_udp.cc`) | a socket each, the server's edge-triggered | server: one datagram in, count and results out; client: read a line, send, read count and results, print | each other, query engine |
| `Mt_Queue` (`utils/mt_queue.h`), `sender`, `receiver` | | not used by the TCP server | |
| `process_data` | a CSV, the record file, an exit status | truncate, convert line by line | the query engines, through the file |

Hard to get right and hard to test, per component (the full list, with lines, is
`hazards` in `PROJECT.json`):

* **Loop.** A result names its client by descriptor number, long after the query
  was read. A handler closes descriptors that later events of the batch may name.
  Descriptors start level-triggered and become edge-triggered after the first
  partial send, so unread data and unused room are reported once. A client may
  read between `send` and `epoll_ctl`. Sends may be partial, fail, or raise
  SIGPIPE. Queries may arrive in pieces. Correct means: each query is answered
  once, whole, to the client that asked, and no client ends the loop.
* **Queue.** A push between the test and the sleep of a pop; several takers.
  Correct means: a FIFO queue, with no element lost or taken twice and no sleeper
  forgotten while there is work.
* **Workers.** Unsigned 64-bit time points wrap; a resolution of 0 does not
  advance; `aggregator` repeats the loop its caller already runs; the last window
  may be shorter. Correct means: every trade of the range is counted in one result
  of every metric, none outside it in any, and the client's decoding of the reply's
  bytes gives back what was computed.
* **Range functions.** Off-by-ones at both ends of the file, a size computed with
  the wrong record length, an exception no worker catches. Correct means: exactly
  the trades of the window are used and no read is out of bounds; the value fits
  32 bits and keeps the digits that fit.
* **Client.** `read_struct` does not tell the end of the stream from data, and
  main does not tell the end of its input from a line. Replies come in pieces.
  Correct means: what is printed is the whole reply to the last query, and the
  client does not hang when its server is gone.
* **UDP.** One `recvfrom` per edge leaves queries in the socket, and a full socket
  takes none and gives no edge. A reply is several datagrams without the number of
  their query, any of which may be dropped. Correct means: the server is never deaf
  or asleep with everyone waiting, unread queries get their turn, and what a client
  prints is one whole reply.
* **Data file.** The conversion may stop anywhere, and a server may have the file
  open. Correct means: what is in the file is the first part of one CSV, success
  means all of it, and no engine reads past the end of a file it has counted.

## Modules

| module | models | lines |
|---|---|---|
| `EpollServer` | loop, workers, both queues (as FIFO sequences), kernel and clients | `server.cc`, `utils-server.h` |
| `QueryService` | abstract: what a client is promised | `server.h:120-135`, `client_main.cc:88-97` |
| `TSQueue` | the queue with its lock and condition variable | `TS-queue.h` |
| `FifoQueue` | abstract: what a shared queue promises | |
| `WorkerLoop` | the two nested window loops of one query | `server.cc:15-65`, `query_engine.cc:74-121` |
| `ReplyCodec` | the fields of a reply, as they are laid out and cut up again | `query_engine.cc:81-118`, `client_main.cc:101-160` |
| `RangeScan` | constructor, searches and scan of a range function | `query_engine.cc:24-33, 51-59, 129-181` |
| `MetricValue` | the three range functions as a whole: what they accumulate and return | `query_engine.cc:129-322` |
| `ClientSession` | the command-line client and its connection | `client_main.cc:42-171`, `client.cc:20-100` |
| `UdpService` | the UDP server, its clients and their sockets | `server_udp.cc`, `sender_udp.cc:33-45`, `client_udp.cc:14-48`, `client_main_udp.cc:62-92` |
| `DataFile` | conversion of a CSV under a running server | `process_data_main.cc`, `query_engine.cc:24-59` |
| `MC*` | instances for TLC | |
| `*Proofs` | theorems about the module they are named after; `WorkerLoopProofs` also about `ReplyCodec` | |

How they fit together. `EpollServer` treats a queue operation as one atomic step
on a sequence; `TSQueue` shows that this is justified, since it implements
`FifoQueue`. `EpollServer` treats what a worker computes as one step from
`WorkerPop` to `WorkerPush`, during which everything else may move; `WorkerLoop`
models what happens in between, and `RangeScan`, extended by `MetricValue`, one
call of it; `ReplyCodec` extends `WorkerLoop` by what the client makes of the
results. `EpollServer` implements `QueryService` for clients that ask one query at
a time and stay (`MaxOutstanding` 1, `MayHangUp` FALSE), and `ClientSession` shows that
`client_main.cc` is such a client as long as its connection stands. `RangeScan`
takes the file as a constant; `DataFile` is where it comes from and how it changes,
with a query reduced to the reads below `trades_size` that `RangeScan` shows it to
do. `UdpService` stands alone: it shares the query engine with the TCP server and
nothing else.

### EpollServer

One action is one system call of the loop or one queue operation. `pc` says where
the loop is: `wait` (in `epoll_wait`), `events` (between two events of the batch),
`accept`, `read`, `write`, `disarm` (the `epoll_ctl` at the end of `handle_write`),
`results`, `count`, `body`, `arm` (the steps of `send_result`), `stopped` (`run()`
has thrown, or SIGPIPE has ended the process; the workers end with it). `cur` is
the descriptor a handler works on, `result` the item `send_result` works on.
`write_buffers[f]` is what is left of `write_buffers_[f]` after `sent_bytes`, and
the empty sequence stands for no entry. A descriptor that `send_result` closes
keeps its entry, as in the code.

Bytes are units: a query is `QueryUnits`, a reply `HeaderUnits` for the count and
then `BodyUnits`. A unit of a reply says which query it answers and its position,
so that mixing, loss and misdelivery can be seen on the `wire`. `recv` takes up to
one query's worth of units, whatever is there; `Decode` makes a query of them only
if they are the whole of one, and `Torn` otherwise (the rest of the struct is
uninitialised in the code, and what the worker makes of it does not matter here).

The kernel's part follows Linux: the lowest free descriptor is used; `close`
removes the registration and forgets unread data; an edge-triggered descriptor is
put on the ready list by arriving data, FIN or RST, by a full send buffer that
gets room, and by `EPOLL_CTL_MOD` when the condition already holds; it is
reported with the events that hold at the time of `epoll_wait`, which may be
both. A client's `close` sends RST when it leaves data unread, otherwise FIN, and a
FIN queues behind queries still on their way; a client that is gone answers data
with RST. `send` on a connection reset after its FIN was seen raises SIGPIPE; a
reset that comes first is reported by `send` or `recv` as an error. `SendCap`
units fit between `send` and the client.

Mapping of actions to code: `Accept*` 108-119, `ReadQuery`, `ReadAgain`,
`ReadClose` 167-195, `ResultsDone`, `TryPop` 199-209, `SendCount`, `SendBody`,
`SendPartOfBody`, `Arm`, `ResultClose`, `ResultDropped`, `ResultKills` 212-255,
`WriteRest`, `WriteClose`, `WriteKills`, `Disarm` 258-289, `WorkerPop`,
`WorkerPush` 19 and 62. The second test of `bytes_sent < 0` (232-242) can never be
true and has no action.

### TSQueue

A thread's call is a sequence of steps: take the lock, change or test the queue,
notify, give the lock back. `wait()` releases and blocks in one step, wakes on
notification or spuriously, and takes the lock again before it tests. `m_mutex`
is the owner. `popped` is a history of what each taker was given.

### WorkerLoop, RangeScan, MetricValue

All three are sequential: `Init` chooses the input and the actions are the turns of
the loops. `WorkerLoop` keeps the width of `uint64_t` as `Modulus`, so sums wrap; its
`out` is the list of window and metric of each result appended. `RangeScan` keeps
the created_at of each record only; `scanned` is the set of records the scan has
used. `total_quantity_in_range` and `mean_price_in_range` repeat the searches of
`min_max_price_in_range` line by line.

`MetricValue` adds to each step of the scan what the three functions accumulate,
and then their two scaling loops, one action per turn (`ScaleUp`, `ScaleDown`). A
double is an exact fraction `num / den`: the model shows that the algorithm is
right, not that the error of double arithmetic stays below a digit. The limits, the
factor and the bounds of the loops are constants.

### ReplyCodec

Every offset on either side is a multiple of five bytes, one mantissa and one
exponent, so the unit is a field. `Encode` is what the worker has appended to its
buffer; `Decoded` is what the client prints, by set and name; `Beyond` is what it
reads behind the end of the vector.

### ClientSession

`pc` is where `main` is: `input`, `send`, `count` and `bytes` (in `read_struct`),
`exited`. The server answers what it was asked, or closes or resets the connection
at any point of a reply; `arrived` is how much of what it sent has come. A reply is
a count, which one segment carries because the connection is idle when it is sent,
and a number of units. `LinkStates` are those of the connection seen from the
client: after `fin` the first `send` succeeds and is answered with a reset; after a
reset, `send` fails. `recv` returns 0 after a FIN, which `check_error(n < 0, ...)`
lets pass: `NoCount` leaves the count as it was, an arbitrary value of `Garbage`,
and `NoByte` leaves the byte 0. At the end of the input `ReadLine` goes on.

### UdpService

`pc` is where `run()` is: `wait`, `read` (before `recvfrom`), `reply` (in
`handle_trade_data_query`), `ended` (an exception). `edge` says that the socket is
on epoll's ready list: an arriving datagram puts it there, `epoll_wait` takes it
off, and `recvfrom` leaves it alone whatever is still unread. `results` is the size
of the engine's answer, any number up to `MaxResults`, because
`lowest_and_highest_prices` is declared and never defined. `next` is the datagram
to send: the count, then each result.

Server and clients are on one host, so that datagrams keep their order and are lost
only where a socket is full (`ServerBuf`, `ClientBuf`), or with a checksum that is
found wrong when they are read: that one has raised an edge and is not there
(`BadDatagram`). A client's main reads the reply only to a query for raw data or
prices; `Kinds` are what a user asks for. `recv` takes a whole datagram, so a
result taken for a count is a number of `Garbage`. `ask` and the `ask` of a
datagram are histories (a number modulo 2 is enough, since a client that reads
its replies has at most one query under way), and so are `got` and `chatty`.

### DataFile

`process_data` and the server are two processes without a lock between them. `disk`
is the file: for each record, which conversion (`version`) wrote it from which
line. What a line holds is one of three kinds: a trade, an empty line, or one on
which `stoul` and its like throw. `pc` is `open` between truncating the output and
finding the CSV, and `lines` in the loop. `good` is the state of the output stream.
`status` tells how the last conversion ended; `nocsv` exits with 0, like `ok`.

An engine is opened once, by its worker thread, which counts the records then. A
query reads any records below that count, in any order: the two binary searches and
the scan. Each `read_trade_data` seeks first, which empties the stream's buffer, so
it reads what is in the file now. With a count of 0 `trades_size - 1` wraps, and
the search begins beyond any file (`ReadThrows`).

## Runs

| run | module | what it asks | answer |
|---|---|---|---|
| `polite` | EpollServer | one query at a time, clients stay: is `QueryService` implemented, are frames intact, does the loop keep connections, never sleep on a remainder | holds, 17 222 states |
| `any` | EpollServer | pipelining and hang-ups: types, fresh events, buffers found, remainders of the connection's own reply, no lost read edge, at most one copy of a query | holds, 3.8 million states up to symmetry |
| `reap` | EpollServer | is a connection closed after its client has gone, with queries in one segment or two | holds unless the loop has stopped, 486 588 states |
| `reuse` | EpollServer | does every reply go to the client that asked | **no**: a descriptor number is reused |
| `queue` | TSQueue | is no wakeup lost, does it implement `FifoQueue` | holds, 20 997 states |
| `windows` | WorkerLoop, ReplyCodec | every query over a small time line; is every trade of the range counted once under each metric; does what the client prints equal what was computed, for all metrics or one window | holds, 72 648 states |
| `subset` | ReplyCodec | ... and for any metrics and any number of windows | **no**: the client's sets are always of 20 bytes |
| `short` | MetricValue | every sorted file of up to 4 records, every window and metric: reads in bounds, exact scan, the value right to its last digit | holds, 103 085 states |
| `long` | RangeScan | 31 records | **no**: counted as 32, a read throws |
| `session` | ClientSession | is the client that of `QueryService`, does it wait only for what comes, does it end when its server is gone | holds, 20 920 states |
| `udp` | UdpService | is the server deaf, or asleep while all wait; are unread queries read in turn; is what a client prints one whole reply | holds, 1.07 million states |
| `rewrite` | DataFile | what is in the file at any moment, is it complete after success, does a read throw, does a query see trades of a replaced CSV | holds, 813 961 states |

Every property of a passing run has a mutant of the code (the `Mut...` operators,
next to what they mutate) that breaks it.

Other behaviours the models exhibit, which have no run of their own:

* clients can end the server, although `server.h:58-59` says that `run()` goes on
  "handling incoming connections, client requests, and outgoing responses until the
  server is stopped": `pc` becomes `stopped` in `any`, `reap` and `reuse` when a
  client leaves while its reply is sent, so that the count is answered with a reset
  and the body raises SIGPIPE (`server.cc:226`), and in `reap` and `reuse` also when
  there are more clients than descriptors and `accept` fails (`server.cc:115`). That
  is why `ReapsDeadConnections` excepts a loop that has stopped, and no property says
  that it does not;
* with the configuration of `polite` and `MaxOutstanding = 2`, `FramesIntact` fails:
  the second result is sent in the middle of the first, or its remainder replaces
  that of the first (`server.cc:247`); and so does `NoLostWriteEdge`: an event that
  carries both EPOLLIN and EPOLLOUT is spent on `handle_read` (`server.cc:120-124`).
  Workers may finish two queries of one connection in either order, and the replies
  do not say which they answer;
* with the configuration of `any`, `KeepsHealthyConnections` fails: when the socket
  buffer is full at the next result, `send_result` closes the connection
  (`server.cc:219`; the branch for EAGAIN at 232-242 comes after the returns),
  although `server.h:130-131` says that "if the client's socket buffer is full, the
  data is buffered for later transmission";
* in `reap`, a query that comes in two segments is queued as two queries `Torn`,
  each partly uninitialised (`server.cc:170-171`);
* in `WorkerLoop`, a query with resolution 0 keeps its worker in the loop for ever
  (`server.cc:40`), although `query.h:15` says "0 indicates raw data feed":
  `Terminates` is about queries whose loop advances;
* in `WorkerLoop`, `WindowsWithinQuery` and `CountedOnce` are about queries whose
  last sum does not wrap: otherwise the windows start again from small times;
* `aggregator` appends a result for every window, also for one without trades, whose
  lowest price is then none (`NoPrice`, printed as `0e0`) and whose quantity is 0
  (`query_engine.cc:81-118`). The performance tests expect otherwise: in
  `src/test/performance/performance_tests.json` tests 4, 8, 12 and 15, among others,
  leave out the windows without trades (test 4 asks for 50000 windows and expects
  two results, test 15 for one and expects nothing), and the results they expect begin
  with `Timestamp:`, which the client does not print and for which a reply has no
  time. `RoundTrip` and `ReturnsWindowValue` follow the code; `CountedOnce` is about
  trades, and true of both;
* in `RangeScan`, a window before the first trade is answered from the first and one
  after the last trade from the last, which is why `ScanIsExact` and
  `ReturnsWindowValue` are about windows that reach into the file's time;
* in `ClientSession`, a reply cut short by the server's close is printed with zeros
  in place of what is missing, or after an uninitialised count, although
  `client.cc:84` promises an exception "if reading fails": `PlaysByService` is about
  a connection that stands. At the end of its input the client asks again and again
  a query nothing was read into (`client_main.cc:88-94`), until the server is gone;
* in `UdpService`, a client that has asked for a metric main does not read takes the
  reply to it for the next one, and a result's first bytes for a count
  (`client_main_udp.cc:79-80`): `RepliesWhole` is about clients that have not. A
  client whose query or result is dropped waits for ever (`client_udp.cc:40, 46`),
  and so do all that wait when a failing `sendto` has ended the server
  (`server_udp.cc:95`), or when the one whose query would have given the next edge
  has gone: `NotAllStuck` and `ServedInTurn` are about queries that still come. At
  the end of its input the client sends the last query again and again;
* in `DataFile`, a CSV that cannot be opened leaves an empty file and the status 0
  (`process_data_main.cc:17-21`), and so does a full disk with what it holds
  (79-80). A server started on an empty or missing file ends at its first query, and
  one whose file is converted again ends at a query that reads further than the
  conversion has got: these are the engines that `OnlyExposedThrow` excepts. A query
  during a conversion may see trades of both CSVs. A header in the middle of a CSV
  is meant to be skipped (line 30) but ends the conversion, since `getline` has
  removed the line feed the comparison asks for.

### Bounds, and why they are enough

* Two connections, two workers and one or two descriptors: the hazards are about
  one connection's two replies, two connections sharing a descriptor over time, two
  workers finishing in either order, or a batch with two events. `reap` and
  `reuse` have one descriptor, so it is reused and `accept` can fail.
* Two queries per connection (one in `reap` and `reuse`), and one or two
  outstanding: one for a client like `client_main.cc`, two for a pipelining one
  (`any`). With two, the second finds the descriptor already edge-triggered.
* The send buffer holds two units and a body three (two in `any` and `reap`): the
  count goes out alone, the body is sent in several pieces, the buffer is full at
  each of the three sends.
* `MaxEvents` 3 covers the listener and two connections; `any` has 2 and `reap` 1,
  so events stay behind for the next `epoll_wait`.
* A query is one unit, except in `reap`, where it is two and may be split.
* `queue`: two pushers of two elements, two poppers, one poller: more elements than
  sleepers, and an awake thread can find the queue emptied by another.
* `windows`: time points 0..7 with every start, end, resolution and combination of
  metrics, wrapping included, and trades at any time; `MaxResults` (24) stops only loops that never end.
* `subset`: the same, without the bound on metrics and windows.
* `short`: four records over three times leave room for equal times, a gap, and
  windows at, between and outside them; up to 30 records the size is right, and
  the proofs cover those. The limits of the scaling are scaled down together: the
  mantissa goes to 429 as the real one to 4.29e9, values below 100 as below 1e9 are
  scaled up, the exponent stops at -2 as at -18, and prices and quantities are
  tenths; the amounts chosen reach a sum of 0, one and two turns of either loop, a
  value that stays small at the exponent's bound, and rounding in both directions.
* `session`: three queries typed and two more after the end of the input; replies
  of 0, 1 and 3 units; an uninitialised count is negative, 0 or 2. The first reply
  may be cut anywhere, and at least two queries follow: one that the closed server
  answers with a reset, and one whose `send` fails.
* `udp`: two clients, one of them possibly chatty; sockets of two datagrams drop
  from the third, which two queries and a repeated one, or a count and two results,
  reach; a result read as a count is negative (as one too large) or 1. Clients ask
  without end.
* `rewrite`: two engines opened at different times; three conversions, so that one
  lies between an engine's opening and its query, and one between two of its reads;
  two lines of each kind. That an engine that counts more than 30 records is exposed
  too (`CountedRight`) shows only in `long` and in the proofs, which bound neither
  the CSVs nor the file.

Symmetry (of connections and workers) is used only in runs without liveness.
Deadlock is checked in `polite`, `queue` and `rewrite`. It is not checked where the system
stops: after a hang-up that ended the loop, when a function returns, when the
client has exited, or when an exception has ended the UDP server and its clients
wait.

### Fairness

`EpollServer`: weak fairness of the loop, of each worker, of delivery and of
clients reading: each is a thread, or the network, that is not stopped by the
others; `epoll_wait` returns after 100 ms at the latest. Clients need not connect,
ask or hang up. `TSQueue`: weak fairness of a thread inside the lock, strong
fairness of taking the lock, because another thread may take it again and again
between; a mutex that starves one of a few threads for ever is excluded. Spurious
wakeups and pushes are not required. `WorkerLoop` and `MetricValue` are sequential:
weak fairness of `Next` and `VNext`. `ClientSession`: weak fairness of the client,
of delivery and of the server's answer, which `polite` shows for a server that does
not close; a line need not be typed, but the end of the input does not block; the
server need not close. `UdpService`: weak fairness of the server's one thread;
users may type or not, and `ServedInTurn` assumes that edges keep coming.
`DataFile` has no liveness: nobody need run the conversion or the server.

## Proofs

TLAPS checks these for all values of the constants that satisfy the `ASSUME` of
the module (finite sets of threads and connections, positive sizes, descriptors
that are not the listener's).

* `EpollServerProofs`, for any client: `TypeCorrect`, `EventsAreFresh`,
  `BufferIsFound`, `RemaindersAreOwn`, `NoReadEdgeIsLost`, `AnswersAtMostOnce`. None of them is inductive
  alone. Types need to know that a handler's descriptor is open; that needs fresh
  events. The inductive invariant
  `IInv` is `TypeOK` with `ControlInv`: a batch holds one event per descriptor, is
  empty when results are sent, and no longer holds the event being handled; so the
  only close that can happen while events are pending is that of the handler's own
  descriptor, which no other event names. `WriteBufferFound` follows because the
  remainder is stored before EPOLLOUT is asked for and erased before it is
  dropped, and in between only the loop acts on either. `RemaindersAreOwn` needs more, since a
  descriptor that `send_result` closes leaves its entry for the next connection:
  `OwnInv` says that what is registered for EPOLLOUT, or about to be, holds units of
  one reply in a row, and that the unit before the first of them is on the stream;
  a stale entry is not registered, and is replaced before it is. `NoLostReadEdge` is then
  inductive relative to `IInv`. For `AtMostOnce`, `OnceInv` says of each query that
  the places it can be in (stream, work queue, worker, results queue, being sent,
  wire) exclude each other and hold it at most once, and that what is stored or
  sent after a count never begins a reply (`RestInv`); every step moves a query
  from one place to the next.
* `EpollServerProofs`, for polite clients (`Polite`: one query at a time, no hang-up,
  a query that arrives whole, a count smaller than the send buffer, which `polite`
  instantiates), any number of them and any size of a body and a buffer:
  `RepliesReachTheirClient`, `RepliesAreFramed`, `NoWriteEdgeIsLost`,
  `HealthyConnectionsAreKept` and `PoliteClientsGetTheService`, the safety part of `ImplementsService`.
  `PoliteInv` says that a query under way is the last its client has asked, that the
  client has read every earlier reply, and that nothing of its own reply is sent or
  stored (`Waiting`). So `send` always finds room (`RoomForReply`), no step closes or
  kills (`PoliteStep`), and a connection with a remainder has nothing to read, which
  makes EPOLLOUT its only event: the branch for EPOLLIN cannot swallow it. The i-th
  unit of a stream is always `ReplyAt(c, i)`; with the length of the stream a
  multiple of a frame, or a count, or a frame less the remainder, each `send`
  continues where the last one stopped. What a client has been answered is then a
  function of how much it has read (`AnsweredIs`), from which the refinement follows.
  That `OnceInv` holds is used: when a reply is sent its query is nowhere else.
* `TSQueueProofs`: `TypeCorrect`, `Correctness` (`MonitorInv`, `NoLostWakeup`) and
  `ImplementsFifoSafety`. `NoLostWakeup` counts: while a thread sleeps, awake
  threads are at least as many as elements. A push adds one of each, a
  notification swaps the pusher for a woken sleeper, a take removes one of each,
  and a thread goes to sleep only when the queue is empty. That each step moves at
  most one thread comes from the lock, so `MonitorInv` is part of the invariant.
* `WorkerLoopProofs`, about the loops: `AssertNeverFires`, `AtMostOneInterval`,
  `WindowsCorrect`, `TradesCountedOnce`.
  `LoopInv` relates the inner loop's variables to the outer window; the inner loop
  ends after one turn because its sum either reaches the window's end or wraps
  below it only when the window's own end was already cut. `TradesCountedOnce` needs
  the position of every result: after `w` windows `out` holds `w` times as many results
  as metrics are asked for, and in the middle of one as many more as there are metrics
  below `i` (`Progress`), and each result is the `Entry` that belongs at its
  `Position` (`CompleteInv`). A time of the range is in one window only, the quotient
  of its distance from the start (`OneEntryCounts`); that window is before the one at
  which the loop has stopped, and two results of it have different positions because
  their metrics differ (`BelowTells`).
* `WorkerLoopProofs`, about the bytes: `RoundTrips`. `LayoutInv` counts fields as
  `Progress` counts results: every field of a window that is complete is at `Place`,
  the offset `Index` gives within as many sets of `Width` fields. The client reads it
  there when its sets of `SetSize` fields are as wide, or when there is only the set
  at offset 0 (`NumSetsIs`); these are the two cases of `RoundTrip`, and `subset`
  shows that there is no third. That one more result appends its fields and moves
  nothing (`EncodeAppend`) rests on what the recursive function in `FlattenSeq`
  returns.
* `RangeScanProofs`: `NoReadThrows`, `ScanCorrect`, for sorted files of 1 to 30
  records, where the division by 31 gives the right count. The invariant is that
  of binary search: everything left of `left` is before the bound and everything
  from `right` on is not.
* `MetricValueProofs`: `ValueFits`, for every file, sorted or not, and all limits;
  the type invariant is inductive because `ReturnValue` is guarded by the negation
  of `Large`, and rounding a fraction that is at most an integer does not pass it
  (`RoundFits`). `ValueKeepsDigits` needs `DigitsInv`: the loop up leaves a value that
  is not small, unless the exponent stopped it, and each division leaves one that
  was above the limit before it; rounding takes less than half a unit from either
  (`RoundKeeps`, `RoundAfterDivision`). `ValueIsTheWindows` says that what is returned
  is the window's lowest and highest price, mean price or quantity:
  `AccumulatedInv` that the accumulators hold the sums (or the extremes) over the
  records scanned so far, and `ScaledInv` that `num / den` is this value in units of the power `exp` of the radix,
  whichever way the loops have moved it. It rests on how a sum over a set and a power
  change by one element (`SumAdd`, `PowerFacts`). `ImplementsScan` shows that the whole function takes only steps of
  `RangeScan`, from which `ValueReadsInBounds` and `ValueScansExactly` follow.
* `ClientSessionProofs`: `TypeCorrect`, `StreamDrained`, `IsServedClient`. The
  inductive invariant `Exchange` says, while the connection stands, where the last
  query's reply is: not asked for, still with the server, on the stream with its
  count, or divided between what was read and what is on the stream; unit by unit,
  so that the pieces it comes in do not matter.
* `UdpServiceProofs`: `TypeCorrect`, `ServerIsNeverDeaf`, `NeverStuck`,
  `RepliesAreWhole`. `Room` counts: with no edge pending and the server asleep, the
  socket has room, because the `recvfrom` of the last edge took one datagram and
  every datagram since has given an edge. For `NeverStuck` the invariants are that a
  client that reads its replies has at most one query under way (`TurnInv`), so
  that the one the server has just answered has none in the socket when the server
  goes to sleep (`SomeRead`).
  For `RepliesAreWhole`, `OrderInv` says that what a client has read, what is in its
  socket and what the server has still to send are parts of one reply, in order;
  where one was dropped, the rest never adds up to a whole one.
* `DataFileProofs`: `TypeCorrect`, `FileHoldsPrefix`, `SuccessMeansComplete`,
  `ReadsNoOldTrades`, `ThrowsOnlyExposed`. The writer's part of the invariant ties
  the file to `line`. The readers' part says that an engine opened on the
  version that is still there, and that has counted at most 30 records, has counted
  no more than there are: the division by 31 gives no less than the number of
  records, and more than 30 for more than 30 (`CountsRight`). Every step
  of the writer but `Truncate` keeps this because the file only grows, and `Truncate`
  because it makes the engine one of an older version.

Sums, powers and `FlattenSeq` are recursive. The induction theorems of the library
take an operator and cannot be used with these provers, so the proofs about them
go by a least counterexample instead: `WFMin` gives the least number, or the least
subset, for which two unfoldings would differ or none would exist
(`LeastNumber`, `LeastSubset`), and one unfolding contradicts it.

Only model-checked: the counterexamples of the violation runs, and liveness (`ReapsDeadConnections`, `Terminates`, `Answers`,
`WaitEnds`, `GoneServerEndsClient`, `ServedInTurn`, the fairness part of
`ImplementsFifo` and of `ImplementsService`), which depends on ENABLED and is out of
the prover's reach. Every other property of a passing run is a theorem.

## Not modelled, and why

* The rounding errors of doubles in the sums and in the scaling, and negative
  zero, infinities and the like, which the records cannot hold. The exponent of a
  result is an `int8_t` in the code (`query_engine.cc:232, 306`) and unbounded in
  `ScaleDown`; only sums of records whose own exponent is near 127 could tell.
  `send_raw_data` has no caller.
* The client's command line and its log; `read_struct` of types other than `char`.
* An empty result (a query whose range is empty): `send` of zero bytes.
* `epoll_wait` interrupted by a signal, errors of `epoll_ctl`, `listen`, `bind`;
  memory and queue sizes (the queues are unbounded in the code).
* What the fields of a trade hold: `stoul` narrowed to 32 bits, exponents to 8
  (`process_data_main.cc:38-56`). A read error of the CSV, which `getline` takes for
  its end. `check.cc` prints a record file.
* UDP between hosts: datagrams that overtake each other. The UDP server does not
  link as it stands (`lowest_and_highest_prices` has no definition); the model is of
  its loop with any answer. `OffloadQueue`, `send_data` and `execute_task` have no
  caller.
* `Mt_Queue`, `sender` and `receiver` are used by no server. Tests, build files and
  logging.

## Plan

Done: all modules above, and a proof module for each detailed one. What is left, in
this order:

1. `ClientSession` and `EpollServer` composed over one connection, instead of each
   with an environment that stands for the other.
2. `Mt_Queue`, once something uses it: another implementation of `FifoQueue`, with
   a bound on the semaphore.
