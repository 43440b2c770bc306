--------------------------- MODULE ClientSession ---------------------------
(***************************************************************************)
(* The command-line client (client_main.cc and client.cc) and what a       *)
(* server may do to it: read a line, send the query, read the count and    *)
(* then as many bytes one by one, print.  The bytes themselves are the     *)
(* subject of ReplyCodec; here a reply is a count, which one segment       *)
(* carries because the connection is idle when it is sent, and a number of *)
(* units that arrive in any pieces.                                        *)
(***************************************************************************)
EXTENDS Integers, Sequences

CONSTANTS
  Me,               (* the name of the connection                           *)
  Lines,            (* queries typed before the input ends                  *)
  MaxQueries,       (* bound: queries sent                                  *)
  BodySizes,        (* how many units a reply may have                      *)
  Garbage,          (* what an int32_t may hold that nothing was read into  *)
  OneShot           (* built with TESTMODE: stop after one query            *)

ASSUME SessionAssumption ==
  /\ Lines \in Nat /\ MaxQueries \in Nat
  /\ BodySizes \subseteq Nat /\ Garbage \subseteq Int /\ OneShot \in BOOLEAN

VARIABLES
  pc,               (* where main() is                                      *)
  typed,            (* lines read                                           *)
  sent,             (* queries sent                                         *)
  link,             (* see LinkStates                                       *)
  waiting,          (* queries the server has and has not answered          *)
  stream,           (* units the server has sent and the client not read    *)
  arrived,          (* how many of these have arrived                       *)
  count, output,    (* of read_struct                                       *)
  printed           (* the replies printed                                  *)

client == <<pc, typed, count, output, printed>>
server == <<waiting, stream, arrived, link>>
vars == <<client, sent, server>>

(* fin: the server has closed.  broken: and has answered data with a reset. *)
(* reset: the connection was reset before the client saw a FIN.             *)
LinkStates == {"open", "fin", "broken", "reset"}

(* The units of the reply to the q-th query; k = 0 is the count.            *)
Unit(q, size, k) == [q |-> q, k |-> k, of |-> size]
Body(q, size) == [k \in 1..size |-> Unit(q, size, k)]
Reply(q, size) == <<Unit(q, size, 0)>> \o Body(q, size)
Zero == Unit(0, 0, 0)        (* a char of a new vector                      *)

Init ==
  /\ pc = "input" /\ typed = 0 /\ sent = 0
  /\ link = "open" /\ waiting = <<>> /\ stream = <<>> /\ arrived = 0
  /\ count = 0 /\ output = <<>> /\ printed = <<>>

-----------------------------------------------------------------------------
(* The server and the network.                                              *)

Answer ==
  /\ link = "open" /\ waiting # <<>>
  /\ \E size \in BodySizes : stream' = stream \o Reply(Head(waiting), size)
  /\ waiting' = Tail(waiting)
  /\ UNCHANGED <<client, sent, arrived, link>>

Arrive ==
  /\ arrived < Len(stream) /\ arrived' = arrived + 1
  /\ UNCHANGED <<client, sent, waiting, stream, link>>

(* The server closes the connection or ends, at any time; what it has       *)
(* promised may not have been sent.                                         *)
ServerClose ==
  /\ link = "open" /\ link' \in {"fin", "reset"}
  /\ \E k \in arrived..Len(stream) : stream' = SubSeq(stream, 1, k)
  /\ link' = "reset" => Len(stream') = arrived
  /\ waiting' = <<>>
  /\ UNCHANGED <<client, sent, arrived>>

-----------------------------------------------------------------------------
(* main() and send_message.                                                 *)

(* At the end of the input nothing is read, and the loop goes on.           *)
ReadLine ==
  /\ pc = "input" /\ pc' = "send"
  /\ typed' = IF typed < Lines THEN typed + 1 ELSE typed
  /\ UNCHANGED <<sent, server, count, output, printed>>

(* A server that has closed answers with a reset.                           *)
SendMessage ==
  /\ pc = "send" /\ link \in {"open", "fin"} /\ sent < MaxQueries
  /\ sent' = sent + 1 /\ pc' = "count"
  /\ IF link = "open"
       THEN waiting' = Append(waiting, sent') /\ UNCHANGED <<stream, link>>
       ELSE /\ link' = IF arrived = Len(stream) THEN "broken" ELSE "reset"
            /\ stream' = SubSeq(stream, 1, arrived)
            /\ UNCHANGED waiting
  /\ UNCHANGED <<typed, count, output, printed, arrived>>

(* Mutation of SendFails: send() is tried again until it succeeds.          *)
MutSendRetries ==
  /\ pc = "send" /\ link \in {"broken", "reset"}
  /\ UNCHANGED vars

(* send() fails and check_error throws, or SIGPIPE is raised: either ends   *)
(* the client.                                                              *)
SendFails ==
  /\ pc = "send" /\ link \in {"broken", "reset"} /\ pc' = "exited"
  /\ UNCHANGED <<typed, count, output, printed, sent, server>>

-----------------------------------------------------------------------------
(* read_struct<char> and the print.                                         *)

Ended  == stream = <<>> /\ link \in {"fin", "broken"}  (* recv() returns 0  *)
Fails  == arrived = 0 /\ link = "reset"                (* or less           *)
Consume == stream' = Tail(stream) /\ arrived' = arrived - 1

(* std::vector<char> output(count): a negative count throws.                *)
Allocate == /\ pc' = IF count' < 0 THEN "exited" ELSE "bytes"
            /\ output' = <<>>

ReadCount ==
  /\ pc = "count" /\ arrived > 0
  /\ IF Head(stream).k = 0 THEN count' = Head(stream).of ELSE count' \in Garbage
  /\ Allocate /\ Consume
  /\ UNCHANGED <<typed, sent, printed, waiting, link>>

(* Mutation of NoCount: 0 taken for "try again".                            *)
MutNoCountRetries ==
  /\ pc = "count" /\ Ended
  /\ UNCHANGED vars

(* The end of the stream is not an error: count stays uninitialised.        *)
NoCount ==
  /\ pc = "count" /\ Ended
  /\ count' \in Garbage /\ Allocate
  /\ UNCHANGED <<typed, sent, printed, server>>

ReadByte ==
  /\ pc = "bytes" /\ Len(output) < count /\ arrived > 0
  /\ output' = Append(output, Head(stream))
  /\ Consume
  /\ UNCHANGED <<pc, typed, sent, count, printed, waiting, link>>

(* Nor here: the byte keeps its initial value.                              *)
NoByte ==
  /\ pc = "bytes" /\ Len(output) < count /\ Ended
  /\ output' = Append(output, Zero)
  /\ UNCHANGED <<pc, typed, sent, count, printed, server>>

ReadFails ==
  /\ pc = "count" \/ (pc = "bytes" /\ Len(output) < count)
  /\ Fails /\ pc' = "exited"
  /\ UNCHANGED <<typed, sent, count, output, printed, server>>

(* Mutation of PrintReply: what has come so far is taken for all.           *)
MutPrintWhatCame ==
  /\ pc = "bytes" /\ (Len(output) = count \/ arrived = 0)
  /\ printed' = Append(printed, output)
  /\ pc' = IF OneShot THEN "exited" ELSE "input"
  /\ UNCHANGED <<typed, sent, count, output, server>>

PrintReply ==
  /\ pc = "bytes" /\ Len(output) = count
  /\ printed' = Append(printed, output)
  /\ pc' = IF OneShot THEN "exited" ELSE "input"
  /\ UNCHANGED <<typed, sent, count, output, server>>

Main == \/ SendMessage \/ SendFails
        \/ ReadCount \/ NoCount \/ ReadByte \/ NoByte \/ ReadFails \/ PrintReply
Next == ReadLine \/ Main \/ Answer \/ Arrive \/ ServerClose

Spec == Init /\ [][Next]_vars

(* A line may never be typed, but the end of the input does not block; the  *)
(* server answers (the run polite of EpollServer) or closes.                *)
Fairness == /\ WF_vars(ReadLine /\ typed = Lines) /\ WF_vars(Main)
            /\ WF_vars(Answer) /\ WF_vars(Arrive)
FairSpec == Spec /\ Fairness

-----------------------------------------------------------------------------
(* Properties.                                                              *)

Units == [q : 0..MaxQueries, k : Nat, of : Nat]
TypeOK ==
  /\ pc \in {"input", "send", "count", "bytes", "exited"}
  /\ typed \in 0..Lines /\ sent \in 0..MaxQueries /\ link \in LinkStates
  /\ waiting \in Seq(1..MaxQueries) /\ stream \in Seq(Units)
  /\ arrived \in 0..Len(stream)
  /\ count \in Int /\ output \in Seq(Units) /\ printed \in Seq(Seq(Units))
  /\ pc = "bytes" => Len(output) <= count

(* When a query goes out nothing of an earlier reply is left on the stream, *)
(* whatever pieces it came in: the next count read is the next reply's      *)
(* (client.cc:87-100).                                                      *)
Drained == pc \in {"input", "send"} /\ link = "open" =>
             stream = <<>> /\ waiting = <<>>

(* While the connection stands, this client is the one of QueryService and  *)
(* of the run polite of EpollServer: it asks one query at a time, and what  *)
(* it prints is the whole reply to the query it asked last                  *)
(* (client_main.cc:88-99).                                                  *)
Owner(bytes, n) == IF \E size \in BodySizes : bytes = Body(n, size) THEN n ELSE 0
Service == INSTANCE QueryService WITH
  Conns <- {Me}, QueriesPerConn <- MaxQueries,
  asked <- [c \in {Me} |-> sent],
  replies <- [c \in {Me} |-> [k \in 1..Len(printed) |->
               [conn |-> Me, n |-> Owner(printed[k], k)]]]
PlaysByService ==
  [][link' = "open" => Service!SNext \/ UNCHANGED Service!svars]_vars

(* A reply is waited for only as long as there is one to come: the client   *)
(* never hangs on a connection that has ended, whatever part of a reply it  *)
(* was waiting for.                                                         *)
WaitEnds == pc \in {"count", "bytes"} ~> pc \in {"input", "exited"}

(* A client whose server is gone comes to an end, as soon as its input has  *)
(* (or the bound on queries).                                               *)
GoneServerEndsClient ==
  link # "open" ~> \/ pc = "exited" \/ (pc = "input" /\ typed < Lines)
                   \/ sent = MaxQueries
=============================================================================
