---------------------------- MODULE QueryService ----------------------------
(***************************************************************************)
(* What the trade-data server promises a client that behaves like          *)
(* client_main.cc: every query is answered, exactly once, on the           *)
(* connection that asked it, and in the order asked.  EpollServer is       *)
(* shown to implement this specification.                                  *)
(***************************************************************************)
EXTENDS Naturals, Sequences

CONSTANTS
  Conns,            (* the client connections                               *)
  QueriesPerConn    (* how many queries a client asks (bounds the model)    *)

VARIABLES
  asked,            (* asked[c]: number of queries client c has sent        *)
  replies           (* replies[c]: the queries answered to c, in order      *)

svars == <<asked, replies>>

(* The name of the n-th query of connection c. *)
QueryId(c, n) == [conn |-> c, n |-> n]

SInit == /\ asked = [c \in Conns |-> 0]
         /\ replies = [c \in Conns |-> <<>>]

(* A client asks its next query only after the previous one is answered. *)
Ask(c) == /\ asked[c] < QueriesPerConn
          /\ asked[c] = Len(replies[c])
          /\ asked' = [asked EXCEPT ![c] = @ + 1]
          /\ UNCHANGED replies

Reply(c) == /\ Len(replies[c]) < asked[c]
            /\ replies' = [replies EXCEPT
                  ![c] = Append(@, QueryId(c, Len(@) + 1))]
            /\ UNCHANGED asked

SNext == \E c \in Conns : Ask(c) \/ Reply(c)

SSpec == SInit /\ [][SNext]_svars /\ \A c \in Conns : WF_svars(Reply(c))
=============================================================================
