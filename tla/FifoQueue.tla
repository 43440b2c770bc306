----------------------------- MODULE FifoQueue -----------------------------
(***************************************************************************)
(* What a queue shared by threads promises, whatever its locking: an       *)
(* element that is put is handed to exactly one taker, elements leave in   *)
(* the order they entered, and an element that is there is taken.          *)
(***************************************************************************)
EXTENDS Naturals, Sequences

CONSTANTS
  Putters,          (* threads that put elements                            *)
  Takers,           (* threads that take them                               *)
  PutsPerThread     (* how many elements a putter puts (bounds the model)   *)

VARIABLES
  queue,            (* the elements put and not yet taken                   *)
  puts,             (* puts[t]: how many elements putter t has put          *)
  taken             (* taken[t]: the elements taker t was handed, in order  *)

fvars == <<queue, puts, taken>>

Element == [by : Putters, n : Nat]

FInit == /\ queue = <<>>
         /\ puts = [t \in Putters |-> 0]
         /\ taken = [t \in Takers |-> <<>>]

Put(t) == /\ puts[t] < PutsPerThread
          /\ queue' = Append(queue, [by |-> t, n |-> puts[t] + 1])
          /\ puts' = [puts EXCEPT ![t] = @ + 1]
          /\ UNCHANGED taken

Take(t) == /\ queue # <<>>
           /\ taken' = [taken EXCEPT ![t] = Append(@, Head(queue))]
           /\ queue' = Tail(queue)
           /\ UNCHANGED puts

FNext == (\E t \in Putters : Put(t)) \/ (\E t \in Takers : Take(t))

FSpec == FInit /\ [][FNext]_fvars /\ WF_fvars(\E t \in Takers : Take(t))
=============================================================================
