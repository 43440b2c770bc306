-------------------------- MODULE MCClientSession --------------------------
(* ClientSession with a few counts nobody has sent.                         *)
EXTENDS ClientSession

MCGarbage == {-1, 0, 2}
=============================================================================
