---------------------------- MODULE MCUdpService ----------------------------
(* Instances of UdpService for TLC.                                         *)
EXTENDS UdpService
CONSTANTS c1, c2
MCClients == {c1, c2}
MCChatters == {c2}
MCGarbage == {-1, 1}
=============================================================================
