---------------------------- MODULE MCHostSender ----------------------------
(* A small instance of HostSender for TLC. *)
EXTENDS HostSender

(* The second event is too long to be sent from the file. *)
MCOversized == {2}
=============================================================================
