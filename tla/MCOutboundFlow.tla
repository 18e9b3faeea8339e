---------------------------- MODULE MCOutboundFlow ----------------------------
(* Instances of OutboundFlow for TLC.                                      *)
EXTENDS OutboundFlow
=============================================================================
