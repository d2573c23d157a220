------------------------ MODULE MCOutboundConnection ------------------------
(* OutboundConnection for TLC: the constants are given in the cfg files.   *)
EXTENDS OutboundConnection
=============================================================================
