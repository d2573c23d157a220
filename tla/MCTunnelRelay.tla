--------------------------- MODULE MCTunnelRelay ---------------------------
(* TunnelRelay for TLC: tunnels that may all fail.                           *)
EXTENDS TunnelRelay
=============================================================================
