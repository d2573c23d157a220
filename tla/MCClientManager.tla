-------------------------- MODULE MCClientManager --------------------------
(* ClientManager for TLC, with three configured addresses.                 *)
EXTENDS ClientManager

ThreeAddresses == <<"a", "b", "c">>
=============================================================================
