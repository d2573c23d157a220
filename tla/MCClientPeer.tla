---------------------------- MODULE MCClientPeer ----------------------------
(* ClientPeer for TLC.                                                     *)
EXTENDS ClientPeer

OneMethod == {{"none"}, {"password"}}

\* One request of each kind that is answered differently; forwarded programs ask
\* for a named address.
ThreeRequests == {<<"connect", "ipv6">>, <<"bind", "named">>, <<"connect", "unknown">>}
=============================================================================
