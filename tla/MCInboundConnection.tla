------------------------- MODULE MCInboundConnection -------------------------
EXTENDS InboundConnection

\* Two data blocks of two and one bytes, then the server's Disconnect.
ShortStreams == {<<Data(<<1, 2>>), Data(<<3>>), Shutdown("shutBoth")>>}

\* Blocks of other lengths, a connection the server closes at once, and one that
\* it closes before the last of the target's data are sent.
ManyStreams ==
  ShortStreams \cup
  {<<Shutdown("shutBoth")>>,
   <<Data(<<1>>), Shutdown("shutBoth"), Data(<<2>>)>>,
   <<Data(<<1>>), Data(<<2, 3, 4>>), Shutdown("shutBoth")>>}
=============================================================================
