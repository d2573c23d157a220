---------------------------- MODULE ConnectionPool ----------------------------
(***************************************************************************)
(* The server's connection pool: recvRelay takes blocks, in the order the  *)
(* tunnels bring them, and delivers each to the connection of its ID, that *)
(* it creates if connectionMapping has none; a goroutine per connection    *)
(* removes it once its context is done.  Of a connection the model keeps   *)
(* its two queues, OrderedRelay, and whether something consumes its blocks *)
(* (OutboundConnection details that part).                                 *)
(*                                                                         *)
(* A connection ID may be given to several connections one after the       *)
(* other: a block that arrives after its connection has been removed makes *)
(* a new one.  The connections are numbered as they are made.              *)
(*                                                                         *)
(* The last read of a tunnel's InboundRelay passes on a ping or a pong too *)
(* (TunnelRelay).  It has BlockID 0 and the ID of a tunnel, or 0, where    *)
(* other blocks have that of a connection, and recvRelay treats it alike.  *)
(***************************************************************************)
EXTENDS Naturals, Sequences, FiniteSets

CONSTANTS
  IDs,        \* what the ConnectionID of a block may be
  ControlIDs, \* those of them that only pings and pongs have
  LastBlock,  \* the blocks of an ID are 0 (Connect) to LastBlock (Disconnect)
  QueueSize,  \* RecvQueueSize and OrderedRecvQueueSize
  MaxLeaks,   \* bound: pings or pongs with one ID that are passed on
  MaxConns    \* bound: connections made

ASSUME ConstantsAssumption ==
  /\ LastBlock \in Nat \ {0} /\ QueueSize \in Nat \ {0}
  /\ MaxConns \in Nat \ {0} /\ IDs # {} /\ IsFiniteSet(IDs)
  /\ ControlIDs \subseteq IDs /\ MaxLeaks \in Nat

Conns == 1..MaxConns
None == 0

\* The blocks of the connections, and the pings and pongs, which are counted.
Blocks == ((IDs \ ControlIDs) \X (0..LastBlock)) \cup (ControlIDs \X (1..MaxLeaks))
BlockID(blk) == IF blk[1] \in ControlIDs THEN 0 ELSE blk[2]
IsConnect(blk) == blk[1] \notin ControlIDs /\ blk[2] = 0

VARIABLES
  pending,      \* blocks that the tunnels have still to bring
  recvRelay,    \* where recvRelay is
  hand,         \* the connection and block it is delivering
  mapping,      \* connectionMapping
  count,        \* the ConnectionCount of stats
  stopped,      \* the context of the pool is done
  made,         \* connections made
  idOf, ctxDone, removed,          \* of each connection
  recvQueue, orderedRecvQueue,
  relay, cache, recvBlockID,       \* its OrderedRelay
  consumer                         \* its dial, then its SendRelay

poolVars == <<pending, recvRelay, hand>>
mapVars == <<mapping, count, removed>>
makeVars == <<made, idOf>>
relayVars == <<relay, cache, recvBlockID>>
vars == <<poolVars, mapVars, makeVars, stopped, ctxDone, recvQueue,
          orderedRecvQueue, relayVars, consumer>>

TypeOK ==
  /\ pending \subseteq Blocks
  /\ recvRelay \in {"select", "deliver", "ended"}
  /\ hand \in Conns \X (0..LastBlock)
  /\ mapping \in [IDs -> Conns \cup {None}]
  /\ count \in Nat
  /\ stopped \in BOOLEAN
  /\ made \in 0..MaxConns
  /\ idOf \in [Conns -> IDs]
  /\ ctxDone \in [Conns -> BOOLEAN] /\ removed \in [Conns -> BOOLEAN]
  /\ recvQueue \in [Conns -> Seq(0..LastBlock)]
  /\ orderedRecvQueue \in [Conns -> Seq(0..LastBlock)]
  /\ relay \in [Conns -> {"off", "select", "push", "ended"}]
  /\ cache \in [Conns -> SUBSET (0..LastBlock)]
  /\ recvBlockID \in [Conns -> 0..(LastBlock + 1)]
  /\ consumer \in [Conns -> {"none", "dialing", "on", "ended"}]

Init ==
  /\ pending = Blocks
  /\ recvRelay = "select" /\ hand = <<1, 0>>
  /\ mapping = [c \in IDs |-> None] /\ count = 0
  /\ stopped = FALSE
  /\ made = 0
  /\ idOf = [i \in Conns |-> CHOOSE c \in IDs : TRUE]
  /\ ctxDone = [i \in Conns |-> FALSE] /\ removed = [i \in Conns |-> FALSE]
  /\ recvQueue = [i \in Conns |-> <<>>]
  /\ orderedRecvQueue = [i \in Conns |-> <<>>]
  /\ relay = [i \in Conns |-> "off"]
  /\ cache = [i \in Conns |-> {}] /\ recvBlockID = [i \in Conns |-> 0]
  /\ consumer = [i \in Conns |-> "none"]

-----------------------------------------------------------------------------
(* recvRelay.                                                              *)

\* RecvBlock of the connection i is called: a Connect starts the dial, then
\* the block waits for room in the queue.
BeginDelivery(i, blk) ==
  /\ recvRelay' = "deliver" /\ hand' = <<i, BlockID(blk)>>
  /\ pending' = pending \ {blk}
  /\ consumer' = IF IsConnect(blk) /\ consumer[i] = "none"
                 THEN [consumer EXCEPT ![i] = "dialing"] ELSE consumer

\* The connection is found in connectionMapping.
Find(blk) ==
  /\ recvRelay = "select" /\ blk \in pending
  /\ mapping[blk[1]] # None
  /\ BeginDelivery(mapping[blk[1]], blk)
  /\ UNCHANGED <<mapVars, makeVars, stopped, ctxDone, recvQueue, orderedRecvQueue,
                 relayVars>>

\* Mutant: connectionMapping is not looked at.
CreateBlindly(blk) ==
  /\ recvRelay = "select" /\ blk \in pending
  /\ made < MaxConns
  /\ made' = made + 1
  /\ idOf' = [idOf EXCEPT ![made + 1] = blk[1]]
  /\ ctxDone' = [ctxDone EXCEPT ![made + 1] = stopped]
  /\ mapping' = [mapping EXCEPT ![blk[1]] = made + 1]
  /\ count' = count + 1
  /\ relay' = [relay EXCEPT ![made + 1] = "select"]
  /\ BeginDelivery(made + 1, blk)
  /\ UNCHANGED <<removed, stopped, recvQueue, orderedRecvQueue, cache, recvBlockID>>

\* It is not: NewPooledOutboundConnection and addConnection, with OrderedRelay.
Create(blk) ==
  /\ recvRelay = "select" /\ blk \in pending
  /\ mapping[blk[1]] = None /\ made < MaxConns
  /\ made' = made + 1
  /\ idOf' = [idOf EXCEPT ![made + 1] = blk[1]]
  /\ ctxDone' = [ctxDone EXCEPT ![made + 1] = stopped]
  /\ mapping' = [mapping EXCEPT ![blk[1]] = made + 1]
  /\ count' = count + 1
  /\ relay' = [relay EXCEPT ![made + 1] = "select"]
  /\ BeginDelivery(made + 1, blk)
  /\ UNCHANGED <<removed, stopped, recvQueue, orderedRecvQueue, cache, recvBlockID>>

\* recvQueue <- blk.
Deliver ==
  /\ recvRelay = "deliver"
  /\ Len(recvQueue[hand[1]]) < QueueSize
  /\ recvQueue' = [recvQueue EXCEPT ![hand[1]] = Append(@, hand[2])]
  /\ recvRelay' = "select"
  /\ UNCHANGED <<pending, hand, mapVars, makeVars, stopped, ctxDone,
                 orderedRecvQueue, relayVars, consumer>>

RecvRelayEnds ==
  /\ recvRelay = "select" /\ stopped
  /\ recvRelay' = "ended"
  /\ UNCHANGED <<pending, hand, mapVars, makeVars, stopped, ctxDone, recvQueue,
                 orderedRecvQueue, relayVars, consumer>>

\* The peer is cancelled, and with it the context of every connection.
Stop ==
  /\ ~stopped
  /\ stopped' = TRUE
  /\ ctxDone' = [i \in Conns |-> ctxDone[i] \/ i <= made]
  /\ UNCHANGED <<poolVars, mapVars, makeVars, recvQueue, orderedRecvQueue, relayVars,
                 consumer>>

\* removeConnection, by the goroutine that waits for the connection's context:
\* it deletes the entry of the connection's ID, if there is one.
RemoveConnection(i) ==
  /\ i <= made /\ ctxDone[i] /\ ~removed[i]
  /\ removed' = [removed EXCEPT ![i] = TRUE]
  /\ mapping' = [mapping EXCEPT ![idOf[i]] = None]
  /\ count' = IF mapping[idOf[i]] # None THEN count - 1 ELSE count
  /\ UNCHANGED <<poolVars, makeVars, stopped, ctxDone, recvQueue, orderedRecvQueue,
                 relayVars, consumer>>

-----------------------------------------------------------------------------
(* A connection's OrderedRelay.  A block that is next goes on at once: it   *)
(* is in cache for the step in between.                                    *)

\* The cache with the block at the head of recvQueue; an old one is dropped.
Cached(i) == cache[i] \cup {n \in {Head(recvQueue[i])} : n >= recvBlockID[i]}

RelayAfter(i, next, blocks) ==
  /\ cache' = [cache EXCEPT ![i] = blocks]
  /\ relay' = [relay EXCEPT ![i] = IF next \in blocks THEN "push" ELSE "select"]

\* Mutant: no block is taken while one is missing.
RelayTakeUnlessWaiting(i) ==
  /\ relay[i] = "select" /\ recvQueue[i] # <<>> /\ cache[i] = {}
  /\ recvQueue' = [recvQueue EXCEPT ![i] = Tail(@)]
  /\ RelayAfter(i, recvBlockID[i], Cached(i))
  /\ UNCHANGED <<poolVars, mapVars, makeVars, stopped, ctxDone, orderedRecvQueue,
                 recvBlockID, consumer>>

RelayTake(i) ==
  /\ relay[i] = "select" /\ recvQueue[i] # <<>>
  /\ recvQueue' = [recvQueue EXCEPT ![i] = Tail(@)]
  /\ RelayAfter(i, recvBlockID[i], Cached(i))
  /\ UNCHANGED <<poolVars, mapVars, makeVars, stopped, ctxDone, orderedRecvQueue,
                 recvBlockID, consumer>>

\* orderedRecvQueue <- blk: this select has no other case.
RelayPush(i) ==
  /\ relay[i] = "push" /\ Len(orderedRecvQueue[i]) < QueueSize
  /\ orderedRecvQueue' = [orderedRecvQueue EXCEPT ![i] = Append(@, recvBlockID[i])]
  /\ recvBlockID' = [recvBlockID EXCEPT ![i] = @ + 1]
  /\ RelayAfter(i, recvBlockID[i] + 1, cache[i] \ {recvBlockID[i]})
  /\ UNCHANGED <<poolVars, mapVars, makeVars, stopped, ctxDone, recvQueue, consumer>>

\* Mutant: the timeout's condition is negated.
RelayTimeoutWhenIdle(i) ==
  /\ relay[i] = "select" /\ recvQueue[i] = <<>> /\ cache[i] = {}
  /\ ctxDone' = [ctxDone EXCEPT ![i] = TRUE]
  /\ UNCHANGED <<poolVars, mapVars, makeVars, stopped, recvQueue, orderedRecvQueue,
                 relayVars, consumer>>

\* No block for PacketWaitTimeoutSec although one is missing.
RelayTimeout(i) ==
  /\ relay[i] = "select" /\ recvQueue[i] = <<>> /\ cache[i] # {}
  /\ ctxDone' = [ctxDone EXCEPT ![i] = TRUE]
  /\ UNCHANGED <<poolVars, mapVars, makeVars, stopped, recvQueue, orderedRecvQueue,
                 relayVars, consumer>>

RelayEnds(i) ==
  /\ relay[i] = "select" /\ ctxDone[i]
  /\ relay' = [relay EXCEPT ![i] = "ended"]
  /\ UNCHANGED <<poolVars, mapVars, makeVars, stopped, ctxDone, recvQueue,
                 orderedRecvQueue, cache, recvBlockID, consumer>>

-----------------------------------------------------------------------------
(* The consumer of a connection's blocks.                                  *)

\* The dial succeeds and SendRelay starts, or it fails and stops the connection.
DialEnds(i) ==
  /\ consumer[i] = "dialing"
  /\ \/ /\ consumer' = [consumer EXCEPT ![i] = "on"]
        /\ UNCHANGED ctxDone
     \/ /\ consumer' = [consumer EXCEPT ![i] = "ended"]
        /\ ctxDone' = [ctxDone EXCEPT ![i] = TRUE]
  /\ UNCHANGED <<poolVars, mapVars, makeVars, stopped, recvQueue, orderedRecvQueue,
                 relayVars>>

\* SendRelay takes a block; the Disconnect stops the connection.
Consume(i) ==
  /\ consumer[i] = "on" /\ orderedRecvQueue[i] # <<>>
  /\ ctxDone' = [ctxDone EXCEPT ![i] = @ \/ Head(orderedRecvQueue[i]) = LastBlock]
  /\ orderedRecvQueue' = [orderedRecvQueue EXCEPT ![i] = Tail(@)]
  /\ UNCHANGED <<poolVars, mapVars, makeVars, stopped, recvQueue, relayVars, consumer>>

\* The target closes the connection or fails.
TargetEnds(i) ==
  /\ consumer[i] = "on" /\ ~ctxDone[i]
  /\ ctxDone' = [ctxDone EXCEPT ![i] = TRUE]
  /\ UNCHANGED <<poolVars, mapVars, makeVars, stopped, recvQueue, orderedRecvQueue,
                 relayVars, consumer>>

ConsumerEnds(i) ==
  /\ consumer[i] = "on" /\ ctxDone[i]
  /\ consumer' = [consumer EXCEPT ![i] = "ended"]
  /\ UNCHANGED <<poolVars, mapVars, makeVars, stopped, ctxDone, recvQueue,
                 orderedRecvQueue, relayVars>>

ConnStep(i) ==
  \/ RelayTake(i) \/ RelayPush(i) \/ RelayTimeout(i) \/ RelayEnds(i)
  \/ DialEnds(i) \/ Consume(i) \/ TargetEnds(i) \/ ConsumerEnds(i)

Next ==
  \/ \E blk \in Blocks : Find(blk) \/ Create(blk)
  \/ Deliver \/ RecvRelayEnds \/ Stop
  \/ \E i \in Conns : RemoveConnection(i) \/ ConnStep(i)

Spec == Init /\ [][Next]_vars

\* What the goroutines do: a dial, a write to a target and a wait for a missing
\* block have time limits.
Goroutines ==
  \/ \E blk \in Blocks : Find(blk) \/ Create(blk)
  \/ Deliver \/ RecvRelayEnds
  \/ \E i \in Conns :
       \/ RemoveConnection(i) \/ RelayTake(i) \/ RelayPush(i) \/ RelayTimeout(i)
       \/ RelayEnds(i) \/ DialEnds(i) \/ Consume(i) \/ ConsumerEnds(i)

\* The program does not stand still while one of its goroutines can run.  This
\* is all the fairness that is needed: none of them can run for ever without
\* new blocks.
FairSpec == Spec /\ WF_vars(Goroutines)

-----------------------------------------------------------------------------
(* Properties.                                                             *)

\* A connection whose context is not done is the one that connectionMapping has
\* for its ID: recvRelay never makes a second one beside it, and the removal of
\* an earlier connection with the same ID never takes its entry.
LiveIsMapped ==
  \A i \in 1..made : ~ctxDone[i] => mapping[idOf[i]] = i

\* The connection count of stats, incremented and decremented as connections
\* come and go, is the size of connectionMapping.
CountExact == count = Cardinality({c \in IDs : mapping[c] # None})

\* The connection was made by a ping or a pong, which its OrderedRelay has
\* forwarded as block 0: nothing is missing, so no timeout removes it.
HoldsControl(i) == idOf[i] \in ControlIDs /\ recvBlockID[i] = 1

\* A connection made by a block that came after its ID's connection was gone,
\* or whose Connect is still to come, does not stay: either the Connect comes
\* or the missing block's timeout removes it.  The exception is a connection
\* that a ping or a pong made, which recvRelay does not tell from a Connect.
\* (The blocks of an ID end here; for a stream without end see HoleEnds.)
StrayLeaves ==
  \A i \in Conns :
    relay[i] # "off" /\ consumer[i] = "none" ~>
      removed[i] \/ consumer[i] # "none" \/ HoldsControl(i)

\* A connection that is slow, still dialling or waiting for a block that is
\* late holds recvRelay up for a while at most: recvRelay does not stay for ever
\* at a block for a connection whose context is not done.
SlowIsTemporary == []<>(recvRelay # "deliver" \/ ctxDone[hand[1]])

\* "Deliver blocks from tunnelPool channel to specified connections": recvRelay
\* never stays at one block for ever, whatever happens to the connection that
\* the block is for.
RelayGoesOn == []<>(recvRelay # "deliver")
=============================================================================
