--------------------------- MODULE BlockProcessor ---------------------------
(***************************************************************************)
(* One direction of one connection: the sending blockProcessor numbers the *)
(* blocks, the tunnels carry them in any order and may lose or repeat      *)
(* them, and the receiving blockProcessor (OrderedRelay) puts them back in *)
(* order for the connection's reader.                                      *)
(*                                                                         *)
(* A payload is the number of the block that carries it, counted from 0    *)
(* without wrapping; BlockID is that number in uint32 arithmetic, IDSpace  *)
(* standing for 2^32.                                                      *)
(***************************************************************************)
EXTENDS Integers, Sequences, FiniteSets

CONSTANTS
  IDSpace,               \* number of block IDs, 2^32 in the program
  RecvQueueSize,         \* capacity of a connection's recvQueue
  OrderedRecvQueueSize,  \* capacity of its orderedRecvQueue
  MaxBlocks              \* bound: blocks the sender packs

ASSUME ConstantsAssumption ==
  /\ IDSpace \in Nat \ {0}
  /\ RecvQueueSize \in Nat \ {0}
  /\ OrderedRecvQueueSize \in Nat \ {0}
  /\ MaxBlocks \in Nat

VARIABLES
  sendBlockID,      \* sender: blocks packed so far
  net,              \* blocks handed to the tunnels and not yet received
  lost,             \* blocks that died with a tunnel
  recvQueue,        \* the connection's recvQueue
  direct,           \* the block OrderedRelay is sending "directly", if any
  cache,            \* blocks received ahead of a hole, by BlockID
  recvBlockID,      \* the next BlockID to hand to the reader
  lastRecvBlockID,  \* highest BlockID received, plus one
  out,              \* every block ever put on orderedRecvQueue
  taken,            \* how many of those the reader has taken
  relay,            \* where OrderedRelay is
  cancelled         \* relayCtx is done: the connection is removed from its pool

sender == <<sendBlockID, net, lost>>
processor == <<direct, cache, recvBlockID, lastRecvBlockID, relay>>
vars == <<sendBlockID, net, lost, recvQueue, direct, cache, recvBlockID,
          lastRecvBlockID, out, taken, relay, cancelled>>

BlockIDs == 0 .. IDSpace - 1
Blocks == [BlockID : BlockIDs, Data : Nat]

\* The block that carries payload n.
NewBlock(n) == [BlockID |-> n % IDSpace, Data |-> n]

\* uint32 increment.
Inc(id) == (id + 1) % IDSpace

\* What lies in the channel between OrderedRelay and the reader.
OrderedRecvQueue == SubSeq(out, taken + 1, Len(out))

Put(f, id, blk) == [i \in DOMAIN f \cup {id} |-> IF i = id THEN blk ELSE f[i]]
Delete(f, id) == [i \in DOMAIN f \ {id} |-> f[i]]

TypeOK ==
  /\ sendBlockID \in 0 .. MaxBlocks
  /\ net \subseteq Blocks
  /\ lost \subseteq Blocks
  /\ recvQueue \in Seq(Blocks) /\ Len(recvQueue) <= RecvQueueSize
  /\ direct \in Seq(Blocks) /\ Len(direct) <= 1
  /\ DOMAIN cache \subseteq BlockIDs
  /\ cache \in [DOMAIN cache -> Blocks]
  /\ recvBlockID \in BlockIDs
  /\ lastRecvBlockID \in BlockIDs
  /\ out \in Seq(Blocks)
  /\ taken \in 0 .. Len(out)
  /\ Len(out) - taken <= OrderedRecvQueueSize
  /\ relay \in {"select", "direct", "drain", "stopped"}
  /\ cancelled \in BOOLEAN

Init ==
  /\ sendBlockID = 0
  /\ net = {}
  /\ lost = {}
  /\ recvQueue = <<>>
  /\ direct = <<>>
  /\ cache = <<>>
  /\ recvBlockID = 0
  /\ lastRecvBlockID = 0
  /\ out = <<>>
  /\ taken = 0
  /\ relay = "select"
  /\ cancelled = FALSE

-----------------------------------------------------------------------------
(* The sender and the tunnels.                                             *)

\* packConnect, packData and packDisconnect take their BlockID from the same
\* counter (sendBlockID.Inc() - 1); the block then goes to the send queue.
Pack ==
  /\ sendBlockID < MaxBlocks
  /\ sendBlockID' = sendBlockID + 1
  /\ net' = net \cup {NewBlock(sendBlockID)}
  /\ UNCHANGED <<lost, recvQueue, processor, out, taken, cancelled>>

\* A tunnel dies with the block in it.
Lose(blk) ==
  /\ net' = net \ {blk}
  /\ lost' = lost \cup {blk}
  /\ UNCHANGED <<sendBlockID, recvQueue, processor, out, taken, cancelled>>

\* RecvBlock, called by the pool for a block off a tunnel: waits for room.
RecvBlock(blk) ==
  /\ Len(recvQueue) < RecvQueueSize
  /\ recvQueue' = Append(recvQueue, blk)
  /\ net' = net \ {blk}
  /\ UNCHANGED <<sendBlockID, lost, processor, out, taken, cancelled>>

\* The same, for a further copy of a block that has been packed.  Copies may
\* come without end: to a relay that waits for a hole they are what an endless
\* stream of later blocks is, packets that start its timer anew.
RecvDuplicate(n) ==
  /\ Len(recvQueue) < RecvQueueSize
  /\ recvQueue' = Append(recvQueue, NewBlock(n))
  /\ UNCHANGED <<sender, processor, out, taken, cancelled>>

-----------------------------------------------------------------------------
(* OrderedRelay.                                                           *)

\* lastRecvBlockID after blk.
LastRecv(blk) ==
  IF Inc(blk.BlockID) > lastRecvBlockID THEN Inc(blk.BlockID) ELSE lastRecvBlockID

\* Mutant: a block beyond a hole is taken for the next one.
IsNextOrLater(blk) == blk.BlockID >= recvBlockID

IsNext(blk) == blk.BlockID = recvBlockID

\* Mutant: a block is old when a later one has arrived.
TooOldByArrival(blk) == blk.BlockID < lastRecvBlockID

TooOld(blk) == blk.BlockID < recvBlockID

\* case blk := <-recvQueue.  The relay forwards the block it waits for, throws
\* away an old one and caches one that lies beyond a hole.
Receive ==
  /\ relay = "select"
  /\ recvQueue # <<>>
  /\ LET blk == Head(recvQueue) IN
       /\ recvQueue' = Tail(recvQueue)
       /\ lastRecvBlockID' = LastRecv(blk)
       /\ \/ /\ IsNext(blk)
             /\ relay' = "direct"
             /\ direct' = <<blk>>
             /\ UNCHANGED cache
          \/ /\ ~IsNext(blk) /\ TooOld(blk)
             /\ UNCHANGED <<relay, direct, cache>>
          \/ /\ ~IsNext(blk) /\ ~TooOld(blk)
             /\ cache' = Put(cache, blk.BlockID, blk)
             /\ UNCHANGED <<relay, direct>>
  /\ UNCHANGED <<sender, recvBlockID, out, taken, cancelled>>

\* orderedRecvQueue <- blk; recvBlockID++.  The send waits for room and does
\* not look at relayCtx.
SendDirectly ==
  /\ relay = "direct"
  /\ Len(OrderedRecvQueue) < OrderedRecvQueueSize
  /\ out' = Append(out, Head(direct))
  /\ recvBlockID' = Inc(recvBlockID)
  /\ direct' = <<>>
  /\ relay' = "drain"
  /\ UNCHANGED <<sender, recvQueue, cache, lastRecvBlockID, taken, cancelled>>

\* One round of the loop that sends what the cache holds next in order.
SendFromCache ==
  /\ relay = "drain"
  /\ recvBlockID \in DOMAIN cache
  /\ Len(OrderedRecvQueue) < OrderedRecvQueueSize
  /\ out' = Append(out, cache[recvBlockID])
  /\ cache' = Delete(cache, recvBlockID)
  /\ recvBlockID' = Inc(recvBlockID)
  /\ UNCHANGED <<sender, recvQueue, direct, lastRecvBlockID, taken, relay, cancelled>>

\* Mutant: return where the loop should only break.
CacheExhaustedReturns ==
  /\ relay = "drain"
  /\ recvBlockID \notin DOMAIN cache
  /\ relay' = "stopped"
  /\ UNCHANGED <<sender, recvQueue, direct, cache, recvBlockID, lastRecvBlockID,
                 out, taken, cancelled>>

\* The loop ends at the next hole.
CacheExhausted ==
  /\ relay = "drain"
  /\ recvBlockID \notin DOMAIN cache
  /\ relay' = "select"
  /\ UNCHANGED <<sender, recvQueue, direct, cache, recvBlockID, lastRecvBlockID,
                 out, taken, cancelled>>

\* Mutant: the comparison of the counters is dropped.
TimeoutAlways ==
  /\ relay = "select"
  /\ recvQueue = <<>>
  /\ cancelled' = TRUE
  /\ UNCHANGED <<sender, recvQueue, processor, out, taken>>

\* Mutant: the comparison is the wrong way round.
TimeoutReversed ==
  /\ relay = "select"
  /\ recvQueue = <<>>
  /\ cancelled' = (cancelled \/ recvBlockID > lastRecvBlockID)
  /\ UNCHANGED <<sender, recvQueue, processor, out, taken>>

\* case <-time.After(PacketWaitTimeoutSec).  The timer is made when the select
\* starts, so it can only win while the queue is empty.  The loop goes on.
Timeout ==
  /\ relay = "select"
  /\ recvQueue = <<>>
  /\ cancelled' = (cancelled \/ recvBlockID # lastRecvBlockID)
  /\ UNCHANGED <<sender, recvQueue, processor, out, taken>>

\* case <-relayCtx.Done().
RelayStops ==
  /\ relay = "select"
  /\ cancelled
  /\ relay' = "stopped"
  /\ UNCHANGED <<sender, recvQueue, direct, cache, recvBlockID, lastRecvBlockID,
                 out, taken, cancelled>>

-----------------------------------------------------------------------------
(* The owner of the connection.                                            *)

\* The reader takes the next block off orderedRecvQueue.
Take ==
  /\ taken < Len(out)
  /\ taken' = taken + 1
  /\ UNCHANGED <<sender, recvQueue, processor, out, cancelled>>

\* Stop: a Close, a Disconnect(Both) or the end of the pool.
Stop ==
  /\ ~cancelled
  /\ cancelled' = TRUE
  /\ UNCHANGED <<sender, recvQueue, processor, out, taken>>

Relay == Receive \/ SendDirectly \/ SendFromCache \/ CacheExhausted \/ RelayStops

Next ==
  \/ Pack
  \/ \E blk \in net : Lose(blk) \/ RecvBlock(blk)
  \/ \E n \in 0 .. sendBlockID - 1 : RecvDuplicate(n)
  \/ Receive \/ SendDirectly \/ SendFromCache \/ CacheExhausted
  \/ Timeout \/ RelayStops
  \/ Take \/ Stop

Spec == Init /\ [][Next]_vars

\* The relay goroutine keeps running, its timer fires when nothing arrives, a
\* tunnel delivers or loses what it carries, and the reader keeps reading.
Fairness ==
  /\ WF_vars(Relay)
  /\ WF_vars(Timeout)
  /\ WF_vars(\E blk \in net : RecvBlock(blk) \/ Lose(blk))
  /\ WF_vars(Take)

FairSpec == Spec /\ Fairness

-----------------------------------------------------------------------------
(* Properties.                                                             *)

Held(n) ==
  \/ \E blk \in net \cup lost : blk.Data = n
  \/ \E i \in DOMAIN recvQueue : recvQueue[i].Data = n
  \/ \E i \in DOMAIN direct : direct[i].Data = n
  \/ \E i \in DOMAIN cache : cache[i].Data = n
  \/ \E i \in DOMAIN out : out[i].Data = n

\* The stream has a hole: a later payload has arrived and the next has not.
Hole ==
  /\ \E i \in DOMAIN cache : cache[i].Data > Len(out)
  /\ ~ \E i \in DOMAIN cache : cache[i].Data = Len(out)

\* What OrderedRelay puts on orderedRecvQueue is the sender's stream from its
\* start: every payload in its place, none repeated, none skipped, whatever
\* the tunnels reorder, repeat or lose.
InOrder == \A i \in DOMAIN out : out[i].Data = i - 1

\* OrderedRelay throws away only copies ("We don't need this old block"): a
\* packed block is on its way, died with a tunnel, waits in a queue or the
\* cache, or has been handed to the reader.
NothingDiscarded == \A n \in 0 .. sendBlockID - 1 : Held(n)

\* The two counters the timeout compares tell the truth: between packets they
\* differ exactly when blocks wait in the cache behind a hole.
CountersShowHole ==
  relay = "select" => (recvBlockID # lastRecvBlockID <=> DOMAIN cache # {})

\* PacketWaitTimeoutSec closes a connection only when its block processor
\* really is waiting for a hole.
KilledOnlyForHole == [][Timeout /\ cancelled' # cancelled => Hole]_vars

\* A block processor that waits for a hole gets the missing block or has its
\* connection closed, unless packets keep coming for ever: each of them starts
\* the timer of the hole anew (the comment on PacketWaitTimeoutSec, "and no
\* packet comes within this limit").
HoleEnds == (Hole ~> (~Hole \/ cancelled)) \/ []<><<Receive>>_vars

\* A payload reaches the reader unless the connection is closed or that
\* payload, or one before it, died with a tunnel.
Delivered ==
  \A n \in 0 .. MaxBlocks - 1 :
    (sendBlockID > n) ~> \/ taken > n
                         \/ cancelled
                         \/ \E blk \in lost : blk.Data <= n

\* The reader's view, for the refinement of OrderedStream.
Stream == INSTANCE OrderedStream WITH
  sent <- sendBlockID,
  delivered <- [i \in 1 .. taken |-> out[i].Data],
  closed <- cancelled

\* One direction of a connection, with its reordering and its duplicates, is
\* an ordered stream that may be cut short.
ImplementsStream == Stream!Spec

=============================================================================
