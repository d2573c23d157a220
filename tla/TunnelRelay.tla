----------------------------- MODULE TunnelRelay -----------------------------
(***************************************************************************)
(* The tunnels between the pools of two peers, in one direction: the       *)
(* sender's OutboundRelays take blocks off the pool's shared queues and    *)
(* write them to their tunnels, the receiver's InboundRelays read them and *)
(* put them on the other pool's recvQueue.  A failed write closes the      *)
(* tunnel and leaves the block to a goroutine that is to queue it again    *)
(* for another tunnel.  Pings and pongs travel between the blocks.         *)
(***************************************************************************)
EXTENDS Naturals, Sequences, FiniteSets, Functions

CONSTANTS
  Tunnels,        \* the tunnels of the pool
  SendQueueSize,  \* capacity of sendQueue and of sendRetryQueue
  RecvQueueSize,  \* capacity of the receiving pool's recvQueue
  MaxBlocks       \* bound: blocks that are sent, pings and pongs included

ASSUME ConstantsAssumption ==
  /\ {SendQueueSize, RecvQueueSize} \subseteq Nat \ {0}
  /\ MaxBlocks \in Nat
  /\ IsFiniteSet(Tunnels)

VARIABLES
  produced,    \* connection blocks put on sendQueue so far
  controls,    \* pings and pongs sent so far
  sendQueue, sendRetryQueue,
  outbound,    \* where each OutboundRelay is
  outHand,     \* the block it is writing
  retrying,    \* blocks held by the goroutines of failed packThenSends
  sendDone,    \* the sender's context of each tunnel is done
  up,          \* the tunnel's TCP connection works
  wire,        \* what is in it, oldest first
  recvDone,    \* the receiver's context of each tunnel is done
  inbound,     \* where each InboundRelay is
  inHand,      \* the block it is putting on recvQueue
  recvQueue,
  received,    \* connection blocks the receiving pool has taken
  leaked,      \* pings and pongs the receiving pool has taken
  lost         \* connection blocks that are gone

counters == <<produced, controls>>
queues == <<sendQueue, sendRetryQueue>>
outRelay == <<outbound, outHand>>
tcp == <<up, wire>>
inRelay == <<inbound, inHand>>
pool == <<recvQueue, received, leaked>>
vars == <<counters, queues, outRelay, retrying, sendDone, tcp, recvDone,
          inRelay, pool, lost>>

\* Connection blocks are numbered; a ping or pong carries the tunnel's name.
DataBlocks == [type : {"data"}, id : 0 .. MaxBlocks - 1]
ControlBlocks == [type : {"control"}, id : Tunnels]
Blocks == DataBlocks \cup ControlBlocks

TypeOK ==
  /\ produced \in 0 .. MaxBlocks
  /\ controls \in 0 .. MaxBlocks
  /\ sendQueue \in Seq(DataBlocks) /\ Len(sendQueue) <= SendQueueSize
  /\ sendRetryQueue \in Seq(DataBlocks) /\ Len(sendRetryQueue) <= SendQueueSize
  /\ outbound \in [Tunnels -> {"top", "retry", "normal", "sendRetry", "sendNormal", "ended"}]
  /\ outHand \in [Tunnels -> Seq(DataBlocks)]
  /\ retrying \subseteq DataBlocks
  /\ sendDone \in [Tunnels -> BOOLEAN]
  /\ up \in [Tunnels -> BOOLEAN]
  /\ wire \in [Tunnels -> Seq(Blocks)]
  /\ recvDone \in [Tunnels -> BOOLEAN]
  /\ inbound \in [Tunnels -> {"top", "read", "push", "last", "pushLast", "ended"}]
  /\ inHand \in [Tunnels -> Seq(Blocks)]
  /\ \A t \in Tunnels : Len(outHand[t]) <= 1 /\ Len(inHand[t]) <= 1
  /\ recvQueue \in Seq(Blocks) /\ Len(recvQueue) <= RecvQueueSize
  /\ received \subseteq DataBlocks
  /\ leaked \in [Tunnels -> Nat]
  /\ lost \subseteq DataBlocks

Init ==
  /\ produced = 0 /\ controls = 0
  /\ sendQueue = <<>> /\ sendRetryQueue = <<>>
  /\ outbound = [t \in Tunnels |-> "top"]
  /\ outHand = [t \in Tunnels |-> <<>>]
  /\ retrying = {}
  /\ sendDone = [t \in Tunnels |-> FALSE]
  /\ up = [t \in Tunnels |-> TRUE]
  /\ wire = [t \in Tunnels |-> <<>>]
  /\ recvDone = [t \in Tunnels |-> FALSE]
  /\ inbound = [t \in Tunnels |-> "top"]
  /\ inHand = [t \in Tunnels |-> <<>>]
  /\ recvQueue = <<>>
  /\ received = {}
  /\ leaked = [t \in Tunnels |-> 0]
  /\ lost = {}

-----------------------------------------------------------------------------
(* The sender.                                                             *)

\* The connection pool's sendRelay passes on a block, waiting for room.
Produce ==
  /\ produced + controls < MaxBlocks
  /\ Len(sendQueue) < SendQueueSize
  /\ sendQueue' = Append(sendQueue, [type |-> "data", id |-> produced])
  /\ produced' = produced + 1
  /\ UNCHANGED <<controls, sendRetryQueue, outRelay, retrying, sendDone, tcp,
                 recvDone, inRelay, pool, lost>>

\* A select of OutboundRelay notices that the tunnel's context is done.
OutboundEnds(t) ==
  /\ outbound[t] \in {"top", "retry", "normal"}
  /\ sendDone[t]
  /\ outbound' = [outbound EXCEPT ![t] = "ended"]
  /\ UNCHANGED <<counters, queues, outHand, retrying, sendDone, tcp, recvDone,
                 inRelay, pool, lost>>

\* "cancel is of highest priority": the first select falls through.
NotCancelled(t) ==
  /\ outbound[t] = "top"
  /\ ~sendDone[t]
  /\ outbound' = [outbound EXCEPT ![t] = "retry"]
  /\ UNCHANGED <<counters, queues, outHand, retrying, sendDone, tcp, recvDone,
                 inRelay, pool, lost>>

\* The second and the third select may take a block to send again.
TakeRetry(t) ==
  /\ outbound[t] \in {"retry", "normal"}
  /\ sendRetryQueue # <<>>
  /\ sendRetryQueue' = Tail(sendRetryQueue)
  /\ outHand' = [outHand EXCEPT ![t] = <<Head(sendRetryQueue)>>]
  /\ outbound' = [outbound EXCEPT ![t] = IF @ = "retry" THEN "sendRetry" ELSE "sendNormal"]
  /\ UNCHANGED <<counters, sendQueue, retrying, sendDone, tcp, recvDone,
                 inRelay, pool, lost>>

\* The second select has a default, taken when neither case is ready.
NoRetry(t) ==
  /\ outbound[t] = "retry"
  /\ sendRetryQueue = <<>> /\ ~sendDone[t]
  /\ outbound' = [outbound EXCEPT ![t] = "normal"]
  /\ UNCHANGED <<counters, queues, outHand, retrying, sendDone, tcp, recvDone,
                 inRelay, pool, lost>>

\* The third select waits for either queue and picks any case that is ready.
TakeNormal(t) ==
  /\ outbound[t] = "normal"
  /\ sendQueue # <<>>
  /\ sendQueue' = Tail(sendQueue)
  /\ outHand' = [outHand EXCEPT ![t] = <<Head(sendQueue)>>]
  /\ outbound' = [outbound EXCEPT ![t] = "sendNormal"]
  /\ UNCHANGED <<counters, sendRetryQueue, retrying, sendDone, tcp, recvDone,
                 inRelay, pool, lost>>

\* Mutant: the relay returns after a block it sent again.
AfterSendReturns(t) == IF outbound[t] = "sendRetry" THEN "ended" ELSE "top"

\* packThenSend from the second select is followed by the third.
AfterSend(t) == IF outbound[t] = "sendRetry" THEN "normal" ELSE "top"

\* Mutant: a block that was written is queued again.
SendOKRetries(t) ==
  /\ outbound[t] \in {"sendRetry", "sendNormal"}
  /\ up[t]
  /\ wire' = [wire EXCEPT ![t] = @ \o outHand[t]]
  /\ retrying' = retrying \cup Range(outHand[t])
  /\ outHand' = [outHand EXCEPT ![t] = <<>>]
  /\ outbound' = [outbound EXCEPT ![t] = AfterSend(t)]
  /\ UNCHANGED <<counters, queues, sendDone, up, recvDone, inRelay, pool, lost>>

\* packThenSend: the write succeeds.
SendOK(t) ==
  /\ outbound[t] \in {"sendRetry", "sendNormal"}
  /\ up[t]
  /\ wire' = [wire EXCEPT ![t] = @ \o outHand[t]]
  /\ outHand' = [outHand EXCEPT ![t] = <<>>]
  /\ outbound' = [outbound EXCEPT ![t] = AfterSend(t)]
  /\ UNCHANGED <<counters, queues, retrying, sendDone, up, recvDone, inRelay,
                 pool, lost>>

\* Mutant: the tunnel of a failed write is not closed.
SendFailsOpen(t) ==
  /\ outbound[t] \in {"sendRetry", "sendNormal"}
  /\ retrying' = retrying \cup Range(outHand[t])
  /\ outHand' = [outHand EXCEPT ![t] = <<>>]
  /\ outbound' = [outbound EXCEPT ![t] = AfterSend(t)]
  /\ UNCHANGED <<counters, queues, sendDone, tcp, recvDone, inRelay, pool, lost>>

\* packThenSend: the write fails or exceeds TunnelBlockTimeoutSec; a block
\* that is only partly written is never decoded.  closeThenCancel comes first,
\* then a goroutine takes over the block.
SendFails(t) ==
  /\ outbound[t] \in {"sendRetry", "sendNormal"}
  /\ sendDone' = [sendDone EXCEPT ![t] = TRUE]
  /\ up' = [up EXCEPT ![t] = FALSE]
  /\ retrying' = retrying \cup Range(outHand[t])
  /\ outHand' = [outHand EXCEPT ![t] = <<>>]
  /\ outbound' = [outbound EXCEPT ![t] = AfterSend(t)]
  /\ UNCHANGED <<counters, queues, wire, recvDone, inRelay, pool, lost>>

\* The goroutine's select: there is room on the retry queue ...
RetryQueued(blk) ==
  /\ Len(sendRetryQueue) < SendQueueSize
  /\ sendRetryQueue' = Append(sendRetryQueue, blk)
  /\ retrying' = retrying \ {blk}
  /\ UNCHANGED <<counters, sendQueue, outRelay, sendDone, tcp, recvDone,
                 inRelay, pool, lost>>

\* ... or the tunnel's context is done, which it has been since before the
\* goroutine started: "Tunnel context done, not retrying block."
RetryAbandoned(blk) ==
  /\ retrying' = retrying \ {blk}
  /\ lost' = lost \cup {blk}
  /\ UNCHANGED <<counters, queues, outRelay, sendDone, tcp, recvDone, inRelay,
                 pool>>

\* PingPong or a pong of the sender's InboundRelay: packThenSend without a
\* retry queue ignores a failed write.
SendControl(t) ==
  /\ produced + controls < MaxBlocks
  /\ ~sendDone[t]
  /\ controls' = controls + 1
  /\ wire' = IF up[t] THEN [wire EXCEPT ![t] = Append(@, [type |-> "control", id |-> t])]
             ELSE wire
  /\ UNCHANGED <<produced, queues, outRelay, retrying, sendDone, up, recvDone,
                 inRelay, pool, lost>>

\* closeThenCancel by the sender's PingPong timeout or by its InboundRelay.
SenderCloses(t) ==
  /\ ~sendDone[t]
  /\ sendDone' = [sendDone EXCEPT ![t] = TRUE]
  /\ up' = [up EXCEPT ![t] = FALSE]
  /\ UNCHANGED <<counters, queues, outRelay, retrying, wire, recvDone, inRelay,
                 pool, lost>>

-----------------------------------------------------------------------------
(* The TCP connections.                                                    *)

Break(t) ==
  /\ up[t]
  /\ up' = [up EXCEPT ![t] = FALSE]
  /\ UNCHANGED <<counters, queues, outRelay, retrying, sendDone, wire,
                 recvDone, inRelay, pool, lost>>

\* What a broken connection still carried may be gone, from its end.
WireLoses(t) ==
  /\ ~up[t]
  /\ wire[t] # <<>>
  /\ wire' = [wire EXCEPT ![t] = SubSeq(@, 1, Len(@) - 1)]
  /\ lost' = lost \cup ({wire[t][Len(wire[t])]} \cap DataBlocks)
  /\ UNCHANGED <<counters, queues, outRelay, retrying, sendDone, up, recvDone,
                 inRelay, pool>>

-----------------------------------------------------------------------------
(* The receiver.                                                           *)

\* The select at the top of InboundRelay.
InboundTop(t) ==
  /\ inbound[t] = "top"
  /\ inbound' = [inbound EXCEPT ![t] = IF recvDone[t] THEN "last" ELSE "read"]
  /\ UNCHANGED <<counters, queues, outRelay, retrying, sendDone, tcp,
                 recvDone, inHand, pool, lost>>

\* Mutant: pings and pongs are passed on like other blocks.
ReadBlockPassesAll(t) ==
  /\ inbound[t] = "read"
  /\ wire[t] # <<>>
  /\ wire' = [wire EXCEPT ![t] = Tail(@)]
  /\ inbound' = [inbound EXCEPT ![t] = "push"]
  /\ inHand' = [inHand EXCEPT ![t] = <<Head(wire[t])>>]
  /\ UNCHANGED <<counters, queues, outRelay, retrying, sendDone, up, recvDone,
                 pool, lost>>

\* default: a block is read; a ping is answered and a pong noted on the spot.
ReadBlock(t) ==
  /\ inbound[t] = "read"
  /\ wire[t] # <<>>
  /\ wire' = [wire EXCEPT ![t] = Tail(@)]
  /\ LET blk == Head(wire[t]) IN
       \/ /\ blk.type = "control"
          /\ inbound' = [inbound EXCEPT ![t] = "top"]
          /\ UNCHANGED inHand
       \/ /\ blk.type = "data"
          /\ inbound' = [inbound EXCEPT ![t] = "push"]
          /\ inHand' = [inHand EXCEPT ![t] = <<blk>>]
  /\ UNCHANGED <<counters, queues, outRelay, retrying, sendDone, up, recvDone,
                 pool, lost>>

\* default: the read fails; closeThenCancel, and round again.
ReadFails(t) ==
  /\ inbound[t] = "read"
  /\ ~up[t]
  /\ recvDone' = [recvDone EXCEPT ![t] = TRUE]
  /\ inbound' = [inbound EXCEPT ![t] = "top"]
  /\ UNCHANGED <<counters, queues, outRelay, retrying, sendDone, tcp, inHand,
                 pool, lost>>

\* case <-ctx.Done(): "Attempt to read any remaining data once, then exit."
\* Whatever is read goes to the pool, pings and pongs included.
ReadLast(t) ==
  /\ inbound[t] = "last"
  /\ wire[t] # <<>>
  /\ wire' = [wire EXCEPT ![t] = Tail(@)]
  /\ inHand' = [inHand EXCEPT ![t] = <<Head(wire[t])>>]
  /\ inbound' = [inbound EXCEPT ![t] = "pushLast"]
  /\ UNCHANGED <<counters, queues, outRelay, retrying, sendDone, up, recvDone,
                 pool, lost>>

\* The last read fails; nothing reads the connection any more.
ReadLastFails(t) ==
  /\ inbound[t] = "last"
  /\ inbound' = [inbound EXCEPT ![t] = "ended"]
  /\ UNCHANGED <<counters, queues, outRelay, retrying, sendDone, tcp,
                 recvDone, inHand, pool, lost>>

\* output <- *blk waits for room, whatever happens to the tunnel.
Push(t) ==
  /\ inbound[t] \in {"push", "pushLast"}
  /\ Len(recvQueue) < RecvQueueSize
  /\ recvQueue' = recvQueue \o inHand[t]
  /\ inHand' = [inHand EXCEPT ![t] = <<>>]
  /\ inbound' = [inbound EXCEPT ![t] = IF @ = "push" THEN "top" ELSE "ended"]
  /\ UNCHANGED <<counters, queues, outRelay, retrying, sendDone, tcp,
                 recvDone, received, leaked, lost>>

\* closeThenCancel by the receiver's PingPong timeout or OutboundRelay.
ReceiverCloses(t) ==
  /\ ~recvDone[t]
  /\ recvDone' = [recvDone EXCEPT ![t] = TRUE]
  /\ up' = [up EXCEPT ![t] = FALSE]
  /\ UNCHANGED <<counters, queues, outRelay, retrying, sendDone, wire, inRelay,
                 pool, lost>>

\* The receiving pool's recvRelay takes a block.
Consume ==
  /\ recvQueue # <<>>
  /\ recvQueue' = Tail(recvQueue)
  /\ LET blk == Head(recvQueue) IN
       \/ /\ blk.type = "data"
          /\ received' = received \cup {blk}
          /\ UNCHANGED leaked
       \/ /\ blk.type = "control"
          /\ leaked' = [leaked EXCEPT ![blk.id] = @ + 1]
          /\ UNCHANGED received
  /\ UNCHANGED <<counters, queues, outRelay, retrying, sendDone, tcp,
                 recvDone, inRelay, lost>>

-----------------------------------------------------------------------------

Outbound(t) ==
  \/ OutboundEnds(t) \/ NotCancelled(t) \/ TakeRetry(t) \/ NoRetry(t)
  \/ TakeNormal(t) \/ SendOK(t) \/ SendFails(t)

Inbound(t) ==
  \/ InboundTop(t) \/ ReadBlock(t) \/ ReadFails(t) \/ ReadLast(t)
  \/ ReadLastFails(t) \/ Push(t)

Next ==
  \/ Produce
  \/ \E t \in Tunnels :
       \/ OutboundEnds(t) \/ NotCancelled(t) \/ TakeRetry(t) \/ NoRetry(t)
       \/ TakeNormal(t) \/ SendOK(t) \/ SendFails(t)
       \/ SendControl(t) \/ SenderCloses(t) \/ Break(t) \/ WireLoses(t)
       \/ InboundTop(t) \/ ReadBlock(t) \/ ReadFails(t) \/ ReadLast(t)
       \/ ReadLastFails(t) \/ Push(t) \/ ReceiverCloses(t)
  \/ \E blk \in retrying : RetryQueued(blk) \/ RetryAbandoned(blk)
  \/ Consume

Spec == Init /\ [][Next]_vars

\* What the goroutines do: a write comes to an end within its deadline, and the
\* receiving pool keeps taking blocks.
Goroutines ==
  \/ \E t \in Tunnels : Outbound(t) \/ Inbound(t)
  \/ \E blk \in retrying : RetryQueued(blk) \/ RetryAbandoned(blk)
  \/ Consume

\* The program does not stand still while one of its goroutines can run.  This
\* is all the fairness that is needed: none of them can run for ever without
\* new blocks.
FairSpec == Spec /\ WF_vars(Goroutines)

-----------------------------------------------------------------------------
(* Properties.                                                             *)

\* How often a block is in a sequence, in a set, in the sequences of all tunnels.
Places(s, blk) == {i \in DOMAIN s : s[i] = blk}
In(s, blk) == Cardinality(Places(s, blk))
Holds(S, blk) == IF blk \in S THEN 1 ELSE 0
Cells(f, blk, T) == UNION {{t} \X Places(f[t], blk) : t \in T}
On(f, blk) == Cardinality(Cells(f, blk, Tunnels))

\* How often a block is in the system.
Copies(blk) ==
  In(sendQueue, blk) + In(sendRetryQueue, blk) + On(outHand, blk) + Holds(retrying, blk)
    + On(wire, blk) + On(inHand, blk) + In(recvQueue, blk)
    + Holds(received, blk) + Holds(lost, blk)

\* Retries neither repeat a block nor drop one unaccounted: every block handed
\* to the tunnels is in exactly one place, whichever tunnels fail.
ExactlyOnePlace ==
  \A blk \in DataBlocks : Copies(blk) = IF blk.id < produced THEN 1 ELSE 0

\* While no tunnel has been closed or broken, no block is lost.
LossNeedsFailure ==
  (\A t \in Tunnels : up[t] /\ ~sendDone[t] /\ ~recvDone[t])
    => lost = {} /\ retrying = {}

\* Pings and pongs are kept from the connection pool while a tunnel is open;
\* InboundRelay's last read lets at most one of each tunnel through.
ControlLeaksOnceAtTheEnd ==
  \A t \in Tunnels :
    LET n == leaked[t] + In(recvQueue, [type |-> "control", id |-> t])
    IN  n <= 1 /\ (n = 1 => inbound[t] = "ended")

\* Unless the sender loses all its tunnels, there is always a later time at
\* which every block handed to them has reached the other pool or was lost with
\* a tunnel: while one tunnel works, no block is stuck in a relay, in a queue
\* or behind a tunnel that failed.
BlocksArriveOrAreLost ==
  []<>(\/ \A t \in Tunnels : sendDone[t]
       \/ \A blk \in DataBlocks :
            blk.id < produced =>
              \/ blk \in received \cup lost
              \/ \E t \in Tunnels : inbound[t] = "ended" /\ blk \in Range(wire[t]))

\* The goroutine of a failed packThenSend ("Tunnel down and message has not
\* been fully sent") hands its block to the retry queue.
FailedBlockIsRetried ==
  [][\A blk \in retrying : blk \in retrying' \/ blk \in Range(sendRetryQueue')]_vars

Handed == {blk \in DataBlocks : blk.id < produced}

Channel == INSTANCE BlockChannel WITH
  Blocks <- DataBlocks, sent <- Handed, arrived <- received, gone <- lost

\* However the blocks are spread over the tunnels, sent again and cut off, the
\* pool is a channel that reorders blocks and may lose them, and never delivers
\* one twice.
ImplementsChannel == Channel!Spec
=============================================================================
