------------------------- MODULE OutboundConnection -------------------------
(***************************************************************************)
(* The server's end of one connection.  connect dials the target and       *)
(* starts two relays: RecvRelay reads the target and queues data blocks    *)
(* for the client, SendRelay takes the client's blocks off                 *)
(* orderedRecvQueue and writes them to the target.  A relay that ends the  *)
(* connection closes the socket, cancels the context and, if it wins the   *)
(* compare-and-swap on closed, sends the Disconnect.                       *)
(*                                                                         *)
(* The client's blocks arrive in order (OrderedStream).  What one Read of  *)
(* the target returns is a chunk, and is sent as one block.  One Connect   *)
(* arrives: the tunnels do not repeat blocks (TunnelRelay).                *)
(***************************************************************************)
EXTENDS Naturals, Sequences

CONSTANTS
  OrderedRecvQueueSize,  \* capacity of orderedRecvQueue
  SendQueueSize,         \* capacity of the pool's sendQueue
  MaxData,               \* bound: data blocks of the client
  MaxChunks              \* bound: chunks of the target

ASSUME ConstantsAssumption ==
  /\ {OrderedRecvQueueSize, SendQueueSize} \subseteq Nat \ {0}
  /\ {MaxData, MaxChunks} \subseteq Nat

VARIABLES
  clientData,   \* data blocks of the client queued for SendRelay so far
  clientShut,   \* the Disconnects of the client queued so far
  orderedRecvQueue,
  connector,    \* where the connect goroutine is
  socket,       \* oc.HalfOpenConn
  shut,         \* what CloseRead and CloseWrite have shut down of it
  chunks,       \* chunks the target has sent
  targetEnd,    \* how the target has ended its side, if it has
  recvRelay,    \* where RecvRelay is
  chunksRead,   \* chunks RecvRelay has read
  sendRelay,    \* where SendRelay is
  closed,       \* oc.closed
  ctxDone,      \* oc.ctx is done
  endedBy,      \* who ended it first
  poolDone,     \* the pool's context, the parent of oc.ctx, is done
  sendQueue,    \* blocks for the client that the pool has not taken
  sent          \* all blocks ever put on sendQueue

client == <<clientData, clientShut, orderedRecvQueue>>
target == <<chunks, targetEnd>>
context == <<ctxDone, endedBy, poolDone>>
queue == <<sendQueue, sent>>
vars == <<client, connector, socket, shut, target, recvRelay, chunksRead,
          sendRelay, closed, context, queue>>

Shutdowns == {"shutRead", "shutWrite", "shutBoth"}
InBlocks == {"connect", "data"} \cup Shutdowns
OutBlocks == {"data", "disconnect"}

TypeOK ==
  /\ clientData \in 0 .. MaxData /\ clientShut \subseteq Shutdowns
  /\ orderedRecvQueue \in Seq(InBlocks)
  /\ Len(orderedRecvQueue) <= OrderedRecvQueueSize
  /\ connector \in {"none", "dial", "refused", "ended"}
  /\ socket \in {"none", "open", "closed"} /\ shut \subseteq Shutdowns
  /\ chunks \in 0 .. MaxChunks /\ chunksRead \in 0 .. chunks
  /\ targetEnd \in {"", "eof", "reset"}
  /\ recvRelay \in {"none", "read", "push", "check", "expired", "swap",
                    "disconnect", "last", "pushLast", "ended"}
  /\ sendRelay \in {"none", "select", "swapGoOn", "disconnectGoOn", "swap",
                    "disconnect", "ended"}
  /\ closed \in BOOLEAN /\ ctxDone \in BOOLEAN /\ poolDone \in BOOLEAN
  /\ endedBy \in {"", "target", "pool", "other"}
  /\ sendQueue \in Seq(OutBlocks) /\ Len(sendQueue) <= SendQueueSize
  /\ sent \in Seq(OutBlocks)

\* NewOutboundConnection: closed is TRUE until the target is connected.
Init ==
  /\ clientData = 0 /\ clientShut = {} /\ orderedRecvQueue = <<>>
  /\ connector = "none" /\ socket = "none" /\ shut = {}
  /\ chunks = 0 /\ targetEnd = ""
  /\ recvRelay = "none" /\ chunksRead = 0 /\ sendRelay = "none"
  /\ closed = TRUE
  /\ ctxDone = FALSE /\ endedBy = "" /\ poolDone = FALSE
  /\ sendQueue = <<>> /\ sent = <<>>

\* oc.cancel, which is the pool's removeConnFromPool, or the end of the pool.
Cancel(who) ==
  /\ ctxDone' = TRUE
  /\ endedBy' = IF ctxDone THEN endedBy ELSE who
  /\ poolDone' = (poolDone \/ who = "pool")

\* sendQueue <- blk waits for room.
Send(blk) ==
  /\ Len(sendQueue) < SendQueueSize
  /\ sendQueue' = Append(sendQueue, blk)
  /\ sent' = Append(sent, blk)

-----------------------------------------------------------------------------
(* RecvBlock and connect.                                                  *)

\* A Connect arrives: RecvBlock starts connect and queues the block.
RecvConnect ==
  /\ connector = "none"
  /\ connector' = "dial"
  /\ orderedRecvQueue' = <<"connect">>
  /\ UNCHANGED <<clientData, clientShut, socket, shut, target, recvRelay, chunksRead, sendRelay,
                 closed, context, queue>>

\* OrderedRelay queues the other blocks of the client after the Connect.
RecvBlock(blk) ==
  /\ connector # "none"
  /\ Len(orderedRecvQueue) < OrderedRecvQueueSize
  /\ orderedRecvQueue' = Append(orderedRecvQueue, blk)
  /\ \/ blk = "data" /\ clientData < MaxData
        /\ clientShut \cap {"shutWrite", "shutBoth"} = {}
        /\ clientData' = clientData + 1 /\ UNCHANGED clientShut
     \/ blk \in Shutdowns \ clientShut /\ "shutBoth" \notin clientShut
        /\ clientShut' = clientShut \cup {blk} /\ UNCHANGED clientData
  /\ UNCHANGED <<connector, socket, shut, target, recvRelay, chunksRead,
                 sendRelay, closed, context, queue>>

DialOK ==
  /\ connector = "dial"
  /\ connector' = "ended"
  /\ socket' = "open"
  /\ closed' = ~closed
  /\ recvRelay' = "read" /\ sendRelay' = "select"
  /\ UNCHANGED <<client, shut, target, chunksRead, context, queue>>

DialFails ==
  /\ connector = "dial"
  /\ connector' = "refused"
  /\ UNCHANGED <<client, socket, shut, target, recvRelay, chunksRead, sendRelay,
                 closed, context, queue>>

\* SendDisconnect(ShutdownBoth) and the Stop at its end.
DialFailureSent ==
  /\ connector = "refused"
  /\ Send("disconnect")
  /\ Cancel("other")
  /\ connector' = "ended"
  /\ UNCHANGED <<client, socket, shut, target, recvRelay, chunksRead, sendRelay,
                 closed>>

-----------------------------------------------------------------------------
(* RecvRelay.                                                              *)

Readable == socket = "open" /\ chunksRead < chunks
AtEOF == socket = "open" /\ chunksRead = chunks /\ (targetEnd = "eof" \/ "shutRead" \in shut)
ReadError == socket = "closed" \/ targetEnd = "reset"

\* Mutant: what is read is not sent.
ReadChunkForgets ==
  /\ recvRelay \in {"read", "last"}
  /\ Readable
  /\ chunksRead' = chunksRead + 1
  /\ recvRelay' = IF recvRelay = "read" THEN "check" ELSE "last"
  /\ UNCHANGED <<client, connector, socket, shut, target, sendRelay, closed,
                 context, queue>>

\* A read returns data.
ReadChunk ==
  /\ recvRelay \in {"read", "last"}
  /\ Readable
  /\ chunksRead' = chunksRead + 1
  /\ recvRelay' = IF recvRelay = "read" THEN "push" ELSE "pushLast"
  /\ UNCHANGED <<client, connector, socket, shut, target, sendRelay, closed,
                 context, queue>>

\* sendData.
PushChunk ==
  /\ recvRelay \in {"push", "pushLast"}
  /\ Send("data")
  /\ recvRelay' = IF recvRelay = "push" THEN "check" ELSE "last"
  /\ UNCHANGED <<client, connector, socket, shut, target, chunksRead, sendRelay,
                 closed, context>>

\* The deadline, new for every Read, passes with nothing to read.
ReadTimeout ==
  /\ recvRelay = "read"
  /\ ~Readable /\ ~AtEOF /\ ~ReadError
  /\ recvRelay' = "expired"
  /\ UNCHANGED <<client, connector, socket, shut, target, chunksRead, sendRelay,
                 closed, context, queue>>

\* The select after every read.  A deadline that has passed is still set, and
\* fails the first of the last reads.
CheckContext ==
  /\ recvRelay \in {"check", "expired"}
  /\ recvRelay' = IF ~ctxDone THEN "read"
                  ELSE IF recvRelay = "check" THEN "last" ELSE "ended"
  /\ UNCHANGED <<client, connector, socket, shut, target, chunksRead, sendRelay,
                 closed, context, queue>>

\* EOF, or an error that is no timeout: closeThenCancelWithOnceSend.
ReadEnds ==
  /\ recvRelay = "read"
  /\ AtEOF \/ ReadError
  /\ socket' = "closed"
  /\ Cancel("target")
  /\ recvRelay' = "swap"
  /\ UNCHANGED <<client, connector, shut, target, chunksRead, sendRelay, closed,
                 queue>>

\* The reads after the context is done end at the first error.
LastReadFails ==
  /\ recvRelay = "last"
  /\ AtEOF \/ ReadError
  /\ recvRelay' = "ended"
  /\ UNCHANGED <<client, connector, socket, shut, target, chunksRead, sendRelay,
                 closed, context, queue>>

\* Mutant: closed is set but not compared.
RecvSwapBlindly ==
  /\ recvRelay = "swap"
  /\ closed' = TRUE
  /\ recvRelay' = "disconnect"
  /\ UNCHANGED <<client, connector, socket, shut, target, chunksRead, sendRelay,
                 context, queue>>

\* closed.CAS(false, true).
RecvSwap ==
  /\ recvRelay = "swap"
  /\ closed' = TRUE
  /\ recvRelay' = IF closed THEN "ended" ELSE "disconnect"
  /\ UNCHANGED <<client, connector, socket, shut, target, chunksRead, sendRelay,
                 context, queue>>

\* SendDisconnect(ShutdownBoth), which ends with Stop.
RecvDisconnect ==
  /\ recvRelay = "disconnect"
  /\ Send("disconnect")
  /\ Cancel("target")
  /\ recvRelay' = "ended"
  /\ UNCHANGED <<client, connector, socket, shut, target, chunksRead, sendRelay,
                 closed>>

-----------------------------------------------------------------------------
(* SendRelay.                                                              *)

TakeBlock(blk) ==
  /\ sendRelay = "select"
  /\ orderedRecvQueue # <<>> /\ blk = Head(orderedRecvQueue)
  /\ orderedRecvQueue' = Tail(orderedRecvQueue)
  /\ UNCHANGED <<clientData, clientShut, connector, target, recvRelay,
                 chunksRead, queue>>

\* A Connect does nothing here; a write to the target succeeds.
TakeHarmless ==
  /\ \/ TakeBlock("connect")
     \/ TakeBlock("data") /\ socket = "open" /\ targetEnd # "reset" /\ "shutWrite" \notin shut
  /\ UNCHANGED <<socket, shut, sendRelay, closed, context>>

\* The write fails or times out: closeThenCancelWithOnceSend, then go on.
WriteFails ==
  /\ TakeBlock("data")
  /\ socket' = "closed"
  /\ Cancel("other")
  /\ sendRelay' = "swapGoOn"
  /\ UNCHANGED <<shut, closed>>

\* CloseRead or CloseWrite of the socket.
TakeShutdown ==
  /\ \E blk \in {"shutRead", "shutWrite"} : TakeBlock(blk) /\ shut' = shut \cup {blk}
  /\ UNCHANGED <<socket, sendRelay, closed, context>>

\* closeThenCancel.
TakeDisconnect ==
  /\ TakeBlock("shutBoth")
  /\ socket' = "closed"
  /\ Cancel("other")
  /\ UNCHANGED <<shut, sendRelay, closed>>

\* Mutant: SendRelay returns without closing anything.
SendRelayReturns ==
  /\ sendRelay = "select"
  /\ ctxDone
  /\ sendRelay' = "ended"
  /\ UNCHANGED <<client, connector, socket, shut, target, recvRelay, chunksRead,
                 closed, context, queue>>

\* case <-oc.ctx.Done(): closeThenCancelWithOnceSend and return.
SendRelayEnds ==
  /\ sendRelay = "select"
  /\ ctxDone
  /\ socket' = "closed"
  /\ sendRelay' = "swap"
  /\ UNCHANGED <<client, connector, shut, target, recvRelay, chunksRead, closed,
                 context, queue>>

SendSwap ==
  /\ sendRelay \in {"swap", "swapGoOn"}
  /\ closed' = TRUE
  /\ sendRelay' = IF sendRelay = "swap"
                  THEN IF closed THEN "ended" ELSE "disconnect"
                  ELSE IF closed THEN "select" ELSE "disconnectGoOn"
  /\ UNCHANGED <<client, connector, socket, shut, target, recvRelay, chunksRead,
                 context, queue>>

SendDisconnect ==
  /\ sendRelay \in {"disconnect", "disconnectGoOn"}
  /\ Send("disconnect")
  /\ Cancel("other")
  /\ sendRelay' = IF sendRelay = "disconnect" THEN "ended" ELSE "select"
  /\ UNCHANGED <<client, connector, socket, shut, target, recvRelay, chunksRead,
                 closed>>

-----------------------------------------------------------------------------
(* The target and the pool.                                                *)

TargetSends ==
  /\ socket = "open" /\ targetEnd = "" /\ chunks < MaxChunks
  /\ chunks' = chunks + 1
  /\ UNCHANGED <<client, connector, socket, shut, targetEnd, recvRelay,
                 chunksRead, sendRelay, closed, context, queue>>

TargetEnds(how) ==
  /\ socket = "open" /\ targetEnd = ""
  /\ targetEnd' = how
  /\ UNCHANGED <<client, connector, socket, shut, chunks, recvRelay, chunksRead,
                 sendRelay, closed, context, queue>>

\* The hole timeout.
HoleCancels ==
  /\ ~ctxDone
  /\ Cancel("other")
  /\ UNCHANGED <<client, connector, socket, shut, target, recvRelay, chunksRead,
                 sendRelay, closed, queue>>

\* The end of the peer, and with it of the pool.
PoolEnds ==
  /\ ~poolDone
  /\ Cancel("pool")
  /\ UNCHANGED <<client, connector, socket, shut, target, recvRelay, chunksRead,
                 sendRelay, closed, queue>>

\* The pool's sendRelay.  When the pool has ended, its select may still take a
\* block a few times before it returns.
PoolTakes ==
  /\ sendQueue # <<>>
  /\ sendQueue' = Tail(sendQueue)
  /\ UNCHANGED <<client, connector, socket, shut, target, recvRelay, chunksRead,
                 sendRelay, closed, context, sent>>

Connector == DialOK \/ DialFails \/ DialFailureSent
RecvRelay ==
  \/ ReadChunk \/ PushChunk \/ CheckContext \/ ReadEnds \/ LastReadFails
  \/ RecvSwap \/ RecvDisconnect
SendRelay ==
  \/ TakeHarmless \/ WriteFails \/ TakeShutdown \/ TakeDisconnect
  \/ SendSwap \/ SendDisconnect

Next ==
  \/ RecvConnect \/ \E blk \in InBlocks : RecvBlock(blk)
  \/ DialOK \/ DialFails \/ DialFailureSent
  \/ ReadChunk \/ PushChunk \/ ReadTimeout \/ CheckContext \/ ReadEnds
  \/ LastReadFails \/ RecvSwap \/ RecvDisconnect
  \/ TakeHarmless \/ WriteFails \/ TakeShutdown \/ TakeDisconnect
  \/ SendRelayEnds \/ SendSwap \/ SendDisconnect
  \/ TargetSends \/ TargetEnds("eof") \/ TargetEnds("reset")
  \/ HoleCancels \/ PoolEnds \/ PoolTakes

Spec == Init /\ [][Next]_vars

\* The goroutines run and a dial ends within DialTimeoutSec.  A block on
\* sendQueue is taken when some tunnel takes the one before it, or the peer
\* ends for want of tunnels; nothing need be taken after that.  select is
\* random: a relay that keeps finding the context done takes that case at some
\* time, whatever else is ready.
Fairness ==
  /\ WF_vars(Connector) /\ WF_vars(RecvRelay) /\ WF_vars(SendRelay)
  /\ SF_vars(SendRelayEnds)
  /\ WF_vars(~poolDone /\ sendQueue # <<>> /\ (PoolTakes \/ PoolEnds))

FairSpec == Spec /\ Fairness

-----------------------------------------------------------------------------
(* Properties.                                                             *)

Disconnects == {i \in DOMAIN sent : sent[i] = "disconnect"}

\* Both relays, a failed dial and a client's Disconnect may all end the
\* connection at once: the client is told so once.
OneDisconnect == \A i, j \in Disconnects : i = j

\* When the target closes its side in the normal way and nothing else ended
\* the connection before, all its data is queued before the Disconnect,
\* whichever relay sends that: the client gets the complete answer.
CompleteBeforeDisconnect ==
  endedBy = "target" /\ targetEnd = "eof" =>
    \A i \in Disconnects : i > chunks

\* Both relays are gone and a Disconnect is on its way to the client.
Ended ==
  /\ {recvRelay, sendRelay} \subseteq {"none", "ended"}
  /\ Disconnects # {}

\* A goroutine of the connection waits for room on the full sendQueue of a
\* pool that has ended.
Stranded ==
  /\ poolDone /\ Len(sendQueue) = SendQueueSize
  /\ \/ connector = "refused"
     \/ recvRelay \in {"push", "pushLast", "disconnect"}
     \/ sendRelay \in {"disconnect", "disconnectGoOn"}

\* However the connection ends, also while the target is being dialed, its
\* socket is closed, both relays end and the client gets a Disconnect.  Only
\* when the whole pool has ended may a goroutine stay for ever, and then
\* because the pool takes no more blocks off a sendQueue that is full.
EndsCompletely ==
  (ctxDone /\ connector # "none") ~> (socket # "open" /\ (Ended \/ []Stranded))

\* "Should read all before leave, or packet will be lost": RecvRelay leaves
\* for a done context with nothing of the target left to read.
ReadAllBeforeLeave ==
  [][recvRelay' = "ended" /\ recvRelay \in {"last", "expired"} => chunksRead = chunks]_vars
=============================================================================
