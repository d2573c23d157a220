-------------------------- MODULE InboundConnection --------------------------
(***************************************************************************)
(* The client's end of one connection and the two relay goroutines of      *)
(* biRelay that use it: one reads the connection and writes to the local   *)
(* TCP connection, the other reads the local connection and writes to the  *)
(* tunnel.  The pool's recvRelay and the connection's OrderedRelay bring   *)
(* the server's blocks, and Close closes the channels they use.            *)
(*                                                                         *)
(* The blocks reach the connection in order (BlockProcessor).  The bytes   *)
(* of the stream are numbered, and a data block is a sequence of them.     *)
(* Sends to the pool's sendQueue are taken to find room.                   *)
(***************************************************************************)
EXTENDS Naturals, Sequences, FiniteSetsExt, Functions, ByteStreams

CONSTANTS
  Streams,       \* what the server may send: sequences of blocks
  BufferSizes,   \* lengths of the slices given to Read
  QueueSize,     \* capacity of recvQueue and of orderedRecvQueue
  MaxWrites      \* bound: data the local program sends

Blocks == [type : {"connect", "data", "shutRead", "shutWrite", "shutBoth"}, data : Seq(Nat)]
Shutdown(how) == [type |-> how, data |-> <<>>]
Data(bytes) == [type |-> "data", data |-> bytes]
\* What a receive from a closed and empty channel returns.
ZeroBlock == Shutdown("connect")

\* The server sends one Disconnect (OutboundConnection)...
OneEnd(s) ==
  \A i, j \in DOMAIN s : s[i].type = "shutBoth" /\ s[j].type = "shutBoth" => i = j
\* ... and no data after it, unless it ends the connection while the relay that
\* reads from the target is still sending.
EndsLast(s) ==
  \A i, j \in DOMAIN s : i < j /\ s[i].type \in {"shutWrite", "shutBoth"} => s[j].data = <<>>

ASSUME ConstantsAssumption ==
  /\ \A s \in Streams : s \in Seq(Blocks) /\ OneEnd(s)
  /\ BufferSizes \subseteq Nat \ {0} /\ QueueSize \in Nat \ {0}
  /\ MaxWrites \in Nat

Goroutines == {"reader", "writer", "main"}

VARIABLES
  stream,           \* all that the server sends
  arriving,         \* what of it recvRelay has not looked up yet
  recvRelay,        \* the block recvRelay is delivering here, if any
  recvQueue, orderedRecvQueue,
  isClosed,         \* which of the two channels are closed
  relay,            \* where OrderedRelay is
  relayHand,        \* the block it is sending, if any
  recvBlockID,      \* blocks it has sent
  ctxDone, mapped,  \* the connection's context, its entry in the pool
  closed, readClosed, writeClosed,
  expired,          \* SetDeadline has replaced readCtx by one that is over
  reader,           \* where Read and its relay goroutine are
  size, got,        \* len(b) and b[:readN] of the Read under way
  dataBuffer,       \* what the ring buffer holds
  returned,         \* all bytes returned by Read
  recvBytes,        \* RecvBytes
  writer, writes,   \* where the other relay goroutine is
  localClosed,      \* the local connection is closed by a relay
  closing,          \* where each goroutine is in Close
  sent,             \* blocks sent to the server
  panicked          \* a send on a closed channel has ended the program

pool == <<stream, arriving, recvRelay, mapped>>
ordering == <<relay, relayHand, recvBlockID>>
arrival == <<pool, ordering, recvQueue>>
queues == <<recvQueue, orderedRecvQueue, isClosed>>
flags == <<closed, readClosed, writeClosed>>
reading == <<reader, size, got, dataBuffer, returned, recvBytes>>
relays == <<writer, writes, localClosed, closing, expired, sent>>
client == <<flags, reading, relays>>
vars == <<arrival, orderedRecvQueue, isClosed, ctxDone, client, panicked>>

BytesOf(blocks) == Joined([i \in DOMAIN blocks |-> blocks[i].data])

TypeOK ==
  /\ \A q \in {recvQueue, orderedRecvQueue} : Len(q) <= QueueSize
  /\ Len(recvRelay) <= 1 /\ Len(relayHand) <= 1
  /\ isClosed \subseteq {"recvQueue", "orderedRecvQueue"}
  /\ relay \in {"select", "send", "ended"} /\ recvBlockID \in Nat
  /\ {ctxDone, mapped, closed, readClosed, writeClosed, expired, localClosed,
      panicked} \subseteq BOOLEAN
  /\ reader \in {"idle", "drain", "wait", "more", "copy", "eof", "closing", "ended"}
  /\ Len(got) <= size /\ recvBytes \in Nat
  /\ writer \in {"idle", "send", "closing", "ended"}
  /\ closing \in [Goroutines -> {"no", "swap", "disconnect", "closeRecv",
                                 "closeOrdered", "stop", "done"}]

Init ==
  /\ stream \in Streams /\ arriving = stream
  /\ recvRelay = <<>> /\ recvQueue = <<>> /\ orderedRecvQueue = <<>>
  /\ isClosed = {}
  /\ relay = "select" /\ relayHand = <<>> /\ recvBlockID = 0
  /\ ctxDone = FALSE /\ mapped = TRUE
  /\ closed = FALSE /\ readClosed = FALSE /\ writeClosed = FALSE
  /\ expired = FALSE
  /\ reader = "idle" /\ size = 0 /\ got = <<>>
  /\ dataBuffer = <<>> /\ returned = <<>> /\ recvBytes = 0
  /\ writer = "idle" /\ writes = 0 /\ localClosed = FALSE
  /\ closing = [g \in Goroutines |-> "no"]
  /\ sent = <<>> /\ panicked = FALSE

-----------------------------------------------------------------------------
(* The pool's recvRelay and the connection's OrderedRelay.                 *)

\* recvRelay takes a block and finds the connection in connectionMapping.
LookUp ==
  /\ mapped /\ arriving # <<>> /\ recvRelay = <<>>
  /\ recvRelay' = <<Head(arriving)>>
  /\ arriving' = Tail(arriving)
  /\ UNCHANGED <<client, ordering, queues, stream, mapped, ctxDone, panicked>>

\* RecvBlock: recvQueue <- blk, a panic if the channel is closed.
RecvBlock ==
  /\ recvRelay # <<>>
  /\ \/ /\ "recvQueue" \in isClosed
        /\ panicked' = TRUE
        /\ UNCHANGED <<recvRelay, recvQueue>>
     \/ /\ "recvQueue" \notin isClosed /\ Len(recvQueue) < QueueSize
        /\ recvQueue' = recvQueue \o recvRelay
        /\ recvRelay' = <<>>
        /\ UNCHANGED panicked
  /\ UNCHANGED <<client, ordering, stream, arriving, mapped, orderedRecvQueue,
                 isClosed, ctxDone>>

\* OrderedRelay receives.  The zero block of a closed channel has BlockID 0:
\* it is old unless nothing has been received.
RelayTake ==
  /\ relay = "select"
  /\ \/ /\ recvQueue # <<>>
        /\ relayHand' = <<Head(recvQueue)>>
        /\ recvQueue' = Tail(recvQueue)
     \/ /\ recvQueue = <<>> /\ "recvQueue" \in isClosed /\ recvBlockID = 0
        /\ relayHand' = <<ZeroBlock>>
        /\ UNCHANGED recvQueue
  /\ relay' = "send"
  /\ UNCHANGED <<client, pool, orderedRecvQueue, isClosed, recvBlockID, ctxDone,
                 panicked>>

\* orderedRecvQueue <- blk, a panic if the channel is closed, also while
\* waiting for room.
RelaySend ==
  /\ relay = "send"
  /\ \/ /\ "orderedRecvQueue" \in isClosed
        /\ panicked' = TRUE
        /\ UNCHANGED <<ordering, orderedRecvQueue>>
     \/ /\ "orderedRecvQueue" \notin isClosed
        /\ Len(orderedRecvQueue) < QueueSize
        /\ orderedRecvQueue' = orderedRecvQueue \o relayHand
        /\ relayHand' = <<>>
        /\ recvBlockID' = recvBlockID + 1
        /\ relay' = "select"
        /\ UNCHANGED panicked
  /\ UNCHANGED <<client, pool, recvQueue, isClosed, ctxDone>>

RelayEnds ==
  /\ relay = "select" /\ ctxDone
  /\ relay' = "ended"
  /\ UNCHANGED <<client, pool, queues, relayHand, recvBlockID, ctxDone, panicked>>

\* The goroutine of NewPooledInboundConnection: removeConnection.
RemoveConnection ==
  /\ ctxDone /\ mapped
  /\ mapped' = FALSE
  /\ UNCHANGED <<client, ordering, queues, stream, arriving, recvRelay, ctxDone,
                 panicked>>

-----------------------------------------------------------------------------
(* Read, called by the relay goroutine that writes to the local connection. *)

Return(bytes) ==
  /\ returned' = returned \o bytes
  /\ got' = <<>>
  /\ reader' = IF bytes = <<>> THEN "idle" ELSE "copy"

ReturnEOF ==
  /\ reader' = "eof"
  /\ got' = <<>>
  /\ UNCHANGED returned

\* What the ring buffer gives for a slice of n bytes.
Buffered(n) == SubSeq(dataBuffer, 1, Min({n, Len(dataBuffer)}))

\* Read(b) up to its first select: the bytes left in dataBuffer, then the test
\* of closed and readClosed.
ReadBegin(n) ==
  /\ reader = "idle"
  /\ LET bytes == Buffered(n) IN
       /\ dataBuffer' = SubSeq(dataBuffer, Len(bytes) + 1, Len(dataBuffer))
       /\ \/ /\ Len(bytes) = n
             /\ Return(bytes)
          \/ /\ Len(bytes) # n
             /\ reader' = IF closed \/ readClosed THEN "drain"
                          ELSE IF bytes = <<>> THEN "wait" ELSE "more"
             /\ got' = bytes
             /\ UNCHANGED returned
  /\ size' = n
  /\ UNCHANGED <<arrival, flags, relays, orderedRecvQueue, isClosed, recvBytes,
                 ctxDone, panicked>>

\* The part of a block's data that fits into b[readN:].
Fits(blk) == SubSeq(blk.data, 1, Min({size - Len(got), Len(blk.data)}))

\* Mutant: the ring buffer gets the whole block.
ReadBlockKeepsAll(blk) ==
  /\ closed' = (closed \/ blk.type = "shutBoth")
  /\ readClosed' = (readClosed \/ blk.type = "shutWrite")
  /\ writeClosed' = (writeClosed \/ blk.type = "shutRead")
  /\ dataBuffer' = IF Len(Fits(blk)) < Len(blk.data) THEN blk.data ELSE dataBuffer
  /\ recvBytes' = recvBytes + Len(Fits(blk))

\* readBlock: the part of a data block that does not fit goes to dataBuffer.
ReadBlock(blk) ==
  /\ closed' = (closed \/ blk.type = "shutBoth")
  /\ readClosed' = (readClosed \/ blk.type = "shutWrite")
  /\ writeClosed' = (writeClosed \/ blk.type = "shutRead")
  /\ dataBuffer' = IF Len(Fits(blk)) < Len(blk.data)
                   THEN SubSeq(blk.data, Len(Fits(blk)) + 1, Len(blk.data))
                   ELSE dataBuffer
  /\ recvBytes' = recvBytes + Len(Fits(blk))

\* A block is received in one of the three selects of Read.  The loop of a
\* closed connection goes on after a Disconnect.
ReadTake ==
  /\ reader \in {"drain", "wait", "more"} /\ orderedRecvQueue # <<>>
  /\ LET blk == Head(orderedRecvQueue)
         bytes == got \o Fits(blk)
         ends == \/ Len(bytes) = size
                 \/ reader # "drain" /\ blk.type \in {"shutBoth", "shutWrite"}
     IN /\ ReadBlock(blk)
        /\ \/ ends /\ reader = "wait" /\ bytes = <<>> /\ ReturnEOF
           \/ ends /\ ~(reader = "wait" /\ bytes = <<>>) /\ Return(bytes)
           \/ /\ ~ends
              /\ reader' = IF reader = "wait" THEN "more" ELSE reader
              /\ got' = bytes
              /\ UNCHANGED returned
  /\ orderedRecvQueue' = Tail(orderedRecvQueue)
  /\ UNCHANGED <<arrival, relays, isClosed, size, ctxDone, panicked>>

\* A receive from the closed orderedRecvQueue: readBlock ignores the zero block.
\* In the two loops it changes nothing.
ReadZero ==
  /\ reader = "wait"
  /\ orderedRecvQueue = <<>> /\ "orderedRecvQueue" \in isClosed
  /\ reader' = "more"
  /\ UNCHANGED <<arrival, flags, relays, orderedRecvQueue, isClosed, size, got,
                 dataBuffer, returned, recvBytes, ctxDone, panicked>>

\* Mutant: only a deadline ends the wait.
ReadDoneOnDeadline ==
  /\ expired
  /\ \/ reader = "wait" /\ ReturnEOF
     \/ reader = "more" /\ Return(got)
  /\ UNCHANGED <<arrival, flags, relays, orderedRecvQueue, isClosed, size,
                 dataBuffer, recvBytes, ctxDone, panicked>>

\* <-readCtx.Done(): the connection's context, or an expired deadline.
ReadDone ==
  /\ ctxDone \/ expired
  /\ \/ reader = "wait" /\ ReturnEOF
     \/ reader = "more" /\ Return(got)
  /\ UNCHANGED <<arrival, flags, relays, orderedRecvQueue, isClosed, size,
                 dataBuffer, recvBytes, ctxDone, panicked>>

\* Mutant: Read does not wait for a first block.
ReadDefaultAtOnce ==
  /\ orderedRecvQueue = <<>> /\ "orderedRecvQueue" \notin isClosed
  /\ \/ reader \in {"drain", "wait"} /\ got = <<>> /\ ReturnEOF
     \/ reader = "drain" /\ got # <<>> /\ Return(got)
     \/ reader = "more" /\ ~ctxDone /\ ~expired /\ Return(got)
  /\ UNCHANGED <<arrival, flags, relays, orderedRecvQueue, isClosed, size,
                 dataBuffer, recvBytes, ctxDone, panicked>>

\* The default of the two loops: nothing can be received.
ReadDefault ==
  /\ orderedRecvQueue = <<>> /\ "orderedRecvQueue" \notin isClosed
  /\ \/ reader = "drain" /\ got = <<>> /\ ReturnEOF
     \/ reader = "drain" /\ got # <<>> /\ Return(got)
     \/ reader = "more" /\ ~ctxDone /\ ~expired /\ Return(got)
  /\ UNCHANGED <<arrival, flags, relays, orderedRecvQueue, isClosed, size,
                 dataBuffer, recvBytes, ctxDone, panicked>>

-----------------------------------------------------------------------------
(* relay and biRelay.                                                      *)

\* io.Copy writes what Read returned to the local connection.
CopyOut ==
  /\ reader = "copy" /\ ~localClosed
  /\ reader' = "idle"
  /\ UNCHANGED <<arrival, flags, relays, orderedRecvQueue, isClosed, size, got,
                 dataBuffer, returned, recvBytes, ctxDone, panicked>>

CloseRead == sent' = Append(sent, "shutRead")

CloseWrite == sent' = Append(sent, "shutWrite")

\* SetDeadline(time.Now()).
SetDeadline == expired' = TRUE

\* The error path of relay begins: both deadlines are set to now, and
\* the local connection is unusable from here on.
RelayError(g) ==
  /\ SetDeadline
  /\ localClosed' = TRUE
  /\ closing' = [closing EXCEPT ![g] = "swap"]

CopyOutFails ==
  /\ reader = "copy"
  /\ RelayError("reader")
  /\ reader' = "closing"
  /\ UNCHANGED <<arrival, flags, orderedRecvQueue, isClosed, size, got,
                 dataBuffer, returned, recvBytes, writer, writes, sent, ctxDone,
                 panicked>>

\* Read returned io.EOF: CloseWrite of the local connection, and CloseRead.
ReaderEnds ==
  /\ reader = "eof"
  /\ CloseRead
  /\ reader' = "ended"
  /\ UNCHANGED <<arrival, flags, orderedRecvQueue, isClosed, size, got,
                 dataBuffer, returned, recvBytes, writer, writes, localClosed,
                 closing, expired, ctxDone, panicked>>

\* The other relay reads from the local program and calls Write, which fails
\* on a closed connection.
WriteChecks ==
  /\ writer = "idle" /\ ~localClosed /\ writes < MaxWrites
  /\ writes' = writes + 1
  /\ \/ /\ ~writeClosed /\ ~closed
        /\ writer' = "send"
        /\ UNCHANGED <<localClosed, closing, expired>>
     \/ /\ writeClosed \/ closed
        /\ RelayError("writer")
        /\ writer' = "closing"
  /\ UNCHANGED <<arrival, flags, reading, orderedRecvQueue, isClosed, sent,
                 ctxDone, panicked>>

\* sendData.
WriteSends ==
  /\ writer = "send"
  /\ sent' = Append(sent, "data")
  /\ writer' = "idle"
  /\ UNCHANGED <<arrival, flags, reading, orderedRecvQueue, isClosed, writes,
                 localClosed, closing, expired, ctxDone, panicked>>

\* The local program has closed its side: CloseWrite, and CloseRead of the
\* local connection.
WriterEnds ==
  /\ writer = "idle" /\ ~localClosed
  /\ CloseWrite
  /\ writer' = "ended"
  /\ UNCHANGED <<arrival, flags, reading, orderedRecvQueue, isClosed, writes,
                 localClosed, closing, expired, ctxDone, panicked>>

WriterFails ==
  /\ writer = "idle"
  /\ RelayError("writer")
  /\ writer' = "closing"
  /\ UNCHANGED <<arrival, flags, reading, orderedRecvQueue, isClosed, writes,
                 sent, ctxDone, panicked>>

\* biRelay, once both relays are done.
BiRelayCloses ==
  /\ reader = "ended" /\ writer = "ended" /\ closing["main"] = "no"
  /\ closing' = [closing EXCEPT !["main"] = "swap"]
  /\ localClosed' = TRUE
  /\ UNCHANGED <<arrival, flags, reading, orderedRecvQueue, isClosed, writer,
                 writes, expired, sent, ctxDone, panicked>>

-----------------------------------------------------------------------------
(* Close, by any of the three goroutines.                                  *)

CloseGoes(g, from, to) ==
  /\ closing[g] = from
  /\ closing' = [closing EXCEPT ![g] = to]
  /\ UNCHANGED <<arrival, orderedRecvQueue, readClosed, writeClosed, size, got,
                 dataBuffer, returned, recvBytes, writes, localClosed, expired,
                 panicked>>

\* Mutant: closed is set without comparing.
CloseStores(g) ==
  /\ CloseGoes(g, "swap", "disconnect")
  /\ closed' = TRUE
  /\ UNCHANGED <<isClosed, reader, writer, sent, ctxDone>>

\* closed.CAS(false, true).
CloseSwaps(g) ==
  /\ CloseGoes(g, "swap", IF closed THEN "stop" ELSE "disconnect")
  /\ closed' = TRUE
  /\ UNCHANGED <<isClosed, reader, writer, sent, ctxDone>>

\* SendDisconnect(ShutdownBoth), which also stops.
CloseDisconnects(g) ==
  /\ CloseGoes(g, "disconnect", "closeRecv")
  /\ sent' = Append(sent, "shutBoth")
  /\ ctxDone' = TRUE
  /\ UNCHANGED <<isClosed, closed, reader, writer>>

CloseRecvQueue(g) ==
  /\ CloseGoes(g, "closeRecv", "closeOrdered")
  /\ isClosed' = isClosed \cup {"recvQueue"}
  /\ UNCHANGED <<closed, reader, writer, sent, ctxDone>>

CloseOrderedRecvQueue(g) ==
  /\ CloseGoes(g, "closeOrdered", "stop")
  /\ isClosed' = isClosed \cup {"orderedRecvQueue"}
  /\ UNCHANGED <<closed, reader, writer, sent, ctxDone>>

\* Stop, and the goroutine is done.
CloseStops(g) ==
  /\ CloseGoes(g, "stop", "done")
  /\ ctxDone' = TRUE
  /\ reader' = IF g = "reader" THEN "ended" ELSE reader
  /\ writer' = IF g = "writer" THEN "ended" ELSE writer
  /\ UNCHANGED <<isClosed, closed, sent>>

Close(g) ==
  \/ CloseSwaps(g) \/ CloseDisconnects(g)
  \/ CloseRecvQueue(g) \/ CloseOrderedRecvQueue(g) \/ CloseStops(g)

\* The context is cancelled from outside: the peer stops, or OrderedRelay has
\* waited too long for a missing block.
Cancelled ==
  /\ ~ctxDone
  /\ ctxDone' = TRUE
  /\ UNCHANGED <<client, arrival, orderedRecvQueue, isClosed, panicked>>

\* What the goroutines do, once the local program has said all that it will.
Work ==
  \/ LookUp \/ RecvBlock \/ RelayTake \/ RelaySend \/ RelayEnds \/ RemoveConnection
  \/ \E n \in BufferSizes : ReadBegin(n)
  \/ ReadTake \/ ReadZero \/ ReadDone \/ ReadDefault
  \/ CopyOut \/ CopyOutFails \/ ReaderEnds
  \/ WriteSends \/ WriterEnds \/ WriterFails
  \/ BiRelayCloses \/ \E g \in Goroutines : Close(g)

\* A panic ends every goroutine.
Next == ~panicked /\ (Work \/ WriteChecks \/ Cancelled)

Spec == Init /\ [][Next]_vars

\* The program does not stand still while one of its goroutines can run, and the
\* local program closes its connection in the end.  No more fairness is needed:
\* no goroutine can run for ever, but for the loop of ReadSpins, without data.
FairSpec == Spec /\ WF_vars(~panicked /\ Work)

-----------------------------------------------------------------------------
(* Properties.                                                             *)

\* No byte is lost, repeated or reordered between recvRelay and the caller of
\* Read, whatever the lengths of the blocks and of the slices: what Read has
\* returned, what it holds, the ring buffer and the blocks on their way are
\* always the server's stream.
StreamIsKept ==
  returned \o got \o dataBuffer
    \o BytesOf(orderedRecvQueue \o relayHand \o recvQueue \o recvRelay \o arriving)
  = BytesOf(stream)

\* Read reports the end of a stream that ends with the server's shutdown only
\* when all of its bytes have been returned, unless the connection's context is
\* over or a deadline has passed.
EOFIsComplete ==
  [][reader # "eof" /\ reader' = "eof" /\ EndsLast(stream) =>
       ctxDone \/ expired \/ returned = BytesOf(stream)]_vars

\* Every closing goroutine may call Close, yet the server is told at most once
\* that the connection is closed, and when biRelay is done it has been told or
\* has closed the connection itself.
ClosedOnce ==
  /\ \A i, j \in DOMAIN sent : sent[i] = "shutBoth" /\ sent[j] = "shutBoth" => i = j
  /\ closing["main"] = "done" =>
       "shutBoth" \in Range(sent)
         \/ Shutdown("shutBoth") \notin
              Range(orderedRecvQueue \o relayHand \o recvQueue \o recvRelay \o arriving)

\* Read is at its loop for a closed connection and receives zero blocks from the
\* closed channel: the loop never gets to its default.
ReadSpins ==
  reader = "drain" /\ orderedRecvQueue = <<>> /\ "orderedRecvQueue" \in isClosed

\* biRelay ends, both relays ended and the connection closed, whichever side
\* closes or fails and whatever cancels the connection.  The one other outcome,
\* unless the program panics, is a Read that spins because the other relay has
\* closed the connection.
BiRelayEnds == <>(closing["main"] = "done" \/ panicked \/ ReadSpins)

\* Stop is documented as "Stop all related relay and remove itself from
\* connectionPool": no relay sends on a channel of the connection that Close,
\* after stopping it, has closed (the send would end the program).
NoPanic == ~panicked

\* A Read of a closed connection returns: "should read all data left in
\* channel".
ReadReturns == reader = "drain" ~> reader # "drain"

\* RecvBytes is the number of bytes received by the caller of Read.
RecvBytesExact == reader = "idle" => recvBytes = Len(returned)
=============================================================================
