----------------------------- MODULE SecureStream -----------------------------
(***************************************************************************)
(* One direction of a tunnel after the handshake: goroutines of one end    *)
(* write blocks to the tunnel's connection, and the other end's            *)
(* InboundRelay reads them.  With a cipher the connection is a streamConn: *)
(* a writer splits what is written into records, each sealed in the        *)
(* writer's one buffer with the writer's one nonce, and the reader opens   *)
(* the records in turn.  Without a cipher it is the WebSocket adapter.     *)
(*                                                                         *)
(* A byte of a block is a triple: the goroutine, the block, its position.  *)
(* A sealed part of a record is its content with the nonce it was sealed   *)
(* with; it opens under that nonce only.  The size and the payload of a    *)
(* record are sealed one after the other.                                  *)
(***************************************************************************)
EXTENDS Naturals, Sequences, FiniteSetsExt, Functions, ByteStreams

CONSTANTS
  Writers,     \* goroutines that write: OutboundRelay, and InboundRelay or
               \* PingPong for pongs and pings
  BlockSizes,  \* lengths of packed blocks
  MaxBlocks,   \* bound: blocks written in all
  PayloadMax,  \* payloadSizeMask, the largest payload of a record
  ReadSizes    \* lengths of the slices given to Read

ASSUME SecureAssumption ==
  /\ BlockSizes \subseteq Nat \ {0} /\ ReadSizes \subseteq Nat \ {0}
  /\ PayloadMax \in Nat \ {0} /\ MaxBlocks \in Nat

VARIABLES
  encrypted,   \* the tunnel has a cipher
  overlapped,  \* two goroutines have been in ReadFrom at the same time
  blocks,    \* blocks begun by each goroutine
  step,      \* where each goroutine is in ReadFrom
  rest,      \* what it has still to write of its block
  first,     \* nothing of its block has been written
  chunk,     \* the length of its record, a local variable
  buf,       \* the writer's buffer
  nonce,     \* the writer's nonce
  wire,      \* records, or messages, that the reader has not read
  rnonce,    \* the reader's nonce
  leftover,  \* decrypted bytes kept for the next Read
  out,       \* bytes returned by Read
  failed,    \* a record has not opened: InboundRelay closes the tunnel
  order      \* the blocks in the order they came on the wire

writing == <<blocks, step, rest, first, chunk, buf, nonce>>
readingVars == <<rnonce, leftover, out, failed>>
secureVars == <<encrypted, overlapped, writing, wire, readingVars, order>>

\* In place of the nonce, of what is not sealed.
Plain == 0
Bytes == Writers \X (1..MaxBlocks) \X (1..Max(BlockSizes))
Block(g, k, n) == [i \in 1..n |-> <<g, k, i>>]

SecureTypeOK ==
  /\ encrypted \in BOOLEAN /\ overlapped \in BOOLEAN
  /\ blocks \in [Writers -> 0..MaxBlocks]
  /\ step \in [Writers -> {"idle", "fill", "sealSize", "sealPayload", "write"}]
  /\ \A g \in Writers : rest[g] \in Seq(Bytes) /\ chunk[g] \in 0..PayloadMax
  /\ first \in [Writers -> BOOLEAN]
  /\ nonce \in Nat /\ rnonce \in Nat
  /\ leftover \in Seq(Bytes) /\ Len(leftover) < Max(BlockSizes) /\ out \in Seq(Bytes)
  /\ failed \in BOOLEAN

SecureInit ==
  /\ encrypted \in BOOLEAN /\ overlapped = FALSE
  /\ blocks = [g \in Writers |-> 0] /\ step = [g \in Writers |-> "idle"]
  /\ rest = [g \in Writers |-> <<>>] /\ first = [g \in Writers |-> FALSE]
  /\ chunk = [g \in Writers |-> 0]
  /\ buf = [size |-> 0, sizeNonce |-> Plain, payload |-> <<>>, payloadNonce |-> Plain]
  /\ nonce = 1 /\ rnonce = 1
  /\ wire = <<>> /\ leftover = <<>> /\ out = <<>> /\ failed = FALSE
  /\ order = <<>>

-----------------------------------------------------------------------------
(* Writing.                                                                *)

\* packThenSend: io.Copy writes the packed block with one Write.
Begin(g, n) ==
  /\ step[g] = "idle" /\ FoldFunction(+, 0, blocks) < MaxBlocks
  /\ blocks' = [blocks EXCEPT ![g] = @ + 1]
  /\ rest' = [rest EXCEPT ![g] = Block(g, blocks[g] + 1, n)]
  /\ first' = [first EXCEPT ![g] = TRUE]
  /\ step' = [step EXCEPT ![g] = IF encrypted THEN "fill" ELSE "write"]
  /\ overlapped' = (overlapped \/ (encrypted /\ \E h \in Writers : step[h] # "idle"))
  /\ UNCHANGED <<chunk, buf, nonce, wire, readingVars, order>>

\* The loop of ReadFrom: the next bytes go to the buffer's payload, and their
\* number before it.
Fill(g) ==
  /\ step[g] = "fill" /\ rest[g] # <<>>
  /\ LET n == Min({PayloadMax, Len(rest[g])}) IN
       /\ buf' = [size |-> n, sizeNonce |-> Plain, payloadNonce |-> Plain,
                  payload |-> SubSeq(rest[g], 1, n)]
       /\ chunk' = [chunk EXCEPT ![g] = n]
  /\ step' = [step EXCEPT ![g] = "sealSize"]
  /\ UNCHANGED <<blocks, rest, first, nonce, wire, readingVars, order>>

SealSize(g) ==
  /\ step[g] = "sealSize"
  /\ buf' = [buf EXCEPT !.sizeNonce = nonce]
  /\ nonce' = nonce + 1
  /\ step' = [step EXCEPT ![g] = "sealPayload"]
  /\ UNCHANGED <<blocks, rest, first, chunk, wire, readingVars, order>>

\* Mutant: the nonce is not incremented.
SealPayloadSameNonce(g) ==
  /\ step[g] = "sealPayload"
  /\ buf' = [buf EXCEPT !.payloadNonce = nonce]
  /\ step' = [step EXCEPT ![g] = "write"]
  /\ UNCHANGED <<blocks, rest, first, chunk, nonce, wire, readingVars, order>>

SealPayload(g) ==
  /\ step[g] = "sealPayload"
  /\ buf' = [buf EXCEPT !.payloadNonce = nonce]
  /\ nonce' = nonce + 1
  /\ step' = [step EXCEPT ![g] = "write"]
  /\ UNCHANGED <<blocks, rest, first, chunk, wire, readingVars, order>>

NoteOrder(g) ==
  /\ first' = [first EXCEPT ![g] = FALSE]
  /\ order' = IF first[g] THEN Append(order, rest[g]) ELSE order

\* The adapter's Write, under its mutex, of the buffer as it is now.
WriteRecord(g) ==
  /\ encrypted /\ step[g] = "write"
  /\ wire' = Append(wire, buf)
  /\ NoteOrder(g)
  /\ rest' = [rest EXCEPT ![g] = SubSeq(@, chunk[g] + 1, Len(@))]
  /\ step' = [step EXCEPT ![g] = "fill"]
  /\ UNCHANGED <<blocks, chunk, buf, nonce, readingVars>>

WriteEnds(g) ==
  /\ step[g] = "fill" /\ rest[g] = <<>>
  /\ step' = [step EXCEPT ![g] = "idle"]
  /\ UNCHANGED <<blocks, rest, first, chunk, buf, nonce, wire, readingVars, order>>

\* Without a cipher the whole block is one message.
WriteMessage(g) ==
  /\ ~encrypted /\ step[g] = "write"
  /\ wire' = Append(wire, [size |-> Len(rest[g]), sizeNonce |-> Plain, payload |-> rest[g],
                           payloadNonce |-> Plain])
  /\ NoteOrder(g)
  /\ rest' = [rest EXCEPT ![g] = <<>>]
  /\ step' = [step EXCEPT ![g] = "idle"]
  /\ UNCHANGED <<blocks, chunk, buf, nonce, readingVars>>

-----------------------------------------------------------------------------
(* Reading.                                                                *)

\* Read with leftover bytes of the previous record.
ReadLeftover(n) ==
  /\ ~failed /\ leftover # <<>>
  /\ out' = out \o SubSeq(leftover, 1, Min({n, Len(leftover)}))
  /\ leftover' = SubSeq(leftover, n + 1, Len(leftover))
  /\ UNCHANGED <<writing, wire, rnonce, failed, order>>

Opens(rec) ==
  /\ rec.sizeNonce = rnonce /\ rec.payloadNonce = rnonce + 1
  /\ rec.size = Len(rec.payload)

\* Mutant: what does not fit is dropped.
DeliversDropping(rec, n) ==
  /\ out' = out \o SubSeq(rec.payload, 1, Min({n, Len(rec.payload)}))
  /\ leftover' = <<>>

\* What does not fit stays in leftover.
Delivers(rec, n) ==
  /\ out' = out \o SubSeq(rec.payload, 1, Min({n, Len(rec.payload)}))
  /\ leftover' = SubSeq(rec.payload, n + 1, Len(rec.payload))

\* Read without: the size and the payload of a record are opened.
ReadRecord(n) ==
  /\ encrypted /\ ~failed /\ leftover = <<>> /\ wire # <<>>
  /\ \/ /\ Opens(Head(wire))
        /\ Delivers(Head(wire), n)
        /\ rnonce' = rnonce + 2
        /\ UNCHANGED failed
     \/ /\ ~Opens(Head(wire))
        /\ failed' = TRUE
        /\ UNCHANGED <<out, leftover, rnonce>>
  /\ wire' = Tail(wire)
  /\ UNCHANGED <<writing, order>>

\* The adapter's Read: the WebSocket reader keeps the rest of a message.
ReadMessage(n) ==
  /\ ~encrypted /\ leftover = <<>> /\ wire # <<>>
  /\ Delivers(Head(wire), n)
  /\ wire' = Tail(wire)
  /\ UNCHANGED <<writing, rnonce, failed, order>>

SecureNext ==
  /\ UNCHANGED encrypted
  /\ \/ \E g \in Writers, n \in BlockSizes : Begin(g, n)
     \/ /\ UNCHANGED overlapped
        /\ \/ \E g \in Writers :
               \/ Fill(g) \/ SealSize(g) \/ SealPayload(g) \/ WriteRecord(g)
               \/ WriteEnds(g) \/ WriteMessage(g)
           \/ \E n \in ReadSizes : ReadLeftover(n) \/ ReadRecord(n) \/ ReadMessage(n)

SecureSpec == SecureInit /\ [][SecureNext]_secureVars

-----------------------------------------------------------------------------
(* Properties.                                                             *)

\* What Read has returned and will return is the blocks written, each in one
\* piece and unchanged, for every way to cut blocks into records and records
\* into reads: always without a cipher, since one message under the adapter's
\* mutex is one block, and with one as long as ReadFrom runs in one goroutine at
\* a time.
BlocksArriveWhole ==
  ~overlapped =>
    IsPrefix(out \o leftover \o Joined([i \in DOMAIN wire |-> wire[i].payload]),
             Joined(order))

\* Every record that the writer sends opens at the reader, their nonces in step,
\* whichever goroutines write, as long as they do not write at the same time.
RecordsOpen == failed => overlapped

\* The mutex of the connection "protects concurrent writes": whichever goroutines
\* write to the tunnel, the other end can read what they write.
ConcurrentWritesReadable == ~failed
=============================================================================
